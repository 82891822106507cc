----------------------------- MODULE MCDiscovery ------------------------------
(* A ring of three switches, one of them not in the inventory, and a server. *)
EXTENDS Discovery
CONSTANTS core, access, stray, server, a1, a2, a3, a4, a5
MCAlphabet == (core :> 3) @@ (access :> 2) @@ (stray :> 4) @@ (server :> 1)
MCIntended == (core :> "core-01") @@ (access :> "access-01") @@ (server :> "server-01")
Intent(r, p, f) == [remote |-> r, port |-> p, flexible |-> f]
Port == <<"GigabitEthernet1/0/1", "GigabitEthernet1/0/2", "GigabitEthernet1/0/3">>
Short == <<"Gi1/0/1", "Gi1/0/2", "Gi1/0/3">>
MCMeant == [x \in {Port[i] : i \in 1 .. 3} \cup {Short[i] : i \in 1 .. 3} |->
               Port[CHOOSE i \in 1 .. 3 : x \in {Port[i], Short[i]}]]
MCDesign == (core :> (Port[1] :> Intent("access-01", Port[1], FALSE))) @@
            (access :> ((Port[1] :> Intent("core-01", Short[1], FALSE)) @@
                        (Port[2] :> Intent("server-01", None, TRUE)))) @@
            (server :> <<>>)
Both(S) == UNION {{<<l[1], Port[l[2]], l[3], Port[l[4]]>>, <<l[3], Port[l[4]], l[1], Port[l[2]]>>} : l \in S}
MCCablings == {Both({<<core, 1, access, 1>>, <<access, 2, server, 1>>, <<core, 3, stray, 1>>}),
               Both({<<core, 1, access, 3>>, <<core, 3, stray, 1>>, <<stray, 2, access, 2>>}),
               Both({<<core, 1, stray, 1>>, <<stray, 2, access, 1>>, <<access, 2, server, 1>>})}
MCNamings == {(core :> "core-01") @@ (access :> "s2") @@ (stray :> "s3") @@ (server :> "ilo"),
              (core :> "Switch") @@ (access :> "Switch") @@ (stray :> "Switch") @@ (server :> "ilo")}
MCLease == (core :> a1) @@ (access :> a2) @@ (stray :> a3) @@ (server :> a4)
===============================================================================
