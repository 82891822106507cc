--------------------------- MODULE MCProvisioning ---------------------------
(* Entries with one or a few sections each: what one section leaves behind *)
(* meets what another one expects.                                         *)
EXTENDS Provisioning

Empty == [kind |-> "hpe", firmware |-> FALSE, bios |-> FALSE, raid |-> "none", spp |-> FALSE,
          os |-> FALSE, kickstart |-> FALSE, network |-> FALSE, users |-> {},
          adminFirst |-> FALSE, secret |-> "old",
          priv |-> TRUE, remove |-> FALSE, services |-> FALSE]

Full == [Empty EXCEPT !.firmware = TRUE, !.bios = TRUE, !.raid = "clear", !.spp = TRUE, !.os = TRUE,
                      !.kickstart = TRUE, !.users = {"ops"}]

(* The users get a new password; the default account may be one of them.   *)
Access == {[Empty EXCEPT !.network = n, !.users = u, !.adminFirst = n, !.secret = "new", !.priv = p,
                         !.remove = r, !.services = TRUE] : n, p, r \in BOOLEAN, u \in SUBSET Names}

Clock == {[Empty EXCEPT !.kind = "ntp", !.firmware = f, !.network = n, !.users = Names,
                        !.adminFirst = f, !.secret = "new", !.services = TRUE] : f, n \in BOOLEAN}

Function == {[Empty EXCEPT !.kind = k, !.raid = r, !.kickstart = r = "keep"] :
                k \in {"bios", "raid", "install", "flash"}, r \in {"keep", "clear"}}

MCSpecs ==
    {Full, [Full EXCEPT !.remove = TRUE], [Full EXCEPT !.raid = "keep"]} \cup Access \cup Clock \cup Function
=============================================================================
