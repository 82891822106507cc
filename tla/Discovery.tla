------------------------------ MODULE Discovery -------------------------------
(***************************************************************************)
(* From the DHCP leases to the cabling report: run_discovery asks every    *)
(* leased address for its serial number, name and CDP neighbours,          *)
(* run_topology makes a graph of the answers and orders it (module         *)
(* Topology), and run_validation compares the neighbours with the design.  *)
(* Neighbours name each other by the host name they carry at that moment,  *)
(* and all three steps must find out whom they mean.                       *)
(*                                                                         *)
(* While the laptop works a technician may move a cable and a device may   *)
(* get another address; a request to a device may fail.  A second          *)
(* discovery of the same process keeps what the first one has found.       *)
(*                                                                         *)
(* The design is the result of parsing the templates: for each port, under *)
(* the name of its interface line, the inventory's name that its           *)
(* description contains, the port there as it is written there or None,    *)
(* and whether the port is an access port.  A description may write a port *)
(* short ("Gi1/0/48"); CDP always writes it in full.                       *)
(***************************************************************************)
EXTENDS Topology, SequencesExt

CONSTANTS
    Alphabet,   \* the devices, by serial number, with its place in the alphabet
    Speakers,   \* the devices that speak CDP; the others are known by Redfish
    Uplink,     \* the device that the laptop is plugged into
    Laptop,     \* the laptop's address
    None,
    Intended,   \* the inventory: names of the devices in it
    Design,     \* and their ports
    Meant,      \* the port, as CDP writes it, that is meant by a port's written name
    Cablings,   \* ways the cables may be plugged in
    Namings,    \* host names the devices may carry when they are unpacked
    FirstLease, \* their first addresses
    MaxRuns, MaxMoves, MaxFaults

Devices == DOMAIN Alphabet
Known == DOMAIN Intended
Address == Node \ {Laptop}

\* A port takes one cable; no two devices are leased the same address; the
\* templates describe the ports of devices that speak CDP, by names of the
\* inventory.  A port's full name means the port.
ASSUME DiscoveryAssumption ==
    /\ Laptop \in Node /\ Uplink \in Devices /\ FirstLease \in [Devices -> Address]
    /\ \A d, e \in Devices : FirstLease[d] = FirstLease[e] => d = e
    /\ Speakers \subseteq Devices /\ Known \subseteq Devices /\ None \notin Devices
    /\ \A h \in Namings : DOMAIN h = Devices /\ \A d \in Devices : h[d] # None
    /\ \A c \in Cablings : \A l \in c :
          /\ <<l[3], l[4], l[1], l[2]>> \in c
          /\ Meant[l[4]] = l[4]
          /\ \A k \in c : k[1] = l[1] /\ k[2] = l[2] => k = l
    /\ DOMAIN Design = Known
    /\ \A d \in Known : \A p \in DOMAIN Design[d] :
          d \in Speakers /\ \E e \in Known : Design[d][p].remote = Intended[e]

VARIABLES
    cables,     \* <<device, port, device, port>>, in both directions
    hostname,   \* of each device
    lease,      \* and its address
    joined,     \* does the caller add the laptop's link to the graph
    found,      \* state.discovered_devices, in the order of its keys
    todo,       \* leases still to be probed
    results,    \* state.cabling_results
    pc,
    runs, moves, faults,
    fresh       \* history: what was found in this run is still so

world == <<cables, hostname, lease, joined>>
vars == <<bfs, world, found, todo, results, pc, runs, moves, faults, fresh>>

Init ==
    /\ cables \in Cablings /\ hostname \in Namings /\ lease = FirstLease
    /\ joined \in BOOLEAN
    /\ found = <<>> /\ todo = {} /\ results = <<>>
    /\ pc = "idle" /\ runs = 0 /\ moves = 0 /\ faults = 0 /\ fresh = TRUE
    /\ Search({}, <<>>, Laptop)

-------------------------------------------------------------------------------
(***************************************************************************)
(* Discovery.                                                              *)
(***************************************************************************)

\* show cdp neighbors detail
CdpTable(d) ==
    {[local |-> l[2], id |-> hostname[l[3]], port |-> l[4], ip |-> lease[l[3]]] :
        l \in {k \in cables : k[1] = d /\ k[3] \in Speakers}}

\* The lease file is read.  run_network_config, which finds no order, starts a
\* second discovery with the same state.
Leases ==
    /\ pc \in {"idle", "done"} /\ runs < MaxRuns
    /\ runs' = runs + 1 /\ pc' = "probe"
    /\ todo' = {lease[d] : d \in Devices}
    /\ fresh' = \A e \in Range(found) : e.ip \in todo'
    /\ results' = <<>>
    /\ SearchAgain({}, <<>>, Laptop)
    /\ UNCHANGED <<world, found, moves, faults>>

NoAnswer(a) == [ip |-> a, serial |-> None, name |-> None, cdp |-> {}]

Answer(d) == [ip |-> lease[d], serial |-> d, name |-> hostname[d],
              cdp |-> IF d \in Speakers THEN CdpTable(d) ELSE {}]

\* A command that fails returns the empty text: one of the three, or those
\* after the session has died; a login that fails returns nothing.
Broken(d) ==
    {NoAnswer(lease[d])} \cup
    IF d \notin Speakers THEN {}
    ELSE [ip: {lease[d]}, serial: {d, None}, name: {hostname[d], None}, cdp: {CdpTable(d), {}}]

\* A dictionary keeps the place of a key that is written again.
Put(e) ==
    IF \E i \in DOMAIN found : found[i].ip = e.ip
    THEN [i \in DOMAIN found |-> IF found[i].ip = e.ip THEN e ELSE found[i]]
    ELSE Append(found, e)

\* Leases stand in their file in an order of its own, new ones at its end.
Place(a) == CHOOSE i \in 1 .. Len(found) + 1 :
                \/ i > Len(found) /\ \A j \in DOMAIN found : found[j].ip # a
                \/ i <= Len(found) /\ found[i].ip = a

Probe(a) ==
    LET here == {d \in Devices : lease[d] = a}
    IN  /\ pc = "probe" /\ a \in todo /\ \A b \in todo : Place(a) <= Place(b)
        /\ todo' = todo \ {a}
        /\ \/ here = {} /\ found' = Put(NoAnswer(a)) /\ faults' = faults
           \/ \E d \in here : found' = Put(Answer(d)) /\ faults' = faults
           \/ \E d \in here : \E e \in Broken(d) :
                 faults < MaxFaults /\ found' = Put(e) /\ faults' = faults + 1
        /\ UNCHANGED <<bfs, world, results, pc, runs, moves, fresh>>

-------------------------------------------------------------------------------
(***************************************************************************)
(* Topology.                                                               *)
(***************************************************************************)

IntendedName(e) == IF e.serial \in Known THEN Intended[e.serial] ELSE None

\* hostname_to_ip: the last device that carries a name, or is to carry it.
\* A neighbour whose name nobody has is looked for at its address.
Resolved(nbr) ==
    LET named == {i \in DOMAIN found : nbr.id \in {found[i].name, IntendedName(found[i])}}
    IN  IF named = {} THEN nbr.ip ELSE found[Max(named)].ip

Addresses == {e.ip : e \in Range(found)}

Edges ==
    LET heard == UNION {{<<e.ip, Resolved(n)>> : n \in e.cdp} : e \in Range(found)}
        cdp == {l \in heard : l[2] \in Addresses}
        laptop == IF joined THEN {<<Laptop, lease[Uplink]>>} ELSE {}
        all == cdp \cup laptop
    IN  all \cup {<<l[2], l[1]>> : l \in all}

\* The laptop is no neighbour of anyone and has no lease: without an edge that
\* the caller adds, its node stays alone.
BuildGraph ==
    /\ pc = "probe" /\ todo = {}
    /\ pc' = "search"
    /\ UNCHANGED <<world, found, todo, results, runs, moves, faults, fresh>>
    /\ LET entry(a) == CHOOSE e \in Range(found) : e.ip = a
           s == [a \in {b \in Addresses : entry(b).serial # None} |-> Alphabet[entry(a).serial]]
       IN  SearchAgain(Edges, s, Laptop)

CalculateOrder ==
    /\ pc = "search"
    /\ (\E n \in Node : Visit(n)) \/ PopLeft \/ (Sort /\ order' # <<>>)
    /\ UNCHANGED <<world, found, todo, results, pc, runs, moves, faults, fresh>>

-------------------------------------------------------------------------------
(***************************************************************************)
(* Cabling validation.                                                     *)
(***************************************************************************)

\* serial_to_hostname: the design's name for the last device that carries one.
DesignName(id) ==
    LET named == {i \in DOMAIN found : found[i].name = id}
        last == found[Max(named)]
    IN  IF named # {} /\ last.serial \in Known THEN Intended[last.serial] ELSE id

Status_AnyPort(intent, nbr) ==
    CASE DesignName(nbr.id) = intent.remote -> "correct"
      [] DesignName(nbr.id) # intent.remote /\ intent.flexible -> "adaptable"
      [] OTHER -> "wrong_device"

\* The names of the ports are compared as they are written.
Status(intent, nbr) ==
    LET right == DesignName(nbr.id) = intent.remote
    IN  CASE right /\ intent.port \in {None, nbr.port} -> "correct"
          [] right /\ intent.port \notin {None, nbr.port} -> "wrong_port"
          [] ~ right /\ intent.flexible -> "adaptable"
          [] ~ right /\ ~ intent.flexible -> "wrong_device"

Diff(e) ==
    LET design == Design[e.serial]
        heard == {n.local : n \in e.cdp}
        at(p) == CHOOSE n \in e.cdp : n.local = p
    IN  [p \in DOMAIN design \cup heard |->
            CASE p \notin heard -> "missing"
              [] p \notin DOMAIN design -> "unexpected"
              [] OTHER -> Status(design[p], at(p))]

\* One report for each serial number of the inventory that was found; of two
\* addresses with the same number the later one counts.
Report ==
    LET of(d) == {i \in DOMAIN found : found[i].serial = d}
    IN  [d \in {c \in Known : of(c) # {}} |-> Diff(found[Max(of(d))])]

Validate ==
    /\ pc = "search" /\ Searched /\ (order # <<>> \/ Listed = {})
    /\ results' = Report /\ pc' = "done"
    /\ UNCHANGED <<bfs, world, found, todo, runs, moves, faults, fresh>>

-------------------------------------------------------------------------------
\* The technician plugs the cables in another way; a device gets a new address.
Move ==
    /\ moves < MaxMoves /\ moves' = moves + 1 /\ pc \in {"probe", "done"}
    /\ \/ cables' \in Cablings \ {cables} /\ lease' = lease
       \/ /\ cables' = cables
          /\ \E d \in Devices, a \in Address \ Range(lease) : lease' = [lease EXCEPT ![d] = a]
    /\ fresh' = FALSE
    /\ UNCHANGED <<bfs, hostname, joined, found, todo, results, pc, runs, faults>>

Next == Leases \/ (\E a \in Address : Probe(a)) \/ BuildGraph \/ CalculateOrder \/ Validate \/ Move

Spec == Init /\ [][Next]_vars

-------------------------------------------------------------------------------
(***************************************************************************)
(* Properties.                                                             *)
(***************************************************************************)

\* No two devices carry the same name, and none the name meant for another.
\* Devices as they come from the factory all carry the same one.
NamesTellApart ==
    \A d, e \in Devices : d # e =>
        /\ hostname[d] # hostname[e]
        /\ e \in Known => hostname[d] # Intended[e]

\* Is port p of d plugged in as designed?
AsDesigned(d, p) ==
    \E l \in cables : /\ l[1] = d /\ l[2] = p /\ l[3] \in Known
                      /\ Intended[l[3]] = Design[d][p].remote
                      /\ Design[d][p].port # None => Meant[Design[d][p].port] = l[4]

\* Does the design write the port at the other end of p in full, or not at all?
InFull(d, p) == Design[d][p].port # None => Meant[Design[d][p].port] = Design[d][p].port

\* A port is reported correct only when it is plugged in as designed, whatever
\* request failed; and when none failed, each such port is reported correct if
\* its other end speaks CDP and the design does not write it short.  (A blocker
\* stops a deployment on site, a wrong "correct" cuts the laptop off when the
\* port's device is configured.)
ReportIsTrue ==
    pc = "done" /\ fresh /\ NamesTellApart =>
        \A d \in DOMAIN results : \A p \in DOMAIN Design[d] :
            /\ results[d][p] = "correct" => AsDesigned(d, p)
            /\ faults = 0 /\ AsDesigned(d, p) /\ InFull(d, p) => results[d][p] = "correct" \/
                  \E l \in cables : l[1] = d /\ l[2] = p /\ l[3] \notin Speakers

\* The devices that the laptop reaches over cables between devices of S: they
\* are in every part of S that has the uplink and that no cable within S leaves.
ReachedOver(S) ==
    {d \in S : \A part \in SUBSET S :
        /\ {Uplink} \cap S \subseteq part
        /\ \A l \in cables : l[1] \in part /\ l[3] \in S => l[3] \in part
        => d \in part}

\* When a device's turn comes, cables lead to it over devices that have not
\* been reconfigured yet.
OrderFollowsCables ==
    pc \in {"search", "done"} /\ fresh /\ NamesTellApart =>
        \A i \in DOMAIN order :
            LET done == {order[j] : j \in 1 .. i - 1}
            IN  \E d \in ReachedOver({e \in Devices : lease[e] \notin done}) : lease[d] = order[i]

===============================================================================
