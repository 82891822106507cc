---------------------------- MODULE InputsProofs -----------------------------
(***************************************************************************)
(* Proofs about what a deployment starts from: the picture of the rack     *)
(* that discovery makes, for any number of devices, and the inventory file *)
(* that a preparation leaves behind, for any nodes and contents of NetBox. *)
(*                                                                         *)
(* The search (module Topology).  The queue is sorted by depth, nothing    *)
(* reached is deeper than the node searched from by more than one, and     *)
(* what has left the queue has all its neighbours reached: SearchInv.      *)
(*                                                                         *)
(* What discovery has collected (DiscoveryInv).  Every entry is a true     *)
(* answer, or part of one, of the device that has its address, as long as  *)
(* nothing has moved; the graph made from the entries has then only edges  *)
(* that are cables, where names tell the devices apart.                    *)
(*                                                                         *)
(* What is made of it: the order follows the cables, because the last      *)
(* unreachable device would have a nearer neighbour that comes later; the  *)
(* report is true, because names lead to the devices that carry them.      *)
(*                                                                         *)
(* The preparation.  While the thread is at work nothing says that it is   *)
(* complete, and nothing else changes the file and the clone.              *)
(***************************************************************************)
EXTENDS Discovery, Preparation, FiniteSetTheorems, WellFoundedInduction, TLAPS

Waiting == {queue[i] : i \in DOMAIN queue}

TypeOK ==
    /\ edges \in SUBSET (Node \X Node)
    /\ Symmetric(edges)
    /\ DOMAIN serials \in SUBSET Node
    /\ root \in Node
    /\ Reached \in SUBSET Node
    /\ depths \in [Reached -> Nat]
    /\ queue \in Seq(Reached)
    /\ current \in Reached
    /\ root \in Reached

\* The queue holds the nodes level by level, none of them before the level
\* being searched from and none further than one level behind it.
QueueByLevel ==
    /\ \A i \in DOMAIN queue : depths[current] <= depths[queue[i]]
    /\ \A i, j \in DOMAIN queue : i < j => depths[queue[i]] <= depths[queue[j]]
    /\ \A n \in Reached : depths[n] <= depths[current] + 1

\* What is neither searched from nor waiting has been dealt with.
Finished ==
    \A m \in Reached : \/ m = current
                       \/ m \in Waiting
                       \/ \A n \in Neighbours(m) :
                             n \in Reached /\ depths[n] <= depths[m] + 1

Parents ==
    /\ depths[root] = 0
    /\ \A n \in Reached \ {root} :
          \E m \in Reached : n \in Neighbours(m) /\ depths[n] = depths[m] + 1

SearchInv == TypeOK /\ QueueByLevel /\ Finished /\ Parents

\* At the start nothing but the root is reached.
LEMMA InitSearch == TopologyInit => SearchInv
<1> SUFFICES ASSUME TopologyInit PROVE SearchInv
  OBVIOUS
<1>1. PICK e \in SUBSET (Node \X Node), r \in Node, known \in SUBSET Node :
        \E s \in [known -> Nat] : Symmetric(e) /\ Search(e, s, r)
  BY DEF TopologyInit
<1>2. /\ Reached = {r} /\ depths = [n \in {r} |-> 0] /\ queue = <<>>
      /\ current = r /\ root = r /\ depths[r] = 0
  BY <1>1 DEF Search, Reached
<1>3. TypeOK
  BY <1>1, <1>2 DEF TypeOK, Search
<1>4. QueueByLevel /\ Finished /\ Parents
  BY <1>2 DEF QueueByLevel, Finished, Parents
<1> QED
  BY <1>3, <1>4 DEF SearchInv

\* A neighbour that is reached for the first time goes to the end of the queue,
\* one level below the node searched from.
LEMMA VisitSearch ==
    ASSUME SearchInv, NEW n \in Node, Visit(n) PROVE SearchInv'
<1> USE DEF Reached
<1>1. /\ n \notin Reached /\ n \in Neighbours(current)
      /\ Reached' = Reached \cup {n}
      /\ depths'[n] = depths[current] + 1
      /\ \A m \in Reached : depths'[m] = depths[m]
      /\ edges' = edges /\ root' = root /\ current' = current /\ serials' = serials
      /\ queue' = Append(queue, n)
  BY DEF Visit, SearchInv, TypeOK
<1>2. /\ DOMAIN queue = 1 .. Len(queue) /\ DOMAIN queue' = 1 .. Len(queue) + 1
      /\ Len(queue) \in Nat
      /\ \A i \in DOMAIN queue : queue[i] \in Reached /\ queue'[i] = queue[i]
      /\ queue'[Len(queue) + 1] = n
  BY <1>1 DEF SearchInv, TypeOK
<1>3. \A m \in Reached : depths[m] \in Nat
  BY DEF SearchInv, TypeOK
<1>4. \A m \in Node : Neighbours(m)' = Neighbours(m)
  BY <1>1 DEF Neighbours
<1>5. current \in Reached /\ root \in Reached /\ Reached \subseteq Node
  BY DEF SearchInv, TypeOK
<1>6. TypeOK'
  <2>1. depths' \in [Reached' -> Nat]
    BY <1>1, <1>3, <1>5 DEF Visit
  <2>2. queue' \in Seq(Reached')
    <3>1. queue \in Seq(Reached')
      BY <1>1 DEF SearchInv, TypeOK
    <3> QED
      BY <1>1, <3>1
  <2>3. Symmetric(edges)'
    BY <1>1 DEF SearchInv, TypeOK, Symmetric
  <2> QED
    BY <1>1, <1>5, <2>1, <2>2, <2>3 DEF SearchInv, TypeOK
<1>7. QueueByLevel'
  <2>1. \A i \in DOMAIN queue' : depths'[current] <= depths'[queue'[i]]
    BY <1>1, <1>2, <1>3, <1>5 DEF SearchInv, QueueByLevel
  <2>2. \A i, j \in DOMAIN queue' : i < j => depths'[queue'[i]] <= depths'[queue'[j]]
    BY <1>1, <1>2, <1>3, <1>5 DEF SearchInv, QueueByLevel
  <2>3. \A m \in Reached' : depths'[m] <= depths'[current] + 1
    BY <1>1, <1>3, <1>5 DEF SearchInv, QueueByLevel
  <2> QED
    BY <1>1, <2>1, <2>2, <2>3 DEF QueueByLevel
<1>8. Finished'
  <2> SUFFICES ASSUME NEW m \in Reached', m # current, m \notin Waiting'
               PROVE \A k \in Neighbours(m) : k \in Reached' /\ depths'[k] <= depths'[m] + 1
    BY <1>1, <1>4, <1>5 DEF Finished
  <2>1. m # n /\ m \notin Waiting
    BY <1>2 DEF Waiting
  <2>2. m \in Reached
    BY <1>1, <2>1
  <2> QED
    BY <1>1, <2>1, <2>2 DEF SearchInv, Finished
<1>9. Parents'
  BY <1>1, <1>4, <1>5 DEF SearchInv, Parents
<1> QED
  BY <1>6, <1>7, <1>8, <1>9 DEF SearchInv

\* The next node is taken off the queue when all neighbours are reached.
LEMMA PopSearch == ASSUME SearchInv, PopLeft PROVE SearchInv'
<1> USE DEF Reached
<1>1. /\ Neighbours(current) \subseteq Reached /\ queue # <<>>
      /\ current' = Head(queue) /\ queue' = Tail(queue)
      /\ edges' = edges /\ serials' = serials /\ root' = root /\ depths' = depths
  BY DEF PopLeft
<1>2. queue \in Seq(Reached) /\ Len(queue) \in Nat \ {0}
  BY <1>1 DEF SearchInv, TypeOK
<1>3. /\ DOMAIN queue = 1 .. Len(queue) /\ DOMAIN queue' = 1 .. (Len(queue) - 1)
      /\ \A i \in DOMAIN queue' : queue'[i] = queue[i + 1]
      /\ current' = queue[1] /\ queue[1] \in Reached
      /\ queue' \in Seq(Reached)
  BY <1>1, <1>2
<1>4. \A m \in Reached : depths[m] \in Nat
  BY DEF SearchInv, TypeOK
<1>5. current \in Reached /\ \A i \in DOMAIN queue : queue[i] \in Reached
  BY <1>2 DEF SearchInv, TypeOK
<1>6. \A m : Neighbours(m)' = Neighbours(m)
  BY <1>1 DEF Neighbours
<1>7. TypeOK'
  BY <1>1, <1>3 DEF SearchInv, TypeOK, Symmetric
<1>8. QueueByLevel'
  <2>1. \A i \in DOMAIN queue' : depths[queue[1]] <= depths[queue'[i]]
    BY <1>2, <1>3, <1>5 DEF SearchInv, QueueByLevel
  <2>2. \A i, j \in DOMAIN queue' : i < j => depths[queue'[i]] <= depths[queue'[j]]
    <3> SUFFICES ASSUME NEW i \in DOMAIN queue', NEW j \in DOMAIN queue', i < j
                 PROVE depths[queue'[i]] <= depths[queue'[j]]
      OBVIOUS
    <3>1. i + 1 \in DOMAIN queue /\ j + 1 \in DOMAIN queue /\ i + 1 < j + 1
      BY <1>2, <1>3
    <3>2. depths[queue[i + 1]] <= depths[queue[j + 1]]
      BY <3>1 DEF SearchInv, QueueByLevel
    <3> QED
      BY <1>3, <3>2
  <2>3. \A n \in Reached : depths[n] <= depths[queue[1]] + 1
    <3>1. depths[current] <= depths[queue[1]]
      BY <1>2, <1>3 DEF SearchInv, QueueByLevel
    <3> QED
      BY <1>3, <1>4, <1>5, <3>1 DEF SearchInv, QueueByLevel
  <2> QED
    BY <1>1, <1>3, <2>1, <2>2, <2>3 DEF QueueByLevel
<1>9. Finished'
  <2> SUFFICES ASSUME NEW m \in Reached, m # current', m \notin Waiting'
               PROVE \A n \in Neighbours(m) : n \in Reached /\ depths[n] <= depths[m] + 1
    BY <1>1, <1>6 DEF Finished
  <2>1. m \notin Waiting
    <3> SUFFICES ASSUME NEW i \in DOMAIN queue, m = queue[i] PROVE FALSE
      BY DEF Waiting
    <3>1. i # 1
      BY <1>3
    <3>2. i - 1 \in DOMAIN queue' /\ queue'[i - 1] = queue[i]
      BY <1>2, <1>3, <3>1
    <3> QED
      BY <3>2 DEF Waiting
  <2>2. CASE m = current
    BY <1>1, <1>4, <2>2 DEF SearchInv, QueueByLevel
  <2>3. CASE m # current
    BY <2>1, <2>3 DEF SearchInv, Finished
  <2> QED
    BY <2>2, <2>3
<1>10. Parents'
  BY <1>1, <1>6 DEF SearchInv, Parents
<1> QED
  BY <1>7, <1>8, <1>9, <1>10 DEF SearchInv

\* Sorting, and stuttering, leave the search alone.
LEMMA SortSearch ==
    ASSUME SearchInv, Sort \/ UNCHANGED bfs PROVE SearchInv'
<1>1. UNCHANGED <<edges, serials, root, depths, queue, current>>
  BY DEF Sort, bfs
<1> QED
  BY <1>1 DEF SearchInv, TypeOK, QueueByLevel, Finished, Parents, Symmetric,
              Reached, Neighbours, Waiting

LEMMA NextSearch == SearchInv /\ [TopologyNext]_bfs => SearchInv'
<1> SUFFICES ASSUME SearchInv, [TopologyNext]_bfs PROVE SearchInv'
  OBVIOUS
<1>1. CASE \E n \in Node : Visit(n)
  BY <1>1, VisitSearch
<1>2. CASE PopLeft
  BY <1>2, PopSearch
<1>3. CASE Sort \/ UNCHANGED bfs
  BY <1>3, SortSearch
<1> QED
  BY <1>1, <1>2, <1>3 DEF TopologyNext

\* When the queue has run empty the invariant is what was to be shown.
LEMMA SearchedLevels == SearchInv => LevelsExact
<1> SUFFICES ASSUME SearchInv, Searched PROVE
        /\ depths[root] = 0
        /\ \A m \in Reached : \A n \in Neighbours(m) :
              n \in Reached /\ depths[n] <= depths[m] + 1
        /\ \A n \in Reached \ {root} :
              \E m \in Reached : n \in Neighbours(m) /\ depths[n] = depths[m] + 1
  BY DEF LevelsExact
<1>1. Waiting = {}
  BY DEF Searched, Waiting
<1>2. \A m \in Reached : \A n \in Neighbours(m) :
        n \in Reached /\ depths[n] <= depths[m] + 1
  BY <1>1 DEF SearchInv, Finished, QueueByLevel, Searched
<1> QED
  BY <1>2 DEF SearchInv, Parents

\* The breadth-first search is exact on every graph.
THEOREM SearchIsExact == TopologySpec => []LevelsExact
<1>1. TopologySpec => []SearchInv
  BY InitSearch, NextSearch, PTL DEF TopologySpec
<1> QED
  BY <1>1, SearchedLevels, PTL

-------------------------------------------------------------------------------
(***************************************************************************)
(* The order.  It is made once, when the search has ended, and lists each  *)
(* reached node with a serial number.                                      *)
(***************************************************************************)
OrderInv == order = <<>> \/ (Searched /\ order \in Orders)

\* The set of possible orders depends on the search alone.
LEMMA OrdersKept ==
    ASSUME UNCHANGED <<edges, serials, root, depths, queue, current>>
    PROVE Orders' = Orders /\ Searched' = Searched
<1>1. Reached' = Reached /\ \A m : Neighbours(m)' = Neighbours(m)
  BY DEF Reached, Neighbours
<1>2. Places' = Places /\ \A m, n : Before(m, n)' = Before(m, n)
  BY <1>1 DEF Places, Listed, Before
<1> QED
  BY <1>1, <1>2 DEF Orders, Listed, Searched

\* Only Sort makes an order, and nothing is searched after it.
LEMMA NextOrder == OrderInv /\ SearchInv /\ [TopologyNext]_bfs => OrderInv'
<1> SUFFICES ASSUME OrderInv, SearchInv, [TopologyNext]_bfs PROVE OrderInv'
  OBVIOUS
<1>1. ASSUME NEW n \in Node, Visit(n) PROVE OrderInv'
  BY <1>1 DEF Visit, OrderInv, Searched, Reached
<1>2. CASE PopLeft
  BY <1>2 DEF PopLeft, OrderInv, Searched
<1>3. CASE Sort
  <2>1. /\ UNCHANGED <<edges, serials, root, depths, queue, current>>
        /\ Searched /\ order' \in Orders
    BY <1>3 DEF Sort
  <2> QED
    BY <2>1, OrdersKept DEF OrderInv
<1>4. CASE UNCHANGED bfs
  BY <1>4, OrdersKept DEF bfs, OrderInv
<1> QED
  BY <1>1, <1>2, <1>3, <1>4 DEF TopologyNext

\* A closer node with a serial number comes later, because the order falls.
LEMMA OrderShields == SearchInv /\ OrderInv => PathComesLater
<1> SUFFICES ASSUME SearchInv, OrderInv, NEW i \in DOMAIN order, order[i] # root
             PROVE \E m \in Reached :
                     /\ order[i] \in Neighbours(m)
                     /\ depths[m] < depths[order[i]]
                     /\ \/ m \notin DOMAIN serials
                        \/ \E j \in DOMAIN order : j > i /\ order[j] = m
  BY DEF PathComesLater
<1>1. Searched /\ order \in Orders /\ DOMAIN order = Places
  BY DEF OrderInv, Orders
<1>2. order[i] \in Reached \ {root}
  BY <1>1 DEF Orders, Listed
<1>3. PICK m \in Reached : order[i] \in Neighbours(m) /\ depths[order[i]] = depths[m] + 1
  BY <1>2 DEF SearchInv, Parents
<1>4. depths[m] \in Nat /\ depths[order[i]] \in Nat /\ depths[m] < depths[order[i]]
  BY <1>2, <1>3 DEF SearchInv, TypeOK
<1>5. CASE m \in DOMAIN serials
  <2>1. PICK j \in Places : order[j] = m
    BY <1>1, <1>5 DEF Orders, Listed
  <2>2. IsFiniteSet(Listed)
    BY NodeAssumption, FS_Subset DEF SearchInv, TypeOK, Listed
  <2>3. i \in Nat /\ j \in Nat
    BY <1>1, <2>2, FS_CardinalityType DEF Places
  <2>4. j # i /\ ~ (j < i)
    BY <1>1, <1>4, <2>1 DEF Orders, Before
  <2>5. j > i
    BY <2>3, <2>4
  <2> QED
    BY <1>1, <1>3, <1>4, <2>1, <2>5
<1> QED
  BY <1>3, <1>4, <1>5

\* In every order a device's way to the laptop is reconfigured after it.
THEOREM OrderIsOutsideIn == TopologySpec => []PathComesLater
<1>1. TopologyInit => OrderInv
  BY DEF TopologyInit, Search, OrderInv
<1>2. TopologySpec => [](SearchInv /\ OrderInv)
  BY <1>1, InitSearch, NextSearch, NextOrder, PTL DEF TopologySpec
<1> QED
  BY <1>2, OrderShields, PTL

-------------------------------------------------------------------------------
(***************************************************************************)
(* Discovery: what is found, as long as nothing has moved, is true of the  *)
(* world, and so is the graph that is made of it.                          *)
(***************************************************************************)
Names == {h[d] : h \in Namings, d \in Devices}
Ports == {l[2] : l \in UNION Cablings}
Heard == [local: Ports, id: Names, port: Ports, ip: Address]
Entry == [ip: Address, serial: Devices \cup {None}, name: Names \cup {None}, cdp: SUBSET Heard]

DiscoveryType ==
    /\ cables \in Cablings /\ hostname \in Namings /\ joined \in BOOLEAN
    /\ lease \in [Devices -> Address]
    /\ \A d, e \in Devices : lease[d] = lease[e] => d = e
    /\ found \in Seq(Entry) /\ todo \in SUBSET Address
    /\ faults \in Nat /\ fresh \in BOOLEAN
    /\ pc \in {"idle", "probe", "search", "done"}

\* An address is a key of the dictionary.
Keyed == \A i, j \in DOMAIN found : found[i].ip = found[j].ip => i = j

\* Requests may have failed, but nothing wrong was heard.
Truths ==
    {e \in Entry : \E d \in Devices :
        /\ lease[d] = e.ip /\ e.serial \in {None, d} /\ e.name \in {None, hostname[d]}
        /\ e.cdp \subseteq CdpTable(d)
        /\ faults = 0 => e = Answer(d)}

Picture ==
    fresh =>
        /\ todo \subseteq Range(lease)
        /\ \A i \in DOMAIN found : found[i].ip \in todo \/ found[i] \in Truths
        /\ pc # "idle" =>
              \A d \in Devices : lease[d] \in todo \/ \E i \in DOMAIN found : found[i].ip = lease[d]

\* Every edge is a cable, or the laptop's.
Cabled ==
    \A m, n \in Node : <<m, n>> \in edges /\ n # Laptop =>
        IF m = Laptop THEN n = lease[Uplink]
        ELSE \E l \in cables : /\ l[1] \in Devices /\ l[3] \in Devices
                               /\ lease[l[1]] = m /\ lease[l[3]] = n

Drawn ==
    /\ root = Laptop /\ DOMAIN serials \subseteq Address
    /\ pc \in {"search", "done"} => todo = {} /\ (fresh /\ NamesTellApart => Cabled)
    /\ pc = "done" => results = Report

DiscoveryInv ==
    SearchInv /\ OrderInv /\ DiscoveryType /\ Keyed /\ Picture /\ Drawn

\* Every set of numbers that has one has a least one.
LEMMA LeastNumber ==
    ASSUME NEW T \in SUBSET Nat, T # {}
    PROVE \E x \in T : \A y \in T : x <= y
<1> DEFINE R == OpToRel(<, Nat)
<1>1. IsWellFoundedOn(R, Nat)
  BY Zenon, NatLessThanWellFounded
<1>2. \A x, y \in Nat : y < x => <<y, x>> \in R
  BY DEF OpToRel
<1> HIDE DEF R
<1>3. \E x \in T : \A y \in T : ~ (<<y, x>> \in R)
  BY <1>1, WFMin
<1>4. PICK x \in T : \A y \in T : ~ (<<y, x>> \in R)
  BY <1>3
<1>5. \A y \in T : x <= y
  <2>1. \A y \in T : ~ (y < x)
    BY <1>2, <1>4
  <2> QED
    BY <2>1
<1> QED
  BY <1>5

LEMMA AddressFacts == Laptop \in Node /\ Laptop \notin Address /\ Address \subseteq Node
BY DiscoveryAssumption DEF Address

\* Every cable has two directions, and each port one cable.
LEMMA CableFacts ==
    ASSUME DiscoveryType, NEW l \in cables
    PROVE /\ <<l[3], l[4], l[1], l[2]>> \in cables
          /\ \A k \in cables : k[1] = l[1] /\ k[2] = l[2] => k = l
<1>1. \A c \in Cablings : \A j \in c :
          /\ <<j[3], j[4], j[1], j[2]>> \in c
          /\ \A k \in c : k[1] = j[1] /\ k[2] = j[2] => k = j
  BY Zenon, DiscoveryAssumption
<1>2. cables \in Cablings
  BY DEF DiscoveryType
<1> QED
  BY Zenon, <1>1, <1>2

\* A search that begins again.
LEMMA BeginsAgain ==
    ASSUME NEW e \in SUBSET (Node \X Node), Symmetric(e), NEW s, DOMAIN s \subseteq Node,
           SearchAgain(e, s, Laptop)
    PROVE SearchInv' /\ OrderInv'
<1>1. /\ Reached' = {Laptop} /\ depths' = [n \in {Laptop} |-> 0] /\ queue' = <<>>
      /\ current' = Laptop /\ root' = Laptop /\ edges' = e /\ serials' = s /\ order' = <<>>
  BY DEF SearchAgain, Reached
<1>2. TypeOK'
  BY <1>1, AddressFacts DEF TypeOK, Symmetric
<1>3. Waiting' = {} /\ depths'[Laptop] = 0
  BY <1>1 DEF Waiting
<1>4. QueueByLevel' /\ Finished' /\ Parents'
  BY <1>1, <1>3 DEF QueueByLevel, Finished, Parents
<1> QED
  BY <1>1, <1>2, <1>4 DEF SearchInv, OrderInv

LEMMA NothingSearched ==
    ASSUME SearchAgain({}, <<>>, Laptop) PROVE SearchInv' /\ OrderInv' /\ DOMAIN serials' = {}
<1>1. {} \in SUBSET (Node \X Node) /\ Symmetric({}) /\ DOMAIN <<>> = {}
  BY DEF Symmetric
<1> QED
  BY <1>1, BeginsAgain DEF SearchAgain

LEMMA InitDiscovery == Init => DiscoveryInv
<1> SUFFICES ASSUME Init PROVE DiscoveryInv
  OBVIOUS
<1>1. TopologyInit
  <2>1. /\ {} \in SUBSET (Node \X Node) /\ Laptop \in Node /\ {} \in SUBSET Node
        /\ <<>> \in [{} -> Nat] /\ Symmetric({})
    BY AddressFacts DEF Symmetric
  <2> QED
    BY <2>1 DEF Init, TopologyInit
<1>2. OrderInv /\ root = Laptop /\ DOMAIN serials = {}
  BY DEF Init, Search, OrderInv
<1>3. DiscoveryType
  BY DiscoveryAssumption DEF Init, DiscoveryType
<1>4. Keyed /\ Picture /\ Drawn
  BY <1>2 DEF Init, Keyed, Picture, Drawn
<1> QED
  BY <1>1, <1>2, <1>3, <1>4, InitSearch DEF DiscoveryInv

\* What is heard of a device is of the right type.
LEMMA AnswerTypes ==
    ASSUME DiscoveryType, NEW d \in Devices
    PROVE /\ CdpTable(d) \subseteq Heard
          /\ Answer(d) \in Entry /\ Broken(d) \subseteq Entry /\ NoAnswer(lease[d]) \in Entry
          /\ Answer(d) \in Truths
          /\ \A e \in Broken(d) : /\ e.ip = lease[d] /\ e.serial \in {None, d}
                                  /\ e.name \in {None, hostname[d]} /\ e.cdp \subseteq CdpTable(d)
<1>1. /\ \A l \in cables : l[2] \in Ports /\ l[4] \in Ports
      /\ \A e \in Speakers : hostname[e] \in Names /\ lease[e] \in Address
      /\ lease[d] \in Address /\ hostname[d] \in Names
  <2>1. \A l \in cables : <<l[3], l[4], l[1], l[2]>> \in cables
    BY Zenon, CableFacts
  <2>2. \A l \in cables : l[2] \in Ports
    BY DEF Ports, DiscoveryType
  <2>3. \A l \in cables : <<l[3], l[4], l[1], l[2]>>[2] = l[4]
    OBVIOUS
  <2>4. \A l \in cables : l[4] \in Ports
    BY <2>1, <2>2, <2>3
  <2> QED
    BY <2>2, <2>4, DiscoveryAssumption DEF DiscoveryType, Names
<1>2. CdpTable(d) \subseteq Heard
  BY <1>1 DEF CdpTable, Heard
<1>3. /\ Answer(d) \in Entry /\ NoAnswer(lease[d]) \in Entry
      /\ Answer(d).ip = lease[d] /\ Answer(d).serial = d /\ Answer(d).name = hostname[d]
      /\ Answer(d).cdp \subseteq CdpTable(d)
  BY <1>1, <1>2 DEF Answer, NoAnswer, Entry
<1>4. \A e \in Broken(d) :
        /\ e \in Entry /\ e.ip = lease[d] /\ e.serial \in {None, d}
        /\ e.name \in {None, hostname[d]} /\ e.cdp \subseteq CdpTable(d)
  <2>1. CASE d \notin Speakers
    BY <1>3, <2>1 DEF Broken, NoAnswer
  <2>2. ASSUME d \in Speakers, NEW e \in [ip: {lease[d]}, serial: {d, None}, name: {hostname[d], None},
                                         cdp: {CdpTable(d), {}}]
        PROVE /\ e \in Entry /\ e.ip = lease[d] /\ e.serial \in {None, d}
              /\ e.name \in {None, hostname[d]} /\ e.cdp \subseteq CdpTable(d)
    BY <1>1, <1>2, <2>2 DEF Entry
  <2>3. CASE d \in Speakers
    BY <1>3, <2>2, <2>3 DEF Broken, NoAnswer
  <2> QED
    BY <2>1, <2>3
<1> QED
  BY <1>2, <1>3, <1>4 DEF Truths

\* An entry that is written takes the place of the one with its key.
LEMMA PutWrites ==
    ASSUME DiscoveryType, Keyed, NEW e \in Entry, found' = Put(e)
    PROVE /\ found' \in Seq(Entry) /\ Keyed'
          /\ \A i \in DOMAIN found' :
                found'[i] = e \/ \E j \in DOMAIN found : found[j] = found'[i] /\ found[j].ip # e.ip
          /\ \E i \in DOMAIN found' : found'[i] = e
          /\ \A j \in DOMAIN found : \E i \in DOMAIN found' : found'[i].ip = found[j].ip
<1>1. found \in Seq(Entry) /\ Len(found) \in Nat /\ DOMAIN found = 1 .. Len(found)
      /\ \A i \in DOMAIN found : found[i] \in Entry
  BY DEF DiscoveryType
<1>2. CASE \E k \in DOMAIN found : found[k].ip = e.ip
  <2>1. found' = [i \in DOMAIN found |-> IF found[i].ip = e.ip THEN e ELSE found[i]]
    BY <1>2 DEF Put
  <2>2. found' \in Seq(Entry) /\ DOMAIN found' = DOMAIN found
    BY <1>1, <2>1
  <2>3. \A i \in DOMAIN found : found'[i].ip = found[i].ip
    BY <1>1, <2>1
  <2> QED
    BY <1>2, <2>1, <2>2, <2>3 DEF Keyed
<1>3. CASE ~\E k \in DOMAIN found : found[k].ip = e.ip
  <2>1. found' = Append(found, e)
    BY <1>3 DEF Put
  <2>2. /\ found' \in Seq(Entry) /\ DOMAIN found' = 1 .. Len(found) + 1
        /\ \A i \in DOMAIN found : found'[i] = found[i]
        /\ found'[Len(found) + 1] = e
    BY <1>1, <2>1
  <2>3. \A i \in DOMAIN found' : i \in DOMAIN found \/ i = Len(found) + 1
    BY <1>1, <2>2
  <2>4. Keyed'
    BY <1>3, <2>2, <2>3 DEF Keyed
  <2>5. DOMAIN found \subseteq DOMAIN found' /\ Len(found) + 1 \in DOMAIN found'
    BY <1>1, <2>2
  <2> QED
    BY <1>3, <2>2, <2>3, <2>4, <2>5
<1> QED
  BY <1>2, <1>3

\* The truth about a device changes with the world only.
LEMMA TruthKept ==
    ASSUME UNCHANGED world, faults' = 0 => faults = 0
    PROVE /\ \A d : CdpTable(d)' = CdpTable(d) /\ Answer(d)' = Answer(d)
          /\ Truths \subseteq Truths'
<1>1. UNCHANGED <<cables, hostname, lease>>
  BY DEF world
<1>2. \A d : CdpTable(d)' = CdpTable(d)
  BY <1>1 DEF CdpTable
<1>3. \A d : Answer(d)' = Answer(d)
  BY <1>1, <1>2 DEF Answer
<1> QED
  BY <1>1, <1>2, <1>3 DEF Truths

LEMMA LeasesDiscovery == ASSUME DiscoveryInv, Leases PROVE DiscoveryInv'
<1>1. /\ pc' = "probe" /\ UNCHANGED <<world, found, faults>> /\ SearchAgain({}, <<>>, Laptop)
      /\ todo' = {lease[d] : d \in Devices} /\ fresh' = \A e \in Range(found) : e.ip \in todo'
  BY DEF Leases
<1>2. SearchInv' /\ OrderInv' /\ root' = Laptop /\ DOMAIN serials' = {}
  BY <1>1, NothingSearched DEF SearchAgain
<1>3. DiscoveryType'
  <2>1. todo' \in SUBSET Address
    BY <1>1 DEF DiscoveryInv, DiscoveryType
  <2> QED
    BY <1>1, <2>1 DEF DiscoveryInv, DiscoveryType, world
<1>4. Keyed' /\ Drawn'
  BY <1>1, <1>2 DEF DiscoveryInv, Keyed, Drawn
<1>5. Picture'
  <2>1. todo' \subseteq Range(lease') /\ \A d \in Devices : lease'[d] \in todo'
    BY <1>1 DEF DiscoveryInv, DiscoveryType, Range, world
  <2>2. fresh' => \A i \in DOMAIN found' : found'[i].ip \in todo'
    BY <1>1 DEF Range
  <2> QED
    BY <2>1, <2>2 DEF Picture
<1> QED
  BY <1>2, <1>3, <1>4, <1>5 DEF DiscoveryInv

LEMMA ProbeDiscovery ==
    ASSUME DiscoveryInv, NEW a \in Address, Probe(a) PROVE DiscoveryInv'
<1>1. /\ a \in todo /\ todo' = todo \ {a} /\ pc = "probe"
      /\ UNCHANGED <<bfs, world, results, pc, fresh>>
  BY DEF Probe
<1>2. DiscoveryType /\ Keyed /\ Picture /\ faults \in Nat
  BY DEF DiscoveryInv, DiscoveryType
<1>3. PICK e \in Entry : /\ found' = Put(e) /\ e.ip = a /\ (fresh => e \in Truths')
                         /\ faults' \in Nat /\ (faults' = 0 => faults = 0)
  <2>1. CASE \E d \in Devices : lease[d] = a /\ found' = Put(Answer(d)) /\ faults' = faults
    <3>1. PICK d \in Devices : lease[d] = a /\ found' = Put(Answer(d)) /\ faults' = faults
      BY <2>1
    <3>2. Answer(d) \in Truths' /\ Answer(d) \in Entry /\ Answer(d).ip = a
      BY <1>1, <1>2, <3>1, AnswerTypes, TruthKept DEF Answer
    <3> QED
      BY <1>2, <3>1, <3>2
  <2>2. CASE \E d \in Devices : \E e \in Broken(d) :
               lease[d] = a /\ found' = Put(e) /\ faults' = faults + 1
    <3>0. PICK d \in Devices : \E e \in Broken(d) :
            lease[d] = a /\ found' = Put(e) /\ faults' = faults + 1
      BY <2>2
    <3>1. PICK e \in Broken(d) : lease[d] = a /\ found' = Put(e) /\ faults' = faults + 1
      BY <3>0
    <3>2. /\ e \in Entry /\ e.ip = lease[d] /\ e.serial \in {None, d}
          /\ e.name \in {None, hostname[d]} /\ e.cdp \subseteq CdpTable(d)
      BY <1>2, <3>1, AnswerTypes
    <3>3. faults' \in Nat /\ faults' # 0
      BY <1>2, <3>1
    <3>4. CdpTable(d)' = CdpTable(d) /\ UNCHANGED <<lease, hostname>>
      BY <1>1, <3>3, TruthKept DEF world
    <3>5. e \in Truths'
      BY <3>2, <3>3, <3>4 DEF Truths
    <3> QED
      BY <3>1, <3>2, <3>3, <3>5
  <2>3. CASE {d \in Devices : lease[d] = a} = {} /\ found' = Put(NoAnswer(a)) /\ faults' = faults
    <3>1. NoAnswer(a) \in Entry /\ NoAnswer(a).ip = a
      BY DEF NoAnswer, Entry
    <3>2. ~fresh
      BY <1>1, <1>2, <2>3 DEF Picture, Range, DiscoveryType
    <3> QED
      BY <1>2, <2>3, <3>1, <3>2
  <2> QED
    BY <2>1, <2>2, <2>3 DEF Probe
<1>4. /\ found' \in Seq(Entry) /\ Keyed'
      /\ \A i \in DOMAIN found' :
            found'[i] = e \/ \E j \in DOMAIN found : found[j] = found'[i] /\ found[j].ip # e.ip
      /\ \E i \in DOMAIN found' : found'[i] = e
      /\ \A j \in DOMAIN found : \E i \in DOMAIN found' : found'[i].ip = found[j].ip
  BY <1>2, <1>3, PutWrites
<1>5. DiscoveryType'
  BY <1>1, <1>2, <1>3, <1>4 DEF DiscoveryType, world
<1>6. Picture'
  <2> SUFFICES ASSUME fresh
               PROVE /\ todo' \subseteq Range(lease')
                     /\ \A i \in DOMAIN found' : found'[i].ip \in todo' \/ found'[i] \in Truths'
                     /\ \A d \in Devices : \/ lease'[d] \in todo'
                                           \/ \E i \in DOMAIN found' : found'[i].ip = lease'[d]
    BY <1>1 DEF Picture
  <2>1. /\ todo \subseteq Range(lease)
        /\ \A i \in DOMAIN found : found[i].ip \in todo \/ found[i] \in Truths
        /\ \A d \in Devices : lease[d] \in todo \/ \E i \in DOMAIN found : found[i].ip = lease[d]
    BY <1>1, <1>2 DEF Picture
  <2>2. Truths \subseteq Truths'
    BY <1>1, <1>3, TruthKept
  <2>3. lease' = lease
    BY <1>1 DEF world
  <2>4. todo' \subseteq Range(lease')
    BY <1>1, <2>1, <2>3
  <2>5. ASSUME NEW i \in DOMAIN found' PROVE found'[i].ip \in todo' \/ found'[i] \in Truths'
    <3>1. CASE found'[i] = e
      BY <1>3, <3>1
    <3>2. CASE \E j \in DOMAIN found : found[j] = found'[i] /\ found[j].ip # e.ip
      BY <1>1, <1>3, <2>1, <2>2, <3>2
    <3> QED
      BY <1>4, <3>1, <3>2
  <2>6. ASSUME NEW d \in Devices
        PROVE lease'[d] \in todo' \/ \E i \in DOMAIN found' : found'[i].ip = lease'[d]
    <3>1. CASE lease[d] = a
      BY <1>3, <1>4, <2>3, <3>1
    <3>2. CASE lease[d] \in todo \ {a}
      BY <1>1, <2>3, <3>2
    <3>3. CASE \E j \in DOMAIN found : found[j].ip = lease[d]
      BY <1>4, <2>3, <3>3
    <3> QED
      BY <2>1, <3>1, <3>2, <3>3
  <2> QED
    BY <2>4, <2>5, <2>6
<1>7. SearchInv' /\ OrderInv' /\ root' = root /\ serials' = serials
  BY <1>1, SortSearch, NextOrder DEF DiscoveryInv, bfs
<1>8. Drawn'
  BY <1>1, <1>7 DEF DiscoveryInv, Drawn
<1> QED
  BY <1>4, <1>5, <1>6, <1>7, <1>8 DEF DiscoveryInv

-------------------------------------------------------------------------------
(***************************************************************************)
(* The graph.  A neighbour's name leads to its address, when names tell    *)
(* apart and what was heard is true.                                       *)
(***************************************************************************)
LEMMA HeardTrue ==
    ASSUME DiscoveryType, Picture, fresh, todo = {}, NEW i \in DOMAIN found
    PROVE /\ found[i] \in Entry /\ found[i] \in Truths
          /\ \E d \in Devices : /\ found[i].ip = lease[d]
                                /\ found[i].serial \in {None, d}
                                /\ found[i].name \in {None, hostname[d]}
                                /\ found[i].cdp \subseteq CdpTable(d)
                                /\ faults = 0 => found[i] = Answer(d)
BY DEF DiscoveryType, Picture, Truths

\* Neither a name that was heard nor one of the inventory is another device's.
LEMMA NameOf ==
    ASSUME DiscoveryType, Picture, fresh, todo = {}, NamesTellApart,
           NEW i \in DOMAIN found, NEW x \in Devices,
           hostname[x] \in {found[i].name, IntendedName(found[i])}
    PROVE found[i].ip = lease[x]
<1>1. PICK d \in Devices : /\ found[i].ip = lease[d]
                           /\ found[i].serial \in {None, d}
                           /\ found[i].name \in {None, hostname[d]}
  BY HeardTrue
<1>2. hostname[x] # None /\ None \notin Known /\ Known \subseteq Devices
  BY DiscoveryAssumption DEF DiscoveryType
<1>3. CASE hostname[x] = found[i].name
  BY <1>1, <1>2, <1>3 DEF NamesTellApart
<1>4. CASE hostname[x] = IntendedName(found[i])
  <2>1. d \in Known /\ hostname[x] = Intended[d]
    BY <1>1, <1>2, <1>4 DEF IntendedName
  <2> QED
    BY <1>1, <2>1 DEF NamesTellApart
<1> QED
  BY <1>3, <1>4

LEMMA Singleton ==
    ASSUME NEW S \in SUBSET Nat, S # {}, \A i, j \in S : i = j
    PROVE Max(S) \in S
<1>1. PICK i \in S : S = {i}
  OBVIOUS
<1>2. \A y \in S : i >= y
  BY <1>1
<1> QED
  BY <1>1, <1>2 DEF Max

LEMMA ResolvedTrue ==
    ASSUME DiscoveryType, Keyed, Picture, fresh, todo = {}, NamesTellApart,
           NEW x \in Devices, NEW nbr, nbr.id = hostname[x], nbr.ip = lease[x]
    PROVE Resolved(nbr) = lease[x]
<1> DEFINE named == {i \in DOMAIN found : nbr.id \in {found[i].name, IntendedName(found[i])}}
<1>1. CASE named = {}
  BY <1>1 DEF Resolved
<1>2. CASE named # {}
  <2>1. \A i \in named : found[i].ip = lease[x]
    BY NameOf
  <2>2. named \in SUBSET Nat
    BY DEF DiscoveryType
  <2>3. \A i, j \in named : i = j
    BY <2>1 DEF Keyed
  <2> HIDE DEF named
  <2>4. Max(named) \in named
    BY <1>2, <2>2, <2>3, Singleton
  <2> QED
    BY <1>2, <2>1, <2>4 DEF Resolved, named
<1> QED
  BY <1>1, <1>2

\* What an edge of the graph stands for, in one of its directions.
Link(m, n) ==
    \/ m = Laptop /\ n = lease[Uplink]
    \/ /\ n \in Addresses
       /\ \E e \in Range(found) : m = e.ip /\ \E nbr \in e.cdp : n = Resolved(nbr)

LEMMA FoundTypes ==
    ASSUME DiscoveryType
    PROVE /\ \A i \in DOMAIN found : found[i] \in Entry /\ found[i].ip \in Address
          /\ Addresses \subseteq Address
<1>1. \A i \in DOMAIN found : found[i] \in Entry
  BY DEF DiscoveryType
<1>2. \A i \in DOMAIN found : found[i].ip \in Address
  BY <1>1 DEF Entry
<1> QED
  BY <1>1, <1>2 DEF Addresses, Range

LEMMA EdgesLink ==
    ASSUME DiscoveryType
    PROVE /\ Edges \in SUBSET (Node \X Node) /\ Symmetric(Edges)
          /\ \A m, n : <<m, n>> \in Edges => Link(m, n) \/ Link(n, m)
<1>1. Addresses \subseteq Address /\ \A e \in Range(found) : e.ip \in Address
  BY FoundTypes DEF Range
<1>2. lease[Uplink] \in Address
  BY DiscoveryAssumption DEF DiscoveryType
<1> DEFINE heard == UNION {{<<e.ip, Resolved(n)>> : n \in e.cdp} : e \in Range(found)}
           cdp == {l \in heard : l[2] \in Addresses}
           laptop == IF joined THEN {<<Laptop, lease[Uplink]>>} ELSE {}
           all == cdp \cup laptop
<1>3. Edges = all \cup {<<l[2], l[1]>> : l \in all}
  BY DEF Edges
<1>4. \A l \in all : l = <<l[1], l[2]>> /\ l \in Node \X Node /\ Link(l[1], l[2])
  <2>1. ASSUME NEW l \in cdp PROVE l = <<l[1], l[2]>> /\ l \in Node \X Node /\ Link(l[1], l[2])
    <3>1. PICK e \in Range(found) : \E n \in e.cdp : l = <<e.ip, Resolved(n)>>
      OBVIOUS
    <3>2. PICK n \in e.cdp : l = <<e.ip, Resolved(n)>>
      BY <3>1
    <3>3. l[1] = e.ip /\ l[2] = Resolved(n) /\ l[2] \in Addresses
      BY <3>2
    <3> QED
      BY <1>1, <3>2, <3>3, AddressFacts DEF Link
  <2>2. ASSUME NEW l \in laptop PROVE l = <<l[1], l[2]>> /\ l \in Node \X Node /\ Link(l[1], l[2])
    BY <1>2, AddressFacts DEF Link
  <2> QED
    BY <2>1, <2>2
<1> HIDE DEF all
<1>5. \A m, n : <<m, n>> \in all => <<n, m>> \in Edges
  <2> SUFFICES ASSUME NEW m, NEW n, <<m, n>> \in all PROVE <<n, m>> \in Edges
    OBVIOUS
  <2>1. <<n, m>> = <<(<<m, n>>)[2], (<<m, n>>)[1]>>
    OBVIOUS
  <2> QED
    BY <1>3, <2>1
<1>6. \A m, n : <<m, n>> \in Edges => <<m, n>> \in all \/ <<n, m>> \in all
  <2> SUFFICES ASSUME NEW m, NEW n, <<m, n>> \in Edges PROVE <<m, n>> \in all \/ <<n, m>> \in all
    OBVIOUS
  <2>1. CASE \E l \in all : <<m, n>> = <<l[2], l[1]>>
    BY <1>4, <2>1
  <2> QED
    BY <1>3, <2>1
<1>7. \A m, n : <<m, n>> \in all => <<m, n>> \in Edges /\ Link(m, n)
  <2> SUFFICES ASSUME NEW m, NEW n, <<m, n>> \in all PROVE <<m, n>> \in Edges /\ Link(m, n)
    OBVIOUS
  <2>1. (<<m, n>>)[1] = m /\ (<<m, n>>)[2] = n
    OBVIOUS
  <2> QED
    BY <1>3, <1>4, <2>1
<1>8. \A m, n : <<m, n>> \in Edges => <<n, m>> \in Edges
  BY <1>5, <1>6, <1>7
<1>9. Edges \in SUBSET (Node \X Node)
  BY <1>3, <1>4
<1> QED
  BY <1>6, <1>7, <1>8, <1>9 DEF Symmetric

\* An edge between two addresses is a cable between their devices.
LEMMA LinkCabled ==
    ASSUME DiscoveryType, Keyed, Picture, fresh, todo = {}, NamesTellApart,
           NEW m \in Node, NEW n \in Node, Link(m, n), m # Laptop
    PROVE /\ n # Laptop
          /\ \E l \in cables : /\ l[1] \in Devices /\ l[3] \in Devices
                               /\ lease[l[1]] = m /\ lease[l[3]] = n
<1>1. PICK i \in DOMAIN found : m = found[i].ip /\ \E nbr \in found[i].cdp : n = Resolved(nbr)
  BY DEF Link, Range
<1>2. PICK nbr \in found[i].cdp : n = Resolved(nbr)
  BY <1>1
<1>3. PICK d \in Devices : found[i].ip = lease[d] /\ found[i].cdp \subseteq CdpTable(d)
  BY HeardTrue
<1>4. PICK l \in cables : /\ l[1] = d /\ l[3] \in Speakers
                          /\ nbr.id = hostname[l[3]] /\ nbr.ip = lease[l[3]]
  BY <1>2, <1>3 DEF CdpTable
<1>5. l[3] \in Devices
  BY <1>4, DiscoveryAssumption
<1>6. Resolved(nbr) = lease[l[3]]
  BY <1>4, <1>5, ResolvedTrue
<1>7. lease[l[3]] # Laptop
  BY <1>5, AddressFacts DEF DiscoveryType
<1> QED
  BY <1>1, <1>2, <1>3, <1>4, <1>5, <1>6, <1>7

LEMMA EdgesCabled ==
    ASSUME DiscoveryType, Keyed, Picture, fresh, todo = {}, NamesTellApart,
           NEW m \in Node, NEW n \in Node, <<m, n>> \in Edges, n # Laptop
    PROVE IF m = Laptop THEN n = lease[Uplink]
          ELSE \E l \in cables : /\ l[1] \in Devices /\ l[3] \in Devices
                                 /\ lease[l[1]] = m /\ lease[l[3]] = n
<1>1. Link(m, n) \/ Link(n, m)
  BY EdgesLink
<1>2. CASE Link(n, m)
  <2>1. PICK l \in cables : /\ l[1] \in Devices /\ l[3] \in Devices
                            /\ lease[l[1]] = n /\ lease[l[3]] = m
    BY <1>2, LinkCabled
  <2>2. m # Laptop
    BY <1>2, LinkCabled
  <2> DEFINE k == <<l[3], l[4], l[1], l[2]>>
  <2>3. k \in cables
    BY Zenon, CableFacts
  <2>4. k[1] = l[3] /\ k[3] = l[1]
    OBVIOUS
  <2> HIDE DEF k
  <2> QED
    BY <2>1, <2>2, <2>3, <2>4
<1>3. CASE Link(m, n) /\ m # Laptop
  BY <1>3, LinkCabled
<1>4. CASE Link(m, n) /\ m = Laptop
  <2>1. \A i \in DOMAIN found : found[i].ip \in Address
    BY FoundTypes
  <2> QED
    BY <1>4, <2>1, AddressFacts DEF Link, Range
<1> QED
  BY <1>1, <1>2, <1>3, <1>4

LEMMA GraphDiscovery == ASSUME DiscoveryInv, BuildGraph PROVE DiscoveryInv'
<1>1. /\ pc' = "search" /\ pc = "probe" /\ todo = {}
      /\ UNCHANGED <<world, found, todo, results, runs, moves, faults, fresh>>
  BY DEF BuildGraph
<1>2. DiscoveryType /\ Keyed /\ Picture
  BY DEF DiscoveryInv
<1>3. PICK s : DOMAIN s \subseteq Addresses /\ SearchAgain(Edges, s, Laptop)
  BY DEF BuildGraph
<1>4. Addresses \subseteq Address
  BY <1>2, FoundTypes
<1>5. Edges \in SUBSET (Node \X Node) /\ Symmetric(Edges) /\ DOMAIN s \subseteq Node
  BY <1>2, <1>3, <1>4, EdgesLink, AddressFacts
<1>6. SearchInv' /\ OrderInv' /\ root' = Laptop /\ edges' = Edges /\ serials' = s
  BY <1>3, <1>5, BeginsAgain DEF SearchAgain
<1>7. DiscoveryType' /\ Keyed'
  BY <1>1, <1>2 DEF DiscoveryType, Keyed, world
<1>8. Truths' = Truths
  BY <1>1 DEF Truths, Answer, CdpTable, world
<1>9. Picture'
  BY <1>1, <1>2, <1>8 DEF Picture, world
<1>10. Drawn'
  <2>1. fresh /\ NamesTellApart => Cabled'
    BY <1>1, <1>2, <1>6, EdgesCabled DEF Cabled, world
  <2>2. NamesTellApart' = NamesTellApart
    BY <1>1 DEF NamesTellApart, world
  <2> QED
    BY <1>1, <1>3, <1>4, <1>6, <2>1, <2>2 DEF Drawn
<1> QED
  BY <1>6, <1>7, <1>9, <1>10 DEF DiscoveryInv

\* What a step leaves alone keeps what is known of it.
LEMMA WorldKept ==
    ASSUME DiscoveryInv, UNCHANGED <<world, found, todo, faults, fresh>>,
           pc \in {"search", "done"}, pc' \in {"search", "done"}
    PROVE DiscoveryType' /\ Keyed' /\ Picture'
<1>1. Truths' = Truths
  BY DEF Truths, Answer, CdpTable, world
<1>2. DiscoveryType' /\ Keyed'
  BY DEF DiscoveryInv, DiscoveryType, Keyed, world
<1>3. Picture'
  BY <1>1 DEF DiscoveryInv, Picture, world
<1> QED
  BY <1>2, <1>3

LEMMA SearchDiscovery == ASSUME DiscoveryInv, CalculateOrder PROVE DiscoveryInv'
<1>1. /\ pc = "search" /\ TopologyNext
      /\ UNCHANGED <<world, found, todo, results, pc, runs, moves, faults, fresh>>
  BY DEF CalculateOrder, TopologyNext
<1>2. SearchInv' /\ OrderInv'
  BY <1>1, NextSearch, NextOrder DEF DiscoveryInv
<1>3. DiscoveryType' /\ Keyed' /\ Picture'
  BY <1>1, WorldKept
<1>4. UNCHANGED <<edges, serials, root>>
  <2>1. \A n \in Node : Visit(n) => UNCHANGED <<edges, serials, root>>
    BY DEF Visit
  <2>2. PopLeft \/ Sort => UNCHANGED <<edges, serials, root>>
    BY DEF PopLeft, Sort
  <2> QED
    BY <1>1, <2>1, <2>2 DEF TopologyNext
<1>5. Drawn'
  BY <1>1, <1>4 DEF DiscoveryInv, Drawn, Cabled, NamesTellApart, world
<1> QED
  BY <1>2, <1>3, <1>5 DEF DiscoveryInv

\* The report is made of what was found, and of nothing else.
LEMMA ReportKept == ASSUME UNCHANGED found PROVE Report' = Report
<1>1. \A id : DesignName(id)' = DesignName(id)
  BY DEF DesignName
<1>2. \A intent, nbr : Status(intent, nbr)' = Status(intent, nbr)
  BY <1>1 DEF Status
<1>3. \A e : Diff(e)' = Diff(e)
  BY <1>2 DEF Diff
<1> QED
  BY <1>3 DEF Report

LEMMA ValidateDiscovery == ASSUME DiscoveryInv, Validate PROVE DiscoveryInv'
<1>1. /\ pc = "search" /\ pc' = "done" /\ results' = Report
      /\ UNCHANGED <<bfs, world, found, todo, runs, moves, faults, fresh>>
  BY DEF Validate
<1>2. SearchInv' /\ OrderInv'
  BY <1>1, SortSearch, NextOrder DEF DiscoveryInv
<1>3. DiscoveryType' /\ Keyed' /\ Picture'
  BY <1>1, WorldKept
<1>4. Report' = Report
  BY <1>1, ReportKept
<1>5. Drawn'
  BY <1>1, <1>4 DEF DiscoveryInv, Drawn, Cabled, NamesTellApart, world, bfs
<1> QED
  BY <1>2, <1>3, <1>5 DEF DiscoveryInv

\* Addresses stay apart; the picture is outdated.
LEMMA MoveDiscovery == ASSUME DiscoveryInv, Move PROVE DiscoveryInv'
<1>1. /\ fresh' = FALSE /\ pc' = pc /\ pc \in {"probe", "done"}
      /\ UNCHANGED <<bfs, hostname, joined, found, todo, results, runs, faults>>
  BY DEF Move
<1>2. SearchInv' /\ OrderInv'
  BY <1>1, SortSearch, NextOrder DEF DiscoveryInv
<1>3. /\ cables' \in Cablings /\ lease' \in [Devices -> Address]
      /\ \A d, e \in Devices : lease'[d] = lease'[e] => d = e
  <2>1. CASE cables' \in Cablings /\ lease' = lease
    BY <2>1 DEF DiscoveryInv, DiscoveryType
  <2>2. CASE cables' = cables /\ \E d \in Devices, a \in Address \ Range(lease) :
               lease' = [lease EXCEPT ![d] = a]
    BY <2>2 DEF DiscoveryInv, DiscoveryType, Range
  <2> QED
    BY <2>1, <2>2 DEF Move
<1>4. DiscoveryType' /\ Keyed'
  BY <1>1, <1>3 DEF DiscoveryInv, DiscoveryType, Keyed
<1>5. Picture'
  BY <1>1 DEF Picture
<1>6. Report' = Report
  BY <1>1, ReportKept
<1>7. Drawn'
  BY <1>1, <1>6 DEF DiscoveryInv, Drawn, bfs
<1> QED
  BY <1>2, <1>4, <1>5, <1>7 DEF DiscoveryInv

LEMMA NextDiscovery == DiscoveryInv /\ [Next]_vars => DiscoveryInv'
<1> SUFFICES ASSUME DiscoveryInv, [Next]_vars PROVE DiscoveryInv'
  OBVIOUS
<1>1. CASE UNCHANGED vars
  <2>1. SearchInv' /\ OrderInv'
    BY <1>1, SortSearch, NextOrder DEF DiscoveryInv, vars
  <2>2. Truths' = Truths
    BY <1>1 DEF vars, world, Truths, Answer, CdpTable
  <2>3. Report' = Report
    BY <1>1, ReportKept DEF vars
  <2>4. DiscoveryType' /\ Keyed' /\ Picture'
    BY <1>1, <2>2 DEF vars, world, DiscoveryInv, DiscoveryType, Keyed, Picture
  <2>5. Drawn'
    BY <1>1, <2>3 DEF vars, world, bfs, DiscoveryInv, Drawn, Cabled, NamesTellApart
  <2> QED
    BY <2>1, <2>4, <2>5 DEF DiscoveryInv
<1> QED
  BY <1>1, LeasesDiscovery, ProbeDiscovery, GraphDiscovery, SearchDiscovery, ValidateDiscovery,
     MoveDiscovery DEF Next

LEMMA DiscoverySafety == Spec => []DiscoveryInv
BY InitDiscovery, NextDiscovery, PTL DEF Spec

\* The search is exact also in the graph that discovery makes, and whenever it
\* is made again.
THEOREM DiscoverySearchIsExact == Spec => []LevelsExact
<1>1. DiscoveryInv => LevelsExact
  BY SearchedLevels DEF DiscoveryInv
<1> QED
  BY <1>1, DiscoverySafety, PTL

-------------------------------------------------------------------------------
(***************************************************************************)
(* The order and the cables.                                               *)
(***************************************************************************)
LEMMA UplinkReached == ASSUME NEW S, Uplink \in S PROVE Uplink \in ReachedOver(S)
BY DEF ReachedOver

LEMMA CableReaches ==
    ASSUME NEW S, NEW l \in cables, l[1] \in ReachedOver(S), l[3] \in S
    PROVE l[3] \in ReachedOver(S)
BY DEF ReachedOver

\* No device stands twice in the order.
LEMMA OrderOnce ==
    ASSUME SearchInv, order \in Orders
    PROVE /\ Cardinality(Listed) \in Nat /\ DOMAIN order = 1 .. Cardinality(Listed)
          /\ \A i, j \in DOMAIN order : order[i] = order[j] => i = j
<1>1. IsFiniteSet(Listed)
  BY NodeAssumption, FS_Subset DEF SearchInv, TypeOK, Listed
<1>2. Cardinality(Listed) \in Nat
  BY <1>1, FS_CardinalityType
<1>3. /\ IsFiniteSet(Places) /\ Cardinality(Places) = Cardinality(Listed)
      /\ DOMAIN order = Places
  BY <1>2, FS_Interval DEF Places, Orders
<1>4. order \in Surjection(Places, Listed)
  BY DEF Orders, Surjection
<1>5. order \in Injection(Places, Listed)
  BY <1>1, <1>3, <1>4, FS_SurjSameCardinalityImpliesInj
<1>6. \A i, j \in Places : order[i] = order[j] => i = j
  BY <1>5 DEF Injection, IsInjective
<1> QED
  BY <1>2, <1>3, <1>6 DEF Places

\* Nearer devices stand later.
LEMMA NearerLater ==
    ASSUME SearchInv, order \in Orders, NEW i \in DOMAIN order, NEW j \in 1 .. i - 1
    PROVE j \in DOMAIN order /\ depths[order[i]] <= depths[order[j]]
<1>1. j \in Places /\ i \in Places /\ j < i
  BY OrderOnce DEF Places
<1>2. order[i] \in Reached /\ order[j] \in Reached /\ Before(order[j], order[i])
  BY <1>1 DEF Orders, Listed
<1> QED
  BY <1>1, <1>2, OrderOnce DEF Before, SearchInv, TypeOK, Places

LEMMA OrderFollows == DiscoveryInv => OrderFollowsCables
<1> SUFFICES ASSUME DiscoveryInv, pc \in {"search", "done"}, fresh, NamesTellApart,
                    NEW i \in DOMAIN order
             PROVE LET done == {order[j] : j \in 1 .. i - 1}
                   IN  \E d \in ReachedOver({e \in Devices : lease[e] \notin done}) :
                          lease[d] = order[i]
  BY DEF OrderFollowsCables
<1> DEFINE done == {order[j] : j \in 1 .. i - 1}
           S == {e \in Devices : lease[e] \notin done}
<1>1. /\ SearchInv /\ order \in Orders /\ DiscoveryType /\ Cabled /\ root = Laptop
      /\ DOMAIN serials \subseteq Address
  BY DEF DiscoveryInv, OrderInv, Drawn
<1>2. \A n \in Reached : depths[n] \in Nat
  BY <1>1 DEF SearchInv, TypeOK
<1>3. order[i] \in Reached /\ order[i] # Laptop /\ order[i] \notin done
  <2>1. order[i] \in Listed
    BY <1>1 DEF Orders
  <2>2. \A j \in 1 .. i - 1 : order[j] # order[i]
    BY <1>1, OrderOnce
  <2> QED
    BY <1>1, <2>1, <2>2, AddressFacts DEF Listed
<1>4. \A m \in Reached : depths[m] < depths[order[i]] => m \notin done
  BY <1>1, <1>2, <1>3, NearerLater
<1> DEFINE Good(n) == \E d \in ReachedOver(S) : lease[d] = n
           Bad == {n \in Reached \ {Laptop} :
                     n \notin done /\ depths[n] <= depths[order[i]] /\ ~ Good(n)}
<1> HIDE DEF S
<1>5. ASSUME Bad # {} PROVE FALSE
  <2>1. PICK n \in Bad : \A m \in Bad : depths[n] <= depths[m]
    <3> DEFINE T == {depths[m] : m \in Bad}
    <3>1. T \in SUBSET Nat /\ T # {}
      BY <1>2, <1>5
    <3>2. PICK k \in T : \A y \in T : k <= y
      BY <3>1, LeastNumber
    <3> QED
      BY <3>2
  <2>2. PICK m \in Reached : n \in Neighbours(m) /\ depths[n] = depths[m] + 1
    BY <1>1, <2>1 DEF SearchInv, Parents
  <2>3. m \in Node /\ n \in Node /\ <<m, n>> \in edges
    BY <1>1, <2>1, <2>2 DEF SearchInv, TypeOK, Neighbours
  <2>4. CASE m = Laptop
    <3>1. n = lease[Uplink]
      BY <1>1, <2>1, <2>3, <2>4 DEF Cabled
    <3>2. Uplink \in S
      BY <2>1, <3>1, DiscoveryAssumption DEF S
    <3> QED
      BY <2>1, <3>1, <3>2, UplinkReached
  <2>5. CASE m # Laptop
    <3>1. depths[m] < depths[n] /\ depths[m] < depths[order[i]]
      BY <1>2, <1>3, <2>1, <2>2
    <3>2. Good(m)
      <4>1. m \in Reached \ {Laptop} /\ m \notin done /\ depths[m] <= depths[order[i]]
        BY <1>2, <1>3, <1>4, <2>2, <2>5, <3>1
      <4>2. m \notin Bad
        BY <1>2, <2>1, <2>2, <3>1
      <4> QED
        BY <4>1, <4>2
    <3>3. PICK l \in cables : /\ l[1] \in Devices /\ l[3] \in Devices
                              /\ lease[l[1]] = m /\ lease[l[3]] = n
      BY <1>1, <2>1, <2>3, <2>5 DEF Cabled
    <3>4. PICK d \in ReachedOver(S) : lease[d] = m
      BY <3>2
    <3>5. d \in Devices
      BY <3>4 DEF ReachedOver, S
    <3>6. d = l[1]
      BY <1>1, <3>3, <3>4, <3>5 DEF DiscoveryType
    <3>7. l[3] \in S
      BY <2>1, <3>3 DEF S
    <3>8. l[3] \in ReachedOver(S)
      BY <3>3, <3>4, <3>6, <3>7, CableReaches
    <3> QED
      BY <2>1, <3>3, <3>8
  <2> QED
    BY <2>4, <2>5
<1>6. Good(order[i])
  BY <1>2, <1>3, <1>5
<1> QED
  BY <1>6 DEF S

\* When a device's turn comes (orchestrator.py:236, run_topology), it can still
\* be reached over cables between devices that have not been reconfigured:
\* whatever requests failed, in every site whose names tell its devices apart.
THEOREM OrderIsCabled == Spec => []OrderFollowsCables
BY OrderFollows, DiscoverySafety, PTL

-------------------------------------------------------------------------------
(***************************************************************************)
(* The cabling report.                                                     *)
(***************************************************************************)
Of(d) == {i \in DOMAIN found : found[i].serial = d}

LEMMA EntryOf ==
    ASSUME DiscoveryType, Keyed, Picture, fresh, todo = {}, NEW d \in Known, Of(d) # {}
    PROVE LET e == found[Max(Of(d))] IN
          e.serial = d /\ e.cdp \subseteq CdpTable(d) /\ (faults = 0 => e = Answer(d))
<1>1. None \notin Devices /\ Known \subseteq Devices
  BY DiscoveryAssumption
<1>2. \A i \in Of(d) : /\ i \in DOMAIN found /\ found[i].serial = d /\ found[i].ip = lease[d]
                       /\ found[i].cdp \subseteq CdpTable(d) /\ (faults = 0 => found[i] = Answer(d))
  BY <1>1, HeardTrue DEF Of
<1>3. Of(d) \in SUBSET Nat
  BY DEF Of, DiscoveryType
<1>4. \A i, j \in Of(d) : i = j
  BY <1>2 DEF Keyed
<1>5. Max(Of(d)) \in Of(d)
  BY <1>3, <1>4, Singleton
<1> QED
  BY <1>2, <1>5

\* A neighbour's name leads to its name in the design.
LEMMA DesignNameTrue ==
    ASSUME DiscoveryType, Keyed, Picture, fresh, todo = {}, NamesTellApart, pc # "idle",
           NEW x \in Devices
    PROVE /\ \/ DesignName(hostname[x]) = hostname[x]
             \/ x \in Known /\ DesignName(hostname[x]) = Intended[x]
          /\ faults = 0 /\ x \in Known => DesignName(hostname[x]) = Intended[x]
<1> DEFINE named == {i \in DOMAIN found : found[i].name = hostname[x]}
<1>1. None \notin Devices /\ Known \subseteq Devices
  BY DiscoveryAssumption
<1>2. \A i \in named : found[i].ip = lease[x]
  BY NameOf
<1>3. \A i \in named : found[i].serial \in {None, x} /\ (faults = 0 => found[i] = Answer(x))
  <2> SUFFICES ASSUME NEW i \in named
               PROVE found[i].serial \in {None, x} /\ (faults = 0 => found[i] = Answer(x))
    OBVIOUS
  <2>1. PICK d \in Devices : /\ found[i].ip = lease[d] /\ found[i].serial \in {None, d}
                             /\ faults = 0 => found[i] = Answer(d)
    BY HeardTrue
  <2>2. d = x
    BY <1>2, <2>1 DEF DiscoveryType
  <2> QED
    BY <2>1, <2>2
<1>4. faults = 0 => named # {}
  <2> SUFFICES ASSUME faults = 0 PROVE named # {}
    OBVIOUS
  <2>1. PICK i \in DOMAIN found : found[i].ip = lease[x]
    BY DEF Picture
  <2>2. PICK d \in Devices : found[i].ip = lease[d] /\ found[i] = Answer(d)
    BY HeardTrue
  <2>3. d = x
    BY <2>1, <2>2 DEF DiscoveryType
  <2> QED
    BY <2>2, <2>3 DEF Answer
<1>5. named # {} => Max(named) \in named
  <2>1. named \in SUBSET Nat
    BY DEF DiscoveryType
  <2>2. \A i, j \in named : i = j
    BY <1>2 DEF Keyed
  <2> HIDE DEF named
  <2> QED
    BY <2>1, <2>2, Singleton
<1>6. DesignName(hostname[x]) =
        IF named # {} /\ found[Max(named)].serial \in Known
        THEN Intended[found[Max(named)].serial] ELSE hostname[x]
  BY DEF DesignName
<1> HIDE DEF named
<1>7. CASE named = {}
  BY <1>4, <1>6, <1>7
<1>8. CASE named # {}
  <2>1. found[Max(named)].serial \in {None, x} /\ (faults = 0 => found[Max(named)].serial = x)
    BY <1>3, <1>5, <1>8 DEF Answer
  <2> QED
    BY <1>1, <1>6, <1>8, <2>1
<1> QED
  BY <1>7, <1>8

LEMMA ReportTrue == DiscoveryInv => ReportIsTrue
<1> SUFFICES ASSUME DiscoveryInv, pc = "done", fresh, NamesTellApart,
                    NEW d \in DOMAIN results, NEW p \in DOMAIN Design[d]
             PROVE /\ results[d][p] = "correct" => AsDesigned(d, p)
                   /\ faults = 0 /\ AsDesigned(d, p) /\ InFull(d, p) => results[d][p] = "correct" \/
                         \E l \in cables : l[1] = d /\ l[2] = p /\ l[3] \notin Speakers
  BY DEF ReportIsTrue
<1>1. /\ DiscoveryType /\ Keyed /\ Picture /\ todo = {} /\ results = Report
  BY DEF DiscoveryInv, Drawn
<1>2. results = [c \in {k \in Known : Of(k) # {}} |-> Diff(found[Max(Of(c))])]
  BY <1>1 DEF Report, Of
<1>3. d \in Known /\ Of(d) # {} /\ results[d] = Diff(found[Max(Of(d))])
  BY <1>2
<1> DEFINE e == found[Max(Of(d))]
           intent == Design[d][p]
           heard == {n.local : n \in e.cdp}
           nbr == CHOOSE n \in e.cdp : n.local = p
<1>4. e.serial = d /\ e.cdp \subseteq CdpTable(d) /\ (faults = 0 => e = Answer(d))
  BY <1>1, <1>3, EntryOf
<1>5. results[d][p] = IF p \notin heard THEN "missing" ELSE Status(intent, nbr)
  BY <1>3, <1>4 DEF Diff
<1>6. d \in Speakers /\ d \in Devices /\ Speakers \subseteq Devices
      /\ \E k \in Known : intent.remote = Intended[k]
  BY <1>3, DiscoveryAssumption
<1>7. p \in heard => nbr \in e.cdp /\ nbr.local = p
  OBVIOUS
<1>8. ASSUME p \in heard
      PROVE \E l \in cables : /\ l[1] = d /\ l[2] = p /\ l[3] \in Speakers
                              /\ nbr.id = hostname[l[3]] /\ nbr.port = l[4]
  <2>1. nbr \in CdpTable(d) /\ nbr.local = p
    BY <1>4, <1>7, <1>8
  <2>2. \A n \in CdpTable(d) : n.local = p =>
          \E l \in cables : /\ l[1] = d /\ l[2] = p /\ l[3] \in Speakers
                            /\ n.id = hostname[l[3]] /\ n.port = l[4]
    BY DEF CdpTable
  <2> HIDE DEF nbr, heard, e, intent
  <2> QED
    BY <2>1, <2>2
<1> HIDE DEF e, intent, heard, nbr
<1>9. Status(intent, nbr) = "correct" <=>
        DesignName(nbr.id) = intent.remote /\ intent.port \in {None, nbr.port}
  BY DEF Status
<1>10. ASSUME results[d][p] = "correct" PROVE AsDesigned(d, p)
  <2>1. p \in heard /\ DesignName(nbr.id) = intent.remote /\ intent.port \in {None, nbr.port}
    BY <1>5, <1>9, <1>10
  <2>2. PICK l \in cables : /\ l[1] = d /\ l[2] = p /\ l[3] \in Speakers
                            /\ nbr.id = hostname[l[3]] /\ nbr.port = l[4]
    BY <1>8, <2>1
  <2>3. l[3] \in Devices
    BY <1>6, <2>2
  <2>4. \/ DesignName(hostname[l[3]]) = hostname[l[3]]
        \/ l[3] \in Known /\ DesignName(hostname[l[3]]) = Intended[l[3]]
    BY <1>1, <2>3, DesignNameTrue
  <2>5. l[3] \in Known /\ Intended[l[3]] = intent.remote
    <3>1. CASE l[3] \in Known /\ DesignName(hostname[l[3]]) = Intended[l[3]]
      BY <2>1, <2>2, <3>1
    <3>2. CASE DesignName(hostname[l[3]]) = hostname[l[3]]
      <4>1. PICK k \in Known : intent.remote = Intended[k]
        BY <1>6
      <4>2. hostname[l[3]] = Intended[k] /\ k \in Devices
        BY <2>1, <2>2, <3>2, <4>1, DiscoveryAssumption
      <4>3. k = l[3]
        BY <2>3, <4>2 DEF NamesTellApart
      <4> QED
        BY <4>1, <4>3
    <3> QED
      BY <2>4, <3>1, <3>2
  <2> QED
    <3>1. l \in cables /\ Meant[l[4]] = l[4]
      BY <1>1, <2>2, DiscoveryAssumption DEF DiscoveryType
    <3> QED
      BY <2>1, <2>2, <2>5, <3>1 DEF AsDesigned, intent
<1>11. ASSUME faults = 0, AsDesigned(d, p), InFull(d, p),
              ~ \E l \in cables : l[1] = d /\ l[2] = p /\ l[3] \notin Speakers
       PROVE results[d][p] = "correct"
  <2>1. PICK l \in cables : /\ l[1] = d /\ l[2] = p /\ l[3] \in Known
                            /\ Intended[l[3]] = intent.remote /\ intent.port \in {None, l[4]}
    BY <1>11 DEF AsDesigned, InFull, intent
  <2>2. l[3] \in Speakers /\ l[3] \in Devices
    BY <1>6, <1>11, <2>1
  <2>3. p \in heard
    <3>1. [local |-> l[2], id |-> hostname[l[3]], port |-> l[4], ip |-> lease[l[3]]] \in CdpTable(d)
      BY <2>1, <2>2 DEF CdpTable
    <3>2. e.cdp = CdpTable(d)
      BY <1>4, <1>6, <1>11 DEF Answer
    <3> QED
      BY <2>1, <3>1, <3>2 DEF heard
  <2>4. PICK k \in cables : /\ k[1] = d /\ k[2] = p /\ k[3] \in Speakers
                            /\ nbr.id = hostname[k[3]] /\ nbr.port = k[4]
    BY <1>8, <2>3
  <2>5. k = l
    BY Zenon, <1>1, <2>1, <2>4, CableFacts
  <2>6. DesignName(hostname[l[3]]) = Intended[l[3]]
    BY <1>1, <1>11, <2>1, <2>2, DesignNameTrue
  <2> QED
    BY <1>5, <1>9, <2>1, <2>3, <2>4, <2>5, <2>6
<1> QED
  BY <1>10, <1>11

\* A port is reported correct (cabling/validator.py:183, _diff_connections)
\* only when it is plugged in as designed, whatever request failed; and when
\* none failed, every such port is, unless its other end speaks no CDP or the
\* design writes its name short.
THEOREM ReportHolds == Spec => []ReportIsTrue
BY ReportTrue, DiscoverySafety, PTL

-----------------------------------------------------------------------------
(***************************************************************************)
(* The preparation.                                                        *)
(***************************************************************************)
Position ==
    /\ at = <<at[1], at[2]>>
    /\ \/ at = Dead
       \/ at[1] \in 1..8 /\ at[2] \in {"enter", "work", "over"}
       \/ at[1] \in 1..7 /\ at[2] = "test"
       \/ at[1] = 5 /\ at[2] = "map"
       \/ at[1] = 8 /\ at[2] \in {"dump", "complete"}

IsMap(f) == f = [s \in DOMAIN f |-> f[s]]

ShapeInv ==
    /\ Position
    /\ shown = [phase |-> shown.phase, node |-> shown.node]
    /\ file = [node |-> file.node, specs |-> file.specs, whole |-> file.whole]
    /\ dep = [on |-> dep.on, read |-> dep.read, calm |-> dep.calm]
    /\ stop \in BOOLEAN
    /\ IsMap(specs) /\ IsMap(file.specs)

(* What the thread has achieved when it is past a phase. *)
WorkInv ==
    /\ at = <<5, "map">> => listed # {} \/ failed \/ specs # Empty
    /\ at = <<5, "test">> \/ at[1] \in 6..8 => specs # Empty
    /\ at = <<7, "test">> \/ at[1] = 8 => (git => Needs(specs) \subseteq repo)
    /\ at \in {<<8, "dump">>, <<8, "complete">>} => file.specs = specs /\ file.node = shown.node
    /\ at = <<8, "complete">> => file.whole

(* While a preparation is at work nothing says that it is ready. *)
CalmInv ==
    shown.phase = "complete" \/ (dep.on /\ dep.calm) => at \in {Dead, <<8, "over">>}

OverInv ==
    at = Dead \/ at[2] = "over" =>
        shown.phase \in {"idle", "complete", "error", "cancelled"} \/ stop

IInv == ShapeInv /\ WorkInv /\ CalmInv /\ OverInv /\ ReadyIsDeployable

LEMMA PhasesAre ==
    /\ Phases[1] = "connecting" /\ Phases[2] = "fetching_devices"
    /\ Phases[3] = "fetching_configs" /\ Phases[4] = "fetching_ipam"
    /\ Phases[5] = "mapping" /\ Phases[6] = "syncing_git"
    /\ Phases[7] = "verifying_files" /\ Phases[8] = "generating_yaml"
BY DEF Phases

(* A phase is recognised by its number. *)
LEMMA InIs ==
    ASSUME Position, NEW s
    PROVE /\ In("connecting", s) => at = <<1, s>>
          /\ In("fetching_devices", s) => at = <<2, s>>
          /\ In("mapping", s) => at = <<5, s>>
          /\ In("syncing_git", s) => at = <<6, s>>
          /\ In("verifying_files", s) => at = <<7, s>>
          /\ In("generating_yaml", s) => at = <<8, s>>
<1>1. at = <<at[1], at[2]>> /\ at[1] \in 0..8
  BY DEF Position, Dead
<1>2. CASE at[1] = 0
  BY <1>2 DEF In
<1>3. CASE at[1] \in 1..8
  <2>1. Phases[at[1]] = "connecting" => at[1] = 1
    BY <1>3, PhasesAre
  <2>2. Phases[at[1]] = "fetching_devices" => at[1] = 2
    BY <1>3, PhasesAre
  <2>3. Phases[at[1]] = "mapping" => at[1] = 5
    BY <1>3, PhasesAre
  <2>4. Phases[at[1]] = "syncing_git" => at[1] = 6
    BY <1>3, PhasesAre
  <2>5. Phases[at[1]] = "verifying_files" => at[1] = 7
    BY <1>3, PhasesAre
  <2>6. Phases[at[1]] = "generating_yaml" => at[1] = 8
    BY <1>3, PhasesAre
  <2> QED
    BY <1>1, <2>1, <2>2, <2>3, <2>4, <2>5, <2>6 DEF In
<1> QED
  BY <1>1, <1>2, <1>3

LEMMA InitIInv == PrepareInit => IInv
<1> SUFFICES ASSUME PrepareInit PROVE IInv
  OBVIOUS
<1>1. ShapeInv
  BY DEF PrepareInit, ShapeInv, Position, Dead, IsMap, Empty
<1>2. WorkInv /\ CalmInv /\ OverInv
  BY DEF PrepareInit, WorkInv, CalmInv, OverInv, Dead
<1>3. ReadyIsDeployable
  BY DEF PrepareInit, ReadyIsDeployable
<1> QED
  BY <1>1, <1>2, <1>3 DEF IInv

(* What concerns neither the thread nor what it has written. *)
LEMMA RequestsIInv ==
    ASSUME IInv, UNCHANGED <<git, repo, file, at, shown, stop, listed, specs, failed, dep>>
    PROVE IInv'
BY DEF IInv, Position, ShapeInv, IsMap, WorkInv, CalmInv, OverInv, Dead,
       ReadyIsDeployable, Deployable, Needs, Empty

LEMMA StartIInv == ASSUME IInv, NEW n, StartPrepare(n) PROVE IInv'
<1>1. CASE at # Dead
  BY <1>1, RequestsIInv DEF StartPrepare, settings, data
<1>2. CASE at = Dead
  <2>1. /\ at' = <<1, "enter">> /\ stop' = FALSE
        /\ shown' = [phase |-> "starting", node |-> n]
        /\ dep' = [dep EXCEPT !.calm = FALSE]
        /\ UNCHANGED <<git, repo, file, listed, specs, failed>>
    BY <1>2 DEF StartPrepare, settings, data
  <2>2. dep' = [on |-> dep.on, read |-> dep.read, calm |-> FALSE]
    BY <2>1 DEF IInv, ShapeInv
  <2>3. ShapeInv'
    <3>1. Position'
      BY <2>1 DEF Position
    <3>2. dep' = [on |-> dep'.on, read |-> dep'.read, calm |-> dep'.calm]
      BY <2>2
    <3> QED
      BY <2>1, <3>1, <3>2 DEF IInv, ShapeInv, IsMap
  <2>4. WorkInv' /\ CalmInv' /\ OverInv'
    BY <2>1, <2>2 DEF WorkInv, CalmInv, OverInv, Dead
  <2>5. ReadyIsDeployable'
    BY <2>1, <2>2 DEF ReadyIsDeployable
  <2> QED
    BY <2>3, <2>4, <2>5 DEF IInv
<1> QED
  BY <1>1, <1>2

LEMMA StopIInv == ASSUME IInv, StopPrepare PROVE IInv'
<1>1. /\ at # Dead /\ stop' = TRUE /\ shown' = [shown EXCEPT !.phase = "cancelled"]
      /\ UNCHANGED <<git, repo, file, at, listed, specs, failed, dep>>
  BY DEF StopPrepare, settings, data
<1>2. shown'.phase = "cancelled" /\ shown'.node = shown.node
  BY <1>1 DEF IInv, ShapeInv
<1>3. ShapeInv'
  BY <1>1 DEF IInv, ShapeInv, Position, IsMap, Dead
<1>4. WorkInv'
  BY <1>1, <1>2 DEF IInv, WorkInv, Needs, Empty
<1>5. CalmInv' /\ OverInv'
  BY <1>1, <1>2 DEF IInv, CalmInv, OverInv, Dead
<1>6. ReadyIsDeployable'
  BY <1>1, <1>2 DEF IInv, ReadyIsDeployable, Deployable, Needs, Empty
<1> QED
  BY <1>3, <1>4, <1>5, <1>6 DEF IInv

(* A deployment that begins while the status says complete reads all that  *)
(* is in the file.                                                         *)
LEMMA BeginIInv == ASSUME IInv, BeginDeployment PROVE IInv'
<1>1. PICK S \in SUBSET DOMAIN file.specs :
        /\ file.whole => S = DOMAIN file.specs
        /\ dep' = [on |-> TRUE, read |-> Restrict(file.specs, S), calm |-> shown.phase = "complete"]
  BY DEF BeginDeployment
<1>2. UNCHANGED <<git, repo, file, at, shown, stop, listed, specs, failed>>
  BY DEF BeginDeployment, settings, data
<1>3. dep'.calm => shown.phase = "complete"
  BY <1>1
<1>4. ShapeInv'
  BY <1>1, <1>2 DEF IInv, ShapeInv, Position, IsMap, Dead
<1>5. WorkInv' /\ OverInv'
  BY <1>2 DEF IInv, WorkInv, OverInv, Needs, Empty, Dead
<1>6. CalmInv'
  BY <1>2, <1>3 DEF IInv, CalmInv, Dead
<1>7. ReadyIsDeployable'
  <2>1. shown.phase = "complete" => dep'.read = file.specs /\ Deployable(file.specs)
    <3> SUFFICES ASSUME shown.phase = "complete"
                 PROVE dep'.read = file.specs /\ Deployable(file.specs)
      OBVIOUS
    <3>1. file.whole /\ Deployable(file.specs)
      BY DEF IInv, ReadyIsDeployable
    <3>2. dep'.read = Restrict(file.specs, DOMAIN file.specs)
      BY <1>1, <3>1
    <3>3. Restrict(file.specs, DOMAIN file.specs) = file.specs
      BY DEF Restrict, IInv, ShapeInv, IsMap
    <3> QED
      BY <3>1, <3>2, <3>3
  <2>2. Deployable(file.specs)' = Deployable(file.specs)
    BY <1>2 DEF Deployable, Needs, Empty
  <2> QED
    BY <1>2, <1>3, <2>1, <2>2 DEF IInv, ReadyIsDeployable
<1> QED
  BY <1>4, <1>5, <1>6, <1>7 DEF IInv

LEMMA EndIInv == ASSUME IInv, EndDeployment PROVE IInv'
<1>1. /\ dep' = [on |-> FALSE, read |-> Empty, calm |-> FALSE]
      /\ UNCHANGED <<git, repo, file, at, shown, stop, listed, specs, failed>>
  BY DEF EndDeployment, settings, data
<1>2. ShapeInv'
  BY <1>1 DEF IInv, ShapeInv, Position, IsMap, Dead
<1>3. WorkInv' /\ OverInv'
  BY <1>1 DEF IInv, WorkInv, OverInv, Needs, Empty, Dead
<1>4. CalmInv'
  BY <1>1 DEF IInv, CalmInv, Dead
<1>5. ReadyIsDeployable'
  BY <1>1 DEF IInv, ReadyIsDeployable, Deployable, Needs, Empty
<1> QED
  BY <1>2, <1>3, <1>4, <1>5 DEF IInv

LEMMA RestartIInv == ASSUME IInv, RestartServer PROVE IInv'
<1>1. /\ at' = Dead /\ shown' = [phase |-> "idle", node |-> "none"] /\ stop' = FALSE
      /\ specs' = Empty /\ dep' = [on |-> FALSE, read |-> Empty, calm |-> FALSE]
      /\ UNCHANGED file
  BY DEF RestartServer
<1>2. ShapeInv'
  BY <1>1 DEF IInv, ShapeInv, Position, IsMap, Dead, Empty
<1>3. WorkInv' /\ OverInv' /\ CalmInv' /\ ReadyIsDeployable'
  BY <1>1 DEF WorkInv, OverInv, CalmInv, ReadyIsDeployable, Dead
<1> QED
  BY <1>2, <1>3 DEF IInv

(* An action of the thread that shows no phase and leaves the file alone   *)
(* preserves what concerns the status, as long as it does not end the run. *)
LEMMA QuietIInv ==
    ASSUME IInv, ShapeInv', WorkInv',
           at # Dead, at # <<8, "over">>, at'[2] # "over", at' # Dead,
           UNCHANGED <<file, shown, stop, dep>>
    PROVE IInv'
<1>1. shown.phase # "complete" /\ ~(dep.on /\ dep.calm)
  BY DEF IInv, CalmInv
<1>2. CalmInv' /\ OverInv' /\ ReadyIsDeployable'
  BY <1>1 DEF CalmInv, OverInv, ReadyIsDeployable
<1> QED
  BY <1>2 DEF IInv

(* The same for one that shows a phase other than "complete". *)
LEMMA ShowIInv ==
    ASSUME IInv, NEW p, p # "complete", Show(p), Position', WorkInv', OverInv',
           at # Dead, at # <<8, "over">>,
           UNCHANGED <<file, specs, stop, dep>>
    PROVE IInv'
<1>1. ~(dep.on /\ dep.calm)
  BY DEF IInv, CalmInv
<1>2. shown' = [phase |-> p, node |-> shown.node]
  BY DEF IInv, ShapeInv, Show
<1>3. CalmInv' /\ ReadyIsDeployable'
  BY <1>1, <1>2 DEF CalmInv, ReadyIsDeployable
<1>4. ShapeInv'
  BY <1>2 DEF IInv, ShapeInv, IsMap
<1> QED
  BY <1>3, <1>4 DEF IInv

LEMMA EnterIInv == ASSUME IInv, EnterPhase PROVE IInv'
<1>1. /\ at[1] \in 1..8 /\ at = <<at[1], "enter">>
      /\ at' = <<at[1], IF at[1] = 1 /\ stop THEN "over" ELSE "work">>
      /\ UNCHANGED <<git, stop, dep, repo, file, listed, specs, failed>>
  BY DEF EnterPhase, Then, settings, data, IInv, ShapeInv, Position, Dead
<1>2. Show(Phases[at[1]]) /\ Phases[at[1]] # "complete"
  BY <1>1, PhasesAre DEF EnterPhase
<1>3. Position'
  BY <1>1 DEF Position
<1>4. WorkInv'
  BY <1>1 DEF IInv, WorkInv, Needs, Empty
<1>5. OverInv'
  BY <1>1 DEF OverInv, Dead
<1> QED
  BY <1>1, <1>2, <1>3, <1>4, <1>5, ShowIInv DEF Dead

LEMMA TestIInv == ASSUME IInv, TestStop PROVE IInv'
<1>1. /\ at[1] \in 1..7 /\ at = <<at[1], "test">>
      /\ UNCHANGED <<git, shown, stop, dep, repo, file, listed, specs, failed>>
  BY DEF TestStop, Then, settings, data, IInv, ShapeInv, Position, Dead
<1>2. CASE stop
  <2>1. at' = <<at[1], "over">>
    BY <1>2 DEF TestStop, Then
  <2>2. ShapeInv'
    BY <1>1, <2>1 DEF IInv, ShapeInv, Position, IsMap
  <2>3. WorkInv'
    BY <1>1, <2>1 DEF IInv, WorkInv, Needs, Empty
  <2>4. OverInv'
    BY <1>1, <1>2 DEF OverInv
  <2>5. CalmInv' /\ ReadyIsDeployable'
    BY <1>1 DEF IInv, CalmInv, ReadyIsDeployable, Dead
  <2> QED
    BY <2>2, <2>3, <2>4, <2>5 DEF IInv
<1>3. CASE ~stop
  <2>1. at' = <<at[1] + 1, "enter">>
    BY <1>3 DEF TestStop
  <2>2. ShapeInv'
    BY <1>1, <2>1 DEF IInv, ShapeInv, Position, IsMap
  <2>3. WorkInv'
    BY <1>1, <2>1 DEF IInv, WorkInv, Needs, Empty
  <2> QED
    BY <1>1, <2>1, <2>2, <2>3, QuietIInv DEF Dead
<1> QED
  BY <1>2, <1>3

LEMMA FailIInv == ASSUME IInv, PhaseFails PROVE IInv'
<1>1. /\ Show("error") /\ at' = <<at[1], "over">>
      /\ UNCHANGED <<git, stop, dep, repo, file, listed, specs, failed>>
  BY DEF PhaseFails, Then, settings, data
<1>2. at[1] \in 1..8 /\ at[2] \in {"work", "map", "dump"}
  BY PhasesAre DEF PhaseFails, CanFail, In, IInv, ShapeInv, Position, Dead
<1>3. Position'
  BY <1>1, <1>2 DEF Position
<1>4. WorkInv'
  BY <1>1, <1>2 DEF IInv, ShapeInv, Position, WorkInv, Needs, Empty
<1>5. OverInv'
  BY <1>1 DEF OverInv, Show, IInv, ShapeInv
<1>6. at # Dead /\ at # <<8, "over">>
  BY <1>2 DEF Dead
<1> QED
  BY <1>1, <1>3, <1>4, <1>5, <1>6, ShowIInv

(* The phases before the file: the thread goes on, or to the next device.  *)
LEMMA PhaseIInv ==
    ASSUME IInv, PlainPhase \/ FetchDevices \/ ListDevices \/ (\E d \in listed : MapDevice(d))
                 \/ NodeLoaded \/ SyncRepo \/ VerifyFiles
    PROVE IInv'
<1>1. CASE PlainPhase \/ FetchDevices
  <2>1. at[1] \in 1..4 /\ at = <<at[1], "work">>
    <3>1. CASE PlainPhase
      <4>1. at[2] = "work" /\ Phases[at[1]] \in {"connecting", "fetching_configs", "fetching_ipam"}
        BY <3>1 DEF PlainPhase
      <4>2. at = <<at[1], at[2]>> /\ at[1] \in 1..8
        BY <4>1 DEF IInv, ShapeInv, Position, Dead
      <4> QED
        BY <4>1, <4>2, PhasesAre
    <3>2. CASE FetchDevices
      BY <3>2, InIs DEF FetchDevices, IInv, ShapeInv
    <3> QED
      BY <1>1, <3>1, <3>2
  <2>2. /\ at' = <<at[1], "test">>
        /\ UNCHANGED <<git, stop, dep, shown, repo, file, listed, specs, failed>>
    BY <1>1 DEF PlainPhase, FetchDevices, Then, settings, data
  <2>3. ShapeInv'
    BY <2>1, <2>2 DEF IInv, ShapeInv, Position, IsMap
  <2>4. WorkInv'
    BY <2>1, <2>2 DEF WorkInv
  <2> QED
    BY <2>1, <2>2, <2>3, <2>4, QuietIInv DEF Dead
<1>2. CASE ListDevices
  <2>1. at = <<5, "work">>
    BY <1>2, InIs DEF ListDevices, IInv, ShapeInv
  <2>2. /\ at' = <<5, "map">> /\ listed' # {} /\ specs' = Empty
        /\ UNCHANGED <<git, stop, dep, shown, repo, file>>
    BY <1>2, <2>1 DEF ListDevices, Then, settings
  <2>3. ShapeInv'
    BY <2>2 DEF IInv, ShapeInv, Position, IsMap, Empty
  <2>4. WorkInv'
    BY <2>2 DEF WorkInv
  <2> QED
    BY <2>1, <2>2, <2>3, <2>4, QuietIInv DEF Dead
<1>3. CASE \E d \in listed : MapDevice(d)
  <2>1. PICK d \in listed : MapDevice(d)
    BY <1>3
  <2>2. at = <<5, "map">>
    BY <2>1, InIs DEF MapDevice, IInv, ShapeInv
  <2>3. at' = <<5, "map">> /\ UNCHANGED <<git, stop, dep, shown, repo, file>>
    BY <2>1, <2>2 DEF MapDevice, Then, settings
  <2>4. IsMap(specs') /\ (failed' \/ specs' # Empty)
    <3>1. CASE failed' = TRUE /\ UNCHANGED specs
      BY <3>1 DEF IInv, ShapeInv, IsMap
    <3>2. CASE \E e \in netbox[shown.node] :
                 specs' = [s \in DOMAIN specs \cup {d.serial} |->
                             IF s = d.serial THEN [name |-> d.name, needs |-> e.needs] ELSE specs[s]]
      <4>1. IsMap(specs') /\ d.serial \in DOMAIN specs'
        BY <3>2 DEF IsMap
      <4> QED
        BY <4>1 DEF Empty
    <3> QED
      BY <2>1, <3>1, <3>2 DEF MapDevice
  <2>5. ShapeInv'
    BY <2>3, <2>4 DEF IInv, ShapeInv, Position, IsMap
  <2>6. WorkInv'
    BY <2>3, <2>4 DEF WorkInv
  <2> QED
    BY <2>2, <2>3, <2>5, <2>6, QuietIInv DEF Dead
<1>4. CASE NodeLoaded
  <2>1. at = <<5, "map">> /\ listed = {} /\ ~failed
    BY <1>4, InIs DEF NodeLoaded, IInv, ShapeInv
  <2>2. /\ at' = <<5, "test">>
        /\ UNCHANGED <<git, stop, dep, shown, repo, file, listed, specs, failed>>
    BY <1>4, <2>1 DEF NodeLoaded, Then, settings, data
  <2>3. ShapeInv'
    BY <2>2 DEF IInv, ShapeInv, Position, IsMap
  <2>4. WorkInv'
    BY <2>1, <2>2 DEF IInv, WorkInv, Empty
  <2> QED
    BY <2>1, <2>2, <2>3, <2>4, QuietIInv DEF Dead
<1>5. CASE SyncRepo
  <2>1. at = <<6, "work">>
    BY <1>5, InIs DEF SyncRepo, IInv, ShapeInv
  <2>2. /\ at' = <<6, "test">>
        /\ UNCHANGED <<git, stop, dep, shown, file, listed, specs, failed>>
    BY <1>5, <2>1 DEF SyncRepo, Then, settings, data
  <2>3. ShapeInv'
    BY <2>2 DEF IInv, ShapeInv, Position, IsMap
  <2>4. WorkInv'
    BY <2>1, <2>2 DEF IInv, WorkInv, Empty
  <2> QED
    BY <2>1, <2>2, <2>3, <2>4, QuietIInv DEF Dead
<1>6. CASE VerifyFiles
  <2>1. at = <<7, "work">>
    BY <1>6, InIs DEF VerifyFiles, IInv, ShapeInv
  <2>2. /\ at' = <<7, "test">> /\ (git => Needs(specs) \subseteq repo)
        /\ UNCHANGED <<git, stop, dep, shown, repo, file, listed, specs, failed>>
    BY <1>6, <2>1 DEF VerifyFiles, Then, settings, data
  <2>3. ShapeInv'
    BY <2>2 DEF IInv, ShapeInv, Position, IsMap
  <2>4. WorkInv'
    BY <2>1, <2>2 DEF IInv, WorkInv, Needs, Empty
  <2> QED
    BY <2>1, <2>2, <2>3, <2>4, QuietIInv DEF Dead
<1> QED
  BY <1>1, <1>2, <1>3, <1>4, <1>5, <1>6

LEMMA OpenIInv == ASSUME IInv, OpenFile PROVE IInv'
<1>1. at = <<8, "work">>
  BY InIs DEF OpenFile, IInv, ShapeInv
<1>2. /\ at' = <<8, "dump">>
      /\ file' = [node |-> shown.node, specs |-> specs, whole |-> FALSE]
      /\ UNCHANGED <<git, stop, dep, shown, repo, listed, specs, failed>>
  BY <1>1 DEF OpenFile, Then, settings, data
<1>3. shown.phase # "complete" /\ ~(dep.on /\ dep.calm)
  BY <1>1 DEF IInv, CalmInv, Dead
<1>4. ShapeInv'
  BY <1>2 DEF IInv, ShapeInv, Position, IsMap
<1>5. WorkInv'
  BY <1>1, <1>2 DEF IInv, WorkInv, Needs, Empty
<1>6. CalmInv' /\ OverInv' /\ ReadyIsDeployable'
  BY <1>2, <1>3 DEF CalmInv, OverInv, ReadyIsDeployable, Dead
<1> QED
  BY <1>4, <1>5, <1>6 DEF IInv

LEMMA DumpIInv == ASSUME IInv, DumpInventory PROVE IInv'
<1>1. at = <<8, "dump">>
  BY InIs DEF DumpInventory, IInv, ShapeInv
<1>2. /\ at' = <<8, "complete">>
      /\ file' = [file EXCEPT !.whole = TRUE]
      /\ UNCHANGED <<git, stop, dep, shown, repo, listed, specs, failed>>
  BY <1>1 DEF DumpInventory, Then, settings, data
<1>3. file' = [node |-> file.node, specs |-> file.specs, whole |-> TRUE]
  BY <1>2 DEF IInv, ShapeInv
<1>4. shown.phase # "complete" /\ ~(dep.on /\ dep.calm)
  BY <1>1 DEF IInv, CalmInv, Dead
<1>5. ShapeInv'
  <2>1. Position'
    BY <1>2 DEF Position
  <2>2. file' = [node |-> file'.node, specs |-> file'.specs, whole |-> file'.whole]
    BY <1>3
  <2> QED
    BY <1>2, <1>3, <2>1, <2>2 DEF IInv, ShapeInv, IsMap
<1>6. WorkInv'
  BY <1>1, <1>2, <1>3 DEF IInv, WorkInv, Needs, Empty
<1>7. CalmInv' /\ OverInv' /\ ReadyIsDeployable'
  BY <1>2, <1>4 DEF CalmInv, OverInv, ReadyIsDeployable, Dead
<1> QED
  BY <1>5, <1>6, <1>7 DEF IInv

LEMMA CompleteIInv == ASSUME IInv, Complete PROVE IInv'
<1>1. at = <<8, "complete">>
  BY DEF Complete, IInv, ShapeInv, Position, Dead
<1>2. /\ at' = <<8, "over">>
      /\ UNCHANGED <<git, stop, dep, repo, file, listed, specs, failed>>
  BY <1>1 DEF Complete, Then, settings, data
<1>3. shown' = [phase |-> "complete", node |-> shown.node]
  BY DEF Complete, Show, IInv, ShapeInv
<1>4. file.whole /\ file.node = shown.node /\ Deployable(file.specs)
  BY <1>1 DEF IInv, WorkInv, Deployable
<1>5. ~(dep.on /\ dep.calm)
  BY <1>1 DEF IInv, CalmInv, Dead
<1>6. ShapeInv'
  BY <1>2, <1>3 DEF IInv, ShapeInv, Position, IsMap
<1>7. WorkInv'
  BY <1>1, <1>2 DEF IInv, WorkInv, Needs, Empty
<1>8. CalmInv' /\ OverInv'
  BY <1>2, <1>3 DEF CalmInv, OverInv
<1>9. ReadyIsDeployable'
  BY <1>2, <1>3, <1>4, <1>5 DEF ReadyIsDeployable, Deployable, Needs, Empty
<1> QED
  BY <1>6, <1>7, <1>8, <1>9 DEF IInv

LEMMA ThreadEndsIInv == ASSUME IInv, ThreadEnds PROVE IInv'
<1>1. /\ at[2] = "over" /\ at' = Dead /\ specs' = Empty
      /\ UNCHANGED <<git, stop, dep, shown, repo, file>>
  BY DEF ThreadEnds, settings
<1>2. ShapeInv'
  BY <1>1 DEF IInv, ShapeInv, Position, IsMap, Empty, Dead
<1>3. WorkInv'
  BY <1>1 DEF WorkInv, Dead
<1>4. CalmInv' /\ OverInv'
  BY <1>1 DEF IInv, CalmInv, OverInv
<1>5. ReadyIsDeployable'
  BY <1>1 DEF IInv, ReadyIsDeployable, Deployable, Needs, Empty
<1> QED
  BY <1>2, <1>3, <1>4, <1>5 DEF IInv

LEMMA NextIInv == IInv /\ [PrepareNext]_prepare_vars => IInv'
<1> SUFFICES ASSUME IInv, [PrepareNext]_prepare_vars PROVE IInv'
  OBVIOUS
<1>1. CASE UNCHANGED prepare_vars
  BY <1>1, RequestsIInv DEF prepare_vars, settings, data
<1>2. CASE \E n \in Nodes : LookAtOthers(n) \/ StartPrepare(n)
  <2>1. PICK n \in Nodes : LookAtOthers(n) \/ StartPrepare(n)
    BY <1>2
  <2>2. CASE LookAtOthers(n)
    BY <2>2, RequestsIInv DEF LookAtOthers, settings, data
  <2> QED
    BY <2>1, <2>2, StartIInv
<1>3. CASE StopPrepare \/ BeginDeployment \/ EndDeployment \/ RestartServer
  BY <1>3, StopIInv, BeginIInv, EndIInv, RestartIInv
<1>4. CASE Edit
  BY <1>4, RequestsIInv DEF Edit, data
<1>5. CASE RunPrepare
  BY <1>5, EnterIInv, TestIInv, FailIInv, PhaseIInv, OpenIInv, DumpIInv, CompleteIInv,
     ThreadEndsIInv DEF RunPrepare
<1> QED
  BY <1>1, <1>2, <1>3, <1>4, <1>5 DEF PrepareNext

(* A status of complete is true, and stays true for a deployment that      *)
(* begins under it, for any interleaving of stops, restarts, edits,        *)
(* failures and further preparations (prepare.py:39-281).                  *)
THEOREM ReadyMeansDeployable == PrepareSpec => []ReadyIsDeployable
<1>1. IInv => ReadyIsDeployable
  BY DEF IInv
<1> QED
  BY <1>1, InitIInv, NextIInv, PTL DEF PrepareSpec

(* A thread of the preparation that ends has shown how it ended, unless it *)
(* was asked to stop (prepare.py:337-356 against 59-281).                  *)
THEOREM PhasesSettle == PrepareSpec => []PhaseSettles
<1>1. IInv => PhaseSettles
  BY DEF IInv, OverInv, PhaseSettles
<1> QED
  BY <1>1, InitIInv, NextIInv, PTL DEF PrepareSpec
=============================================================================
