------------------------------- MODULE Topology -------------------------------
(***************************************************************************)
(* The configuration order of the network devices.  A breadth-first        *)
(* search from the laptop gives every device its depth; the devices are    *)
(* then sorted by falling depth, the deepest first, so that a device is    *)
(* reconfigured only when no device behind it is still to be reached       *)
(* through it.  TopologyBuilder.calculate_config_order runs it over a      *)
(* graph of addresses, calculate_bfs_depths and outside_in_order over a    *)
(* graph of serial numbers; the loop is the same.                          *)
(*                                                                         *)
(* One step is one neighbour looked at, or one node taken off the queue.   *)
(* Nodes that the graph has no serial number for are searched through but  *)
(* left out of the order.                                                  *)
(***************************************************************************)
EXTENDS Naturals, Sequences, FiniteSets

CONSTANT Node       \* the nodes a graph may have

ASSUME NodeAssumption == IsFiniteSet(Node)

VARIABLES edges,    \* pairs of nodes, in both directions
          serials,  \* the place in the alphabet of a node's serial number
          root,     \* the laptop's node
          depths,   \* the depth of each node that has been reached
          queue,    \* reached, and still to be searched from
          current,  \* the node being searched from
          order     \* the result

bfs == <<edges, serials, root, depths, queue, current, order>>

Reached == DOMAIN depths
Neighbours(n) == {m \in Node : <<n, m>> \in edges}

\* A search begins: the root has depth 0 and is taken off the queue first.
Search(e, s, r) ==
    /\ edges = e
    /\ serials = s
    /\ root = r
    /\ depths = [n \in {r} |-> 0]
    /\ queue = <<>>
    /\ current = r
    /\ order = <<>>

\* The same as a step, for the modules that search more than once.
SearchAgain(e, s, r) ==
    /\ edges' = e /\ serials' = s /\ root' = r
    /\ depths' = [n \in {r} |-> 0]
    /\ queue' = <<>> /\ current' = r /\ order' = <<>>

Symmetric(e) == \A m, n \in Node : <<m, n>> \in e => <<n, m>> \in e

TopologyInit ==
    \E e \in SUBSET (Node \X Node), r \in Node :
    \E known \in SUBSET Node : \E s \in [known -> Nat] :
        Symmetric(e) /\ Search(e, s, r)

Visit_Numbers(n) ==
    /\ n \in Neighbours(current) \ Reached
    /\ depths' = [m \in Reached \cup {n} |-> IF m = n THEN Cardinality(Reached) ELSE depths[m]]
    /\ queue' = Append(queue, n)
    /\ UNCHANGED <<edges, serials, root, current, order>>

Visit(n) ==
    /\ n \in Neighbours(current) \ Reached
    /\ depths' = [m \in Reached \cup {n} |->
                    IF m = n THEN depths[current] + 1 ELSE depths[m]]
    /\ queue' = Append(queue, n)
    /\ UNCHANGED <<edges, serials, root, current, order>>

PopLeft ==
    /\ Neighbours(current) \subseteq Reached
    /\ queue # <<>>
    /\ current' = Head(queue)
    /\ queue' = Tail(queue)
    /\ UNCHANGED <<edges, serials, root, depths, order>>

Searched == Neighbours(current) \subseteq Reached /\ queue = <<>>

\* device_depths.sort(key=lambda x: (-x[0], x[1]))
Before_Ascending(m, n) == depths[m] <= depths[n]

Before(m, n) ==
    \/ depths[m] > depths[n]
    \/ depths[m] = depths[n] /\ serials[m] <= serials[n]

Listed == Reached \cap DOMAIN serials
Places == 1 .. Cardinality(Listed)

Orders == {s \in [Places -> Listed] :
             /\ \A n \in Listed : \E i \in Places : s[i] = n
             /\ \A i, j \in Places : i < j => Before(s[i], s[j])}

Sort ==
    /\ Searched
    /\ order = <<>>
    /\ order' \in Orders
    /\ UNCHANGED <<edges, serials, root, depths, queue, current>>

TopologyNext == (\E n \in Node : Visit(n)) \/ PopLeft \/ Sort

TopologySpec == TopologyInit /\ [][TopologyNext]_bfs

-------------------------------------------------------------------------------
(***************************************************************************)
(* What the order promises.                                                *)
(***************************************************************************)

\* The search gives every node the length of a shortest way to the laptop and
\* reaches all that can be reached: within one edge depths differ by at most
\* one, and every node but the root has a neighbour that is closer by one.
\* (A queue in the wrong order, or a depth set twice, breaks the first part.)
LevelsExact ==
    Searched =>
        /\ depths[root] = 0
        /\ \A m \in Reached : \A n \in Neighbours(m) :
              n \in Reached /\ depths[n] <= depths[m] + 1
        /\ \A n \in Reached \ {root} :
              \E m \in Reached : n \in Neighbours(m) /\ depths[n] = depths[m] + 1

\* Every device of the order is managed through a neighbour that is
\* reconfigured after it, or is the laptop, or is left alone: at no point of
\* the order has the path to a later device been reconfigured.
PathComesLater ==
    \A i \in DOMAIN order :
        \/ order[i] = root
        \/ \E m \in Reached :
              /\ order[i] \in Neighbours(m)
              /\ depths[m] < depths[order[i]]
              /\ \/ m \notin DOMAIN serials
                 \/ \E j \in DOMAIN order : j > i /\ order[j] = m

===============================================================================
