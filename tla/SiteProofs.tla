----------------------------- MODULE SiteProofs -----------------------------
(***************************************************************************)
(* Proofs about the tools that write a site to NetBox, for any devices,    *)
(* VLANs and cables, any number of runs, requests lost and edits by hand.  *)
(*                                                                         *)
(* A tool's requests are a sequence of which only the set and the order of *)
(* the ranks matter: an object comes after what it cannot be made without  *)
(* (Depth), or before what it protects (Turn).  While a tool works, what it*)
(* is to bring about is there or still to come: Generating, Fixing and     *)
(* Destroying say this of each tool, and SiteInv adds what a site that was *)
(* never disturbed has kept (HistoryInv).  With no request left, each of   *)
(* the properties follows.                                                 *)
(***************************************************************************)
EXTENDS Site, FiniteSetTheorems, TLAPS

(* The objects that NetBox can have, and the requests about them. *)
TypeKeys == Devices \cup {CHOOSE e \in Devices \ New : TRUE}

Ifaces(C) == UNION {{Iface(d, c) : d \in Ends[c]} : c \in C}

Object ==
    {site, rack, group, cluster, custom_fields} \cup {<<"type", k>> : k \in TypeKeys}
    \cup {Device(d) : d \in Devices} \cup {Vlan(v) : v \in Vlans} \cup (UNION {PrefixesOf(x) : x \in Octets})
    \cup Ifaces(Cables) \cup {Cable(c) : c \in Cables} \cup {Member(d) : d \in Devices}

Operation == {"ensure", "create", "fix", "noop", "version", "sync", "try", "delete"}
Call == [op : Operation, obj : Object]

Calls(s) == {s[i] : i \in DOMAIN s}
Objs(s) == {q.obj : q \in Calls(s)}

(* How far an object is from the roots, and when destroy_site comes to it. *)
Depth(x) ==
    CASE x[1] = "custom_fields" -> 1 [] x[1] = "type" -> 2 [] x[1] = "site" -> 3
      [] x[1] \in {"rack", "group"} -> 4 [] x[1] \in {"vlan", "prefix", "device"} -> 5
      [] x[1] = "iface" -> 6 [] x[1] = "cable" -> 7 [] x[1] = "cluster" -> 8 [] x[1] = "member" -> 9

Turn(x) ==
    CASE x[1] = "cable" -> 1 [] x[1] = "iface" -> 2 [] x[1] = "device" -> 3 [] x[1] = "prefix" -> 4
      [] x[1] = "vlan" -> 5 [] x[1] \in {"group", "rack", "cluster"} -> 6 [] OTHER -> 7

Rank(q) ==
    CASE q.op = "version" -> 0 [] q.op = "sync" -> 10 [] q.op \in {"try", "delete"} -> Turn(q.obj)
      [] OTHER -> Depth(q.obj)

\* Requests of one rank come in any order; there is one at most for the site itself.
Precedes(a, b) == Rank(a) < Rank(b) \/ (Rank(a) = Rank(b) /\ a.obj # site)
Ordered(s) == \A i, j \in DOMAIN s : i < j => Precedes(s[i], s[j])

-----------------------------------------------------------------------------
(* The state, and what NetBox itself keeps true. *)
SiteType ==
    /\ nb \subseteq Object /\ wrong \subseteq Devices
    /\ field \in [version : Versions, octet : Octets] /\ template \in Versions /\ fresh \in BOOLEAN
    /\ tool \in Tools \cup {"none"} /\ octet \in Octets
    /\ known \subseteq Devices /\ stage \in {"validate", "export", "package"}
    /\ outcome \in {"none", "ok", "failed", "current", "outdated"}
    /\ runs \in Nat /\ faults \in Nat /\ edits \in Nat /\ disturbed \in BOOLEAN /\ accident \in BOOLEAN
    /\ todo \in Seq(Call)

Closed ==
    /\ \A x \in nb : Parents(x) \subseteq nb
    /\ \A d \in wrong : Device(d) \in nb
    /\ \A x \in linked : x \in nb /\ x[1] = "prefix" /\ Vlan(x[2]) \in nb

TodoInv ==
    /\ tool \in {"none", "scan"} => todo = <<>>
    /\ \A q \in Calls(todo) : q.op = "create" => q.obj = site
    /\ template = <<1, 0>> =>
          /\ field.version = <<1, 0>> /\ ~fresh
          /\ \A d \in New : Device(d) \notin nb \cup Objs(todo)

(* The generator at work: what is asked for and not there is still to come,*)
(* after what it needs.                                                    *)
Plan(x) ==
    {custom_fields, site, rack, group, cluster} \cup {Type(d) : d \in Template(template)}
    \cup {Vlan(v) : v \in Vlans} \cup PrefixesOf(x) \cup {Device(d) : d \in Template(template)}
    \cup Ifaces(CablesOf(template)) \cup {Cable(c) : c \in CablesOf(template)}
    \cup {Member(d) : d \in Compute \cap Template(template)}

Generating ==
    /\ outcome # "failed" /\ Ordered(todo)
    /\ \A q \in Calls(todo) : q.obj \in Plan(octet) /\ q.op = (IF q.obj = site THEN "create" ELSE "ensure")
    /\ Plan(octet) \subseteq nb \cup Objs(todo)
    /\ site \in nb => site \notin Objs(todo) /\ field = [version |-> template, octet |-> octet]

(* A fix at work: what is asked for and not there is still to come, if the *)
(* catalogue has its type and the site its rack; it knows every device.    *)
Basic ==
    {cluster} \cup {Device(d) : d \in Template(template)} \cup {Vlan(v) : v \in Vlans}
    \cup {Cable(c) : c \in CablesOf(template)}

VersionCall == [op |-> "version", obj |-> site]
SyncCall == [op |-> "sync", obj |-> site]

FixCalls(s) ==
    \A q \in Calls(s) :
        \/ q \in {VersionCall, SyncCall}
        \/ q.op = "noop" /\ q.obj \in nb
        \/ q.op = "fix" /\ q.obj[1] \notin {"site", "type", "rack"}

Fixing ==
    /\ site \in nb /\ outcome # "failed" /\ Ordered(todo) /\ FixCalls(todo)
    /\ todo # <<>> => SyncCall \in Calls(todo)
    /\ field.version # template => VersionCall \in Calls(todo)
    /\ TypesExist /\ rack \in nb => Basic \cup PrefixesOf("default") \subseteq nb \cup Objs(todo)
    /\ \A d \in Devices : Device(d) \in nb => d \in known

(* destroy_site at work: all that is there is still to come, what protects *)
(* before what is protected.                                               *)
DeleteCall == [op |-> "delete", obj |-> site]
TryCall(x) == [op |-> "try", obj |-> x]
Owned == {"cable", "iface", "device", "prefix", "vlan", "group", "rack", "cluster"}

Destroying ==
    /\ site \in nb /\ outcome # "failed" /\ Ordered(todo)
    /\ \A q \in Calls(todo) : q = DeleteCall \/ (q.op = "try" /\ q.obj[1] \in Owned)
    /\ DeleteCall \in Calls(todo)
    /\ \A x \in Kinds(Owned) : TryCall(x) \in Calls(todo)

WorkInv ==
    Quiet =>
        /\ tool = "generate" => Generating \/ (site \in nb /\ todo = <<>> /\ outcome # "failed")
        /\ tool = "fix"      => Fixing \/ (site \notin nb /\ todo = <<>>)
        /\ tool = "pipeline" => Generating \/ Fixing
        /\ tool = "destroy"  => Destroying \/ (site \notin nb /\ todo = <<>>)

(* Until something is edited, lost or rebuilt, a site has the prefixes it  *)
(* was made with and its rack, and one whose version is the template's the *)
(* rest.                                                                   *)
Whole ==
    /\ rack \in nb \cup Objs(todo)
    /\ PrefixesOf(field.octet) \subseteq nb \cup Objs(todo)
    /\ field.version = template /\ TypesExist => Basic \subseteq nb \cup Objs(todo)

HistoryInv ==
    /\ faults > 0 \/ disturbed => accident
    /\ ~accident => wrong = {} /\ tool # "rebuild" /\ (tool # "destroy" /\ site \in nb => Whole)
    /\ outcome = "current" => tool = "none" /\ (accident \/ site \notin nb \/ field.version = template)

SiteInv == SiteType /\ Closed /\ TodoInv /\ WorkInv /\ HistoryInv

-----------------------------------------------------------------------------
(***************************************************************************)
(* Sequences of requests.                                                  *)
(***************************************************************************)
\* SetToSeq lists every element of a finite set once.
LEMMA ListFacts ==
    ASSUME NEW S, IsFiniteSet(S)
    PROVE /\ Cardinality(S) \in Nat
          /\ SetToSeq(S) \in [1..Cardinality(S) -> S]
          /\ \A i, j \in 1..Cardinality(S) : SetToSeq(S)[i] = SetToSeq(S)[j] => i = j
          /\ \A x \in S : \E i \in 1..Cardinality(S) : SetToSeq(S)[i] = x
<1> DEFINE n == Cardinality(S)
<1>1. n \in Nat /\ ExistsBijection(1..n, S)
  BY FS_CardinalityType
<1>2. PICK g \in Bijection(1..n, S) : TRUE
  BY <1>1 DEF ExistsBijection
<1>3. g \in [1..n -> S] /\ IsInjective(g)
  BY <1>2 DEF Bijection, Injection
<1>4. SetToSeq(S) \in [1..n -> S] /\ IsInjective(SetToSeq(S))
  BY <1>3 DEF SetToSeq
<1>5. SetToSeq(S) \in Injection(1..n, S)
  BY <1>4 DEF Injection
<1>6. IsFiniteSet(1..n) /\ Cardinality(1..n) = n
  BY <1>1, FS_Interval
<1>7. SetToSeq(S) \in Surjection(1..n, S)
  BY <1>5, <1>6, FS_Injection
<1> QED
  BY <1>1, <1>4, <1>7 DEF Surjection, IsInjective

LEMMA EachFacts ==
    ASSUME NEW op \in Operation, NEW S, S \subseteq Object, IsFiniteSet(S)
    PROVE /\ Each(op, S) \in Seq(Call)
          /\ Calls(Each(op, S)) = {[op |-> op, obj |-> x] : x \in S}
<1> DEFINE e == Each(op, S)
           n == Cardinality(S)
           f == SetToSeq(S)
<1>1. n \in Nat /\ f \in [1..n -> S] /\ \A x \in S : \E i \in 1..n : f[i] = x
  BY ListFacts
<1>2. e = [i \in 1..n |-> [op |-> op, obj |-> f[i]]]
  BY DEF Each
<1> HIDE DEF e, n, f
<1>3. e \in Seq(Call) /\ DOMAIN e = 1..n
  BY <1>1, <1>2 DEF Call
<1>4. \A i \in 1..n : e[i] = [op |-> op, obj |-> f[i]]
  BY <1>2
<1>5. Calls(e) = {[op |-> op, obj |-> x] : x \in S}
  BY <1>1, <1>3, <1>4 DEF Calls
<1> QED
  BY <1>3, <1>5 DEF e

LEMMA OneFacts ==
    ASSUME NEW op \in Operation, NEW x \in Object
    PROVE One(op, x) \in Seq(Call) /\ Calls(One(op, x)) = {[op |-> op, obj |-> x]}
<1> DEFINE q == [op |-> op, obj |-> x]
<1>1. q \in Call /\ One(op, x) = <<q>>
  BY DEF Call, One
<1> HIDE DEF q
<1>2. <<q>> \in Seq(Call) /\ DOMAIN <<q>> = {1} /\ <<q>>[1] = q
  BY <1>1
<1> QED
  BY <1>1, <1>2 DEF Calls, q

\* Of two sequences, one behind the other.
LEMMA ConcatFacts ==
    ASSUME NEW s \in Seq(Call), NEW t \in Seq(Call)
    PROVE /\ Len(s) \in Nat /\ Len(t) \in Nat /\ DOMAIN s = 1..Len(s) /\ DOMAIN t = 1..Len(t)
          /\ s \o t \in Seq(Call) /\ DOMAIN (s \o t) = 1..Len(s) + Len(t)
          /\ \A i \in 1..Len(s) : (s \o t)[i] = s[i]
          /\ \A i \in 1..Len(s) + Len(t) : i > Len(s) => (s \o t)[i] = t[i - Len(s)]
          /\ \A i \in 1..Len(t) : (s \o t)[Len(s) + i] = t[i]
OBVIOUS

LEMMA CallsConcat ==
    ASSUME NEW s \in Seq(Call), NEW t \in Seq(Call)
    PROVE s \o t \in Seq(Call) /\ Calls(s \o t) = Calls(s) \cup Calls(t)
<1>1. ASSUME NEW i \in DOMAIN s PROVE s[i] \in Calls(s \o t)
  BY ConcatFacts DEF Calls
<1>2. ASSUME NEW i \in DOMAIN t PROVE t[i] \in Calls(s \o t)
  <2>1. Len(s) + i \in DOMAIN (s \o t) /\ (s \o t)[Len(s) + i] = t[i]
    BY ConcatFacts
  <2> QED
    BY <2>1 DEF Calls
<1>3. ASSUME NEW i \in DOMAIN (s \o t) PROVE (s \o t)[i] \in Calls(s) \cup Calls(t)
  <2>1. CASE i <= Len(s)
    BY <2>1, ConcatFacts DEF Calls
  <2>2. CASE ~ (i <= Len(s))
    <3>1. i - Len(s) \in DOMAIN t /\ (s \o t)[i] = t[i - Len(s)]
      BY <2>2, ConcatFacts
    <3> QED
      BY <3>1 DEF Calls
  <2> QED
    BY <2>1, <2>2
<1>4. Calls(s) \subseteq Calls(s \o t) /\ Calls(t) \subseteq Calls(s \o t)
  BY <1>1, <1>2 DEF Calls
<1>5. Calls(s \o t) \subseteq Calls(s) \cup Calls(t)
  BY <1>3 DEF Calls
<1> QED
  BY <1>4, <1>5, ConcatFacts

LEMMA OrderedConcat ==
    ASSUME NEW s \in Seq(Call), NEW t \in Seq(Call), Ordered(s), Ordered(t),
           \A a \in Calls(s), b \in Calls(t) : Precedes(a, b)
    PROVE Ordered(s \o t)
<1> SUFFICES ASSUME NEW i \in DOMAIN (s \o t), NEW j \in DOMAIN (s \o t), i < j
             PROVE Precedes((s \o t)[i], (s \o t)[j])
  BY DEF Ordered
<1>1. CASE j <= Len(s)
  <2>1. i \in DOMAIN s /\ j \in DOMAIN s /\ (s \o t)[i] = s[i] /\ (s \o t)[j] = s[j]
    BY <1>1, ConcatFacts
  <2> QED
    BY <2>1 DEF Ordered
<1>2. CASE i > Len(s)
  <2>1. /\ i - Len(s) \in DOMAIN t /\ j - Len(s) \in DOMAIN t /\ i - Len(s) < j - Len(s)
        /\ (s \o t)[i] = t[i - Len(s)] /\ (s \o t)[j] = t[j - Len(s)]
    BY <1>2, ConcatFacts
  <2> QED
    BY <2>1 DEF Ordered
<1>3. CASE i <= Len(s) /\ j > Len(s)
  <2>1. i \in DOMAIN s /\ (s \o t)[i] = s[i]
    BY <1>3, ConcatFacts
  <2>2. j - Len(s) \in DOMAIN t /\ (s \o t)[j] = t[j - Len(s)]
    BY <1>3, ConcatFacts
  <2>3. s[i] \in Calls(s) /\ t[j - Len(s)] \in Calls(t)
    BY <2>1, <2>2 DEF Calls
  <2> QED
    BY <2>1, <2>2, <2>3
<1>4. i \in Nat /\ j \in Nat /\ Len(s) \in Nat
  BY ConcatFacts
<1> QED
  BY <1>1, <1>2, <1>3, <1>4

LEMMA EmptyFacts == <<>> \in Seq(Call) /\ Calls(<<>>) = {} /\ Objs(<<>>) = {} /\ Ordered(<<>>)
<1>1. <<>> \in Seq(Call)
  OBVIOUS
<1>2. DOMAIN <<>> = {}
  OBVIOUS
<1> QED
  BY <1>1, <1>2 DEF Calls, Objs, Ordered

\* What is left when the first request is done.
LEMMA TailFacts ==
    ASSUME NEW s \in Seq(Call), s # <<>>
    PROVE /\ Tail(s) \in Seq(Call) /\ s[1] \in Call /\ s[1] \in Calls(s)
          /\ Calls(s) = {s[1]} \cup Calls(Tail(s))
          /\ Objs(s) = {s[1].obj} \cup Objs(Tail(s))
          /\ Ordered(s) => Ordered(Tail(s)) /\ \A q \in Calls(Tail(s)) : Precedes(s[1], q)
<1>1. /\ Tail(s) \in Seq(Call) /\ Len(s) \in Nat \ {0} /\ DOMAIN s = 1..Len(s)
      /\ DOMAIN Tail(s) = 1..Len(s) - 1 /\ \A i \in 1..Len(s) - 1 : Tail(s)[i] = s[i + 1]
      /\ s[1] \in Call
  OBVIOUS
<1>2. s[1] \in Calls(s)
  BY <1>1 DEF Calls
<1>3. Calls(Tail(s)) \subseteq Calls(s)
  BY <1>1 DEF Calls
<1>4. ASSUME NEW i \in DOMAIN s PROVE s[i] \in {s[1]} \cup Calls(Tail(s))
  <2>1. CASE i = 1
    BY <2>1
  <2>2. CASE i # 1
    <3>1. i - 1 \in DOMAIN Tail(s) /\ Tail(s)[i - 1] = s[i]
      BY <1>1, <2>2
    <3> QED
      BY <3>1 DEF Calls
  <2> QED
    BY <2>1, <2>2
<1>5. Calls(s) = {s[1]} \cup Calls(Tail(s))
  BY <1>2, <1>3, <1>4 DEF Calls
<1>6. Objs(s) = {s[1].obj} \cup Objs(Tail(s))
  BY <1>5 DEF Objs
<1>7. ASSUME Ordered(s) PROVE Ordered(Tail(s)) /\ \A q \in Calls(Tail(s)) : Precedes(s[1], q)
  <2>1. Ordered(Tail(s))
    BY <1>1, <1>7 DEF Ordered
  <2>2. ASSUME NEW i \in DOMAIN Tail(s) PROVE Precedes(s[1], Tail(s)[i])
    <3>1. i + 1 \in DOMAIN s /\ 1 < i + 1 /\ Tail(s)[i] = s[i + 1] /\ 1 \in DOMAIN s
      BY <1>1
    <3> QED
      BY <1>7, <3>1 DEF Ordered
  <2> QED
    BY <2>1, <2>2 DEF Calls
<1> QED
  BY <1>1, <1>2, <1>5, <1>6, <1>7

-----------------------------------------------------------------------------
(***************************************************************************)
(* The objects.                                                            *)
(***************************************************************************)
LEMMA ObjectFinite == IsFiniteSet(Object)
<1>1. IsFiniteSet(Devices) /\ IsFiniteSet(Vlans) /\ IsFiniteSet(Cables)
  BY SiteAssumption
<1>2. IsFiniteSet({site, rack, group, cluster, custom_fields})
  <2>1. {site, rack, group, cluster, custom_fields}
          = ((({site} \cup {rack}) \cup {group}) \cup {cluster}) \cup {custom_fields}
    OBVIOUS
  <2>2. IsFiniteSet({site} \cup {rack})
    BY FS_Singleton, FS_AddElement
  <2>3. IsFiniteSet(({site} \cup {rack}) \cup {group})
    BY <2>2, FS_AddElement
  <2>4. IsFiniteSet((({site} \cup {rack}) \cup {group}) \cup {cluster})
    BY <2>3, FS_AddElement
  <2> QED
    BY <2>1, <2>4, FS_AddElement
<1>3. IsFiniteSet({<<"type", k>> : k \in TypeKeys})
  <2>1. IsFiniteSet(TypeKeys)
    BY <1>1, FS_AddElement DEF TypeKeys
  <2> DEFINE f == [k \in TypeKeys |-> <<"type", k>>]
  <2>2. f \in Surjection(TypeKeys, {<<"type", k>> : k \in TypeKeys})
    BY DEF Surjection
  <2> HIDE DEF f
  <2> QED
    BY <2>1, <2>2, FS_Surjection
<1>4. IsFiniteSet({Device(d) : d \in Devices})
  <2> DEFINE f == [d \in Devices |-> Device(d)]
  <2>2. f \in Surjection(Devices, {Device(d) : d \in Devices})
    BY DEF Surjection
  <2> HIDE DEF f
  <2> QED
    BY <1>1, <2>2, FS_Surjection
<1>5. IsFiniteSet({Member(d) : d \in Devices})
  <2> DEFINE f == [d \in Devices |-> Member(d)]
  <2>2. f \in Surjection(Devices, {Member(d) : d \in Devices})
    BY DEF Surjection
  <2> HIDE DEF f
  <2> QED
    BY <1>1, <2>2, FS_Surjection
<1>6. IsFiniteSet({Vlan(v) : v \in Vlans})
  <2> DEFINE f == [v \in Vlans |-> Vlan(v)]
  <2>2. f \in Surjection(Vlans, {Vlan(v) : v \in Vlans})
    BY DEF Surjection
  <2> HIDE DEF f
  <2> QED
    BY <1>1, <2>2, FS_Surjection
<1>7. IsFiniteSet({Cable(c) : c \in Cables})
  <2> DEFINE f == [c \in Cables |-> Cable(c)]
  <2>2. f \in Surjection(Cables, {Cable(c) : c \in Cables})
    BY DEF Surjection
  <2> HIDE DEF f
  <2> QED
    BY <1>1, <2>2, FS_Surjection
<1>8. ASSUME NEW x PROVE IsFiniteSet(PrefixesOf(x))
  <2> DEFINE f == [v \in Vlans |-> Prefix(v, x)]
  <2>2. f \in Surjection(Vlans, PrefixesOf(x))
    BY DEF Surjection, PrefixesOf
  <2> HIDE DEF f
  <2> QED
    BY <1>1, <2>2, FS_Surjection
<1>9. IsFiniteSet(Ifaces(Cables))
  <2> DEFINE f == [p \in Devices \X Cables |-> Iface(p[1], p[2])]
  <2>1. IsFiniteSet(Devices \X Cables)
    BY <1>1, FS_Product
  <2>2. f \in Surjection(Devices \X Cables, {f[p] : p \in Devices \X Cables})
    BY DEF Surjection
  <2>3. IsFiniteSet({f[p] : p \in Devices \X Cables})
    <3> HIDE DEF f
    <3> QED
      BY <2>1, <2>2, FS_Surjection
  <2>4. ASSUME NEW c \in Cables, NEW d \in Ends[c] PROVE Iface(d, c) \in {f[p] : p \in Devices \X Cables}
    <3>1. <<d, c>> \in Devices \X Cables
      BY SiteAssumption
    <3>2. f[<<d, c>>] = Iface(d, c)
      BY <3>1
    <3> QED
      BY <3>1, <3>2
  <2>5. Ifaces(Cables) \subseteq {f[p] : p \in Devices \X Cables}
    BY <2>4 DEF Ifaces
  <2> HIDE DEF f
  <2> QED
    BY <2>3, <2>5, FS_Subset
<1>10. UNION {PrefixesOf(x) : x \in Octets} = PrefixesOf("default") \cup PrefixesOf("given")
  BY DEF Octets
<1>11. IsFiniteSet(UNION {PrefixesOf(x) : x \in Octets})
  BY <1>8, <1>10, FS_Union
<1> DEFINE A == {site, rack, group, cluster, custom_fields}
           B == {<<"type", k>> : k \in TypeKeys}
           C == {Device(d) : d \in Devices}
           D == {Vlan(v) : v \in Vlans}
           E == (UNION {PrefixesOf(x) : x \in Octets})
           F == Ifaces(Cables)
           G == {Cable(c) : c \in Cables}
           H == {Member(d) : d \in Devices}
<1>12. Object = A \cup B \cup C \cup D \cup E \cup F \cup G \cup H
  BY DEF Object
<1>13. /\ IsFiniteSet(A) /\ IsFiniteSet(B) /\ IsFiniteSet(C) /\ IsFiniteSet(D)
       /\ IsFiniteSet(E) /\ IsFiniteSet(F) /\ IsFiniteSet(G) /\ IsFiniteSet(H)
  BY <1>2, <1>3, <1>4, <1>5, <1>6, <1>7, <1>9, <1>11
<1> HIDE DEF A, B, C, D, E, F, G, H
<1>14. IsFiniteSet(A \cup B \cup C \cup D)
  BY <1>13, FS_Union
<1>15. IsFiniteSet((A \cup B \cup C \cup D) \cup E)
  BY <1>13, <1>14, FS_Union
<1>16. IsFiniteSet((A \cup B \cup C \cup D \cup E) \cup F)
  BY <1>13, <1>15, FS_Union
<1>17. IsFiniteSet((A \cup B \cup C \cup D \cup E \cup F) \cup G)
  BY <1>13, <1>16, FS_Union
<1>18. IsFiniteSet((A \cup B \cup C \cup D \cup E \cup F \cup G) \cup H)
  BY <1>13, <1>17, FS_Union
<1> QED
  BY <1>12, <1>18

\* A request for each of some objects.
LEMMA EachOf ==
    ASSUME NEW op \in Operation, NEW S, S \subseteq Object
    PROVE /\ Each(op, S) \in Seq(Call)
          /\ Calls(Each(op, S)) = {[op |-> op, obj |-> x] : x \in S}
<1>1. IsFiniteSet(S)
  BY ObjectFinite, FS_Subset
<1> QED
  BY <1>1, EachFacts

KindNames == {"site", "rack", "group", "cluster", "custom_fields", "type", "device", "vlan", "prefix", "iface",
              "cable", "member"}

LEMMA Tags ==
    /\ site[1] = "site" /\ rack[1] = "rack" /\ group[1] = "group" /\ cluster[1] = "cluster"
    /\ custom_fields[1] = "custom_fields"
    /\ \A k : <<"type", k>>[1] = "type" /\ <<"type", k>>[2] = k
    /\ \A d : Device(d)[1] = "device" /\ Device(d)[2] = d
    /\ \A v : Vlan(v)[1] = "vlan" /\ Vlan(v)[2] = v
    /\ \A v, x : Prefix(v, x)[1] = "prefix" /\ Prefix(v, x)[2] = v /\ Prefix(v, x)[3] = x
    /\ \A d, c : Iface(d, c)[1] = "iface" /\ Iface(d, c)[2] = d /\ Iface(d, c)[3] = c
    /\ \A c : Cable(c)[1] = "cable" /\ Cable(c)[2] = c
    /\ \A d : Member(d)[1] = "member" /\ Member(d)[2] = d
BY DEF site, rack, group, cluster, custom_fields, Device, Vlan, Prefix, Iface, Cable, Member

\* An object is told by its first component.
LEMMA ObjectKinds ==
    ASSUME NEW x \in Object
    PROVE /\ x[1] \in KindNames
          /\ x[1] = "site" => x = site
          /\ x[1] = "rack" => x = rack
          /\ x[1] = "group" => x = group
          /\ x[1] = "cluster" => x = cluster
          /\ x[1] = "custom_fields" => x = custom_fields
          /\ x[1] = "type" => x[2] \in TypeKeys /\ x = <<"type", x[2]>>
          /\ x[1] = "device" => x[2] \in Devices /\ x = Device(x[2])
          /\ x[1] = "vlan" => x[2] \in Vlans /\ x = Vlan(x[2])
          /\ x[1] = "prefix" => x[2] \in Vlans /\ x[3] \in Octets /\ x = Prefix(x[2], x[3])
          /\ x[1] = "iface" => x[3] \in Cables /\ x[2] \in Ends[x[3]] /\ x = Iface(x[2], x[3])
          /\ x[1] = "cable" => x[2] \in Cables /\ x = Cable(x[2])
          /\ x[1] = "member" => x[2] \in Devices /\ x = Member(x[2])
<1>1. CASE x \in {site, rack, group, cluster, custom_fields}
  BY <1>1, Tags DEF KindNames
<1>2. CASE x \in {<<"type", k>> : k \in TypeKeys}
  BY <1>2, Tags DEF KindNames
<1>3. CASE x \in {Device(d) : d \in Devices}
  BY <1>3, Tags DEF KindNames
<1>4. CASE x \in {Vlan(v) : v \in Vlans}
  BY <1>4, Tags DEF KindNames
<1>5. CASE x \in UNION {PrefixesOf(z) : z \in Octets}
  <2>1. PICK z \in Octets, v \in Vlans : x = Prefix(v, z)
    BY <1>5 DEF PrefixesOf
  <2> QED
    BY <2>1, Tags DEF KindNames
<1>6. CASE x \in Ifaces(Cables)
  <2>1. PICK c \in Cables : \E d \in Ends[c] : x = Iface(d, c)
    BY <1>6 DEF Ifaces
  <2>2. PICK d \in Ends[c] : x = Iface(d, c)
    BY <2>1
  <2> QED
    BY <2>2, Tags DEF KindNames
<1>7. CASE x \in {Cable(c) : c \in Cables}
  BY <1>7, Tags DEF KindNames
<1>8. CASE x \in {Member(d) : d \in Devices}
  BY <1>8, Tags DEF KindNames
<1> QED
  BY <1>1, <1>2, <1>3, <1>4, <1>5, <1>6, <1>7, <1>8 DEF Object

LEMMA AreObjects ==
    /\ site \in Object /\ rack \in Object /\ group \in Object /\ cluster \in Object /\ custom_fields \in Object
    /\ \A d \in Devices : Device(d) \in Object /\ Member(d) \in Object
    /\ \A v \in Vlans : Vlan(v) \in Object /\ \A x \in Octets : Prefix(v, x) \in Object
    /\ \A c \in Cables : Cable(c) \in Object /\ \A d \in Ends[c] : Iface(d, c) \in Object
    /\ \A d \in Devices : Type(d) \in Object /\ Type(d)[1] = "type"
<1>1. \A v \in Vlans, x \in Octets : Prefix(v, x) \in Object
  <2> SUFFICES ASSUME NEW v \in Vlans, NEW x \in Octets PROVE Prefix(v, x) \in UNION {PrefixesOf(z) : z \in Octets}
    BY DEF Object
  <2>1. Prefix(v, x) \in PrefixesOf(x)
    BY DEF PrefixesOf
  <2> QED
    BY <2>1
<1>2. \A c \in Cables : \A d \in Ends[c] : Iface(d, c) \in Object
  <2> SUFFICES ASSUME NEW c \in Cables, NEW d \in Ends[c] PROVE Iface(d, c) \in Ifaces(Cables)
    BY DEF Object
  <2>1. Iface(d, c) \in {Iface(e, c) : e \in Ends[c]}
    OBVIOUS
  <2> QED
    BY <2>1 DEF Ifaces
<1>3. ASSUME NEW d \in Devices PROVE Type(d) \in Object /\ Type(d)[1] = "type"
  <2>1. PICK k \in TypeKeys : Type(d) = <<"type", k>>
    BY DEF Type, TypeKeys
  <2>2. Type(d) \in Object
    BY <2>1 DEF Object
  <2> QED
    BY <2>1, <2>2, Tags
<1>4. \A d \in Devices : Device(d) \in Object /\ Member(d) \in Object
  BY DEF Object
<1>5. /\ \A v \in Vlans : Vlan(v) \in Object
      /\ \A c \in Cables : Cable(c) \in Object
  BY DEF Object
<1>6. site \in Object /\ rack \in Object /\ group \in Object /\ cluster \in Object /\ custom_fields \in Object
  BY DEF Object
<1> QED
  BY <1>1, <1>2, <1>3, <1>4, <1>5, <1>6

LEMMA ParentFacts ==
    ASSUME NEW x \in Object
    PROVE /\ x[1] \in {"rack", "group", "cluster", "vlan", "prefix"} => Parents(x) = {site}
          /\ x[1] = "device" => Parents(x) = {site, rack, Type(x[2])}
          /\ x[1] = "iface" => Parents(x) = {Device(x[2])}
          /\ x[1] = "cable" => Parents(x) = {Iface(d, x[2]) : d \in Ends[x[2]]}
          /\ x[1] = "member" => Parents(x) = {cluster, Device(x[2])}
          /\ x[1] \in {"site", "custom_fields", "type"} => Parents(x) = {}
BY DEF Parents

LEMMA ParentsAbove ==
    ASSUME NEW x \in Object, NEW p \in Parents(x)
    PROVE p \in Object /\ Depth(p) < Depth(x)
<1>1. CASE x[1] \in {"rack", "group", "cluster", "vlan", "prefix"}
  <2>1. p = site
    BY <1>1, ParentFacts
  <2> QED
    BY <1>1, <2>1, Tags, AreObjects DEF Depth
<1>2. CASE x[1] = "device"
  <2>1. x[2] \in Devices /\ (p = site \/ p = rack \/ p = Type(x[2]))
    BY <1>2, ParentFacts, ObjectKinds
  <2>2. p \in Object /\ p[1] \in {"site", "rack", "type"}
    BY <2>1, Tags, AreObjects
  <2> QED
    BY <1>2, <2>2 DEF Depth
<1>3. CASE x[1] = "iface"
  <2>1. p = Device(x[2]) /\ x[2] \in Devices
    BY <1>3, ParentFacts, ObjectKinds, SiteAssumption
  <2> QED
    BY <1>3, <2>1, Tags, AreObjects DEF Depth
<1>4. CASE x[1] = "cable"
  <2>1. PICK d \in Ends[x[2]] : p = Iface(d, x[2])
    BY <1>4, ParentFacts
  <2>2. x[2] \in Cables
    BY <1>4, ObjectKinds
  <2>3. p \in Object /\ p[1] = "iface"
    BY <2>1, <2>2, Tags, AreObjects
  <2> QED
    BY <1>4, <2>3 DEF Depth
<1>5. CASE x[1] = "member"
  <2>1. x[2] \in Devices /\ (p = cluster \/ p = Device(x[2]))
    BY <1>5, ParentFacts, ObjectKinds
  <2>2. p \in Object /\ p[1] \in {"cluster", "device"}
    BY <2>1, Tags, AreObjects
  <2> QED
    BY <1>5, <2>2 DEF Depth
<1>6. CASE x[1] \in {"site", "custom_fields", "type"}
  BY <1>6, ParentFacts
<1> QED
  BY <1>1, <1>2, <1>3, <1>4, <1>5, <1>6, ObjectKinds DEF KindNames

LEMMA RankFacts ==
    ASSUME NEW x \in Object
    PROVE /\ Depth(x) \in 1..9 /\ Turn(x) \in 1..7
          /\ \A op \in Operation : Rank([op |-> op, obj |-> x]) \in 0..10
<1>1. Depth(x) \in 1..9
  BY ObjectKinds DEF Depth, KindNames
<1>2. Turn(x) \in 1..7
  BY ObjectKinds DEF Turn, KindNames
<1> QED
  BY <1>1, <1>2 DEF Rank, Operation

-----------------------------------------------------------------------------
(***************************************************************************)
(* NetBox: an object that is made has its parents, and one that is deleted *)
(* takes its children along or is protected by them.                       *)
(***************************************************************************)
LEMMA CascadeFacts ==
    ASSUME NEW x, NEW y \in Cascade(x)
    PROVE /\ y \in nb
          /\ \/ x[1] = "device" /\ y[1] \in {"iface", "member", "cable"}
             \/ x[1] = "iface" /\ y[1] = "cable"
             \/ x[1] = "cluster" /\ y[1] = "member"
             \/ x[1] = "site" /\ y[1] \in {"group", "prefix", "cluster", "member"}
<1>1. CASE x[1] = "device"
  BY <1>1 DEF Cascade
<1>2. CASE x[1] = "iface"
  BY <1>2 DEF Cascade
<1>3. CASE x[1] = "cluster"
  BY <1>3 DEF Cascade
<1>4. CASE x[1] = "site"
  BY <1>4 DEF Cascade
<1> QED
  BY <1>1, <1>2, <1>3, <1>4 DEF Cascade

LEMMA CascadeOf ==
    ASSUME NEW x, NEW y \in nb
    PROVE /\ x[1] = "device" /\ y[1] \in {"iface", "member"} /\ y[2] = x[2] => y \in Cascade(x)
          /\ x[1] = "device" /\ y[1] = "cable" /\ x[2] \in Ends[y[2]] => y \in Cascade(x)
          /\ x[1] = "iface" /\ y[1] = "cable" /\ y[2] = x[3] => y \in Cascade(x)
          /\ x[1] = "cluster" /\ y[1] = "member" => y \in Cascade(x)
          /\ x[1] = "site" /\ y[1] \in {"group", "prefix", "cluster", "member"} => y \in Cascade(x)
BY DEF Cascade

LEMMA Removed ==
    ASSUME nb \subseteq Object, \A y \in nb : Parents(y) \subseteq nb,
           NEW x \in nb, ~Protected(x),
           NEW y \in nb \ ({x} \cup Cascade(x)), NEW p \in Parents(y)
    PROVE p \in nb \ ({x} \cup Cascade(x))
<1> DEFINE Gone == {x} \cup Cascade(x)
<1>1. x \in Object /\ y \in Object /\ p \in nb /\ p \in Object /\ y \in nb /\ y \notin Cascade(x) /\ y # x
  OBVIOUS
<1> SUFFICES ASSUME p \in Gone PROVE FALSE
  BY <1>1
<1>2. CASE y[1] \in {"rack", "vlan"}
  <2>1. p = site
    BY <1>1, <1>2, ParentFacts
  <2>2. x = site
    BY <2>1, CascadeFacts, Tags
  <2> QED
    BY <1>1, <1>2, <2>2, Tags DEF Protected
<1>3. CASE y[1] \in {"group", "cluster", "prefix"}
  <2>1. p = site
    BY <1>1, <1>3, ParentFacts
  <2>2. x = site
    BY <2>1, CascadeFacts, Tags
  <2> QED
    BY <1>1, <1>3, <2>2, Tags, CascadeOf
<1>4. CASE y[1] = "device"
  <2>1. (p = site \/ p = rack \/ p = Type(y[2])) /\ y[2] \in Devices /\ y = Device(y[2])
    BY <1>1, <1>4, ParentFacts, ObjectKinds
  <2>2. p[1] \in {"site", "rack", "type"}
    BY <2>1, Tags, AreObjects
  <2>3. x = p
    BY <2>2, CascadeFacts
  <2>4. CASE p = site
    BY <1>1, <1>4, <2>3, <2>4, Tags DEF Protected
  <2>5. CASE p = Type(y[2])
    BY <1>1, <2>1, <2>3, <2>5, AreObjects DEF Protected
  <2>6. CASE p = rack
    BY <1>1, <2>1, <2>3, <2>6 DEF Protected
  <2> QED
    BY <2>1, <2>4, <2>5, <2>6
<1>5. CASE y[1] = "iface"
  <2>1. p = Device(y[2])
    BY <1>1, <1>5, ParentFacts
  <2>2. x = p
    BY <2>1, CascadeFacts, Tags
  <2> QED
    BY <1>1, <1>5, <2>1, <2>2, Tags, CascadeOf
<1>6. CASE y[1] = "cable"
  <2>1. PICK d \in Ends[y[2]] : p = Iface(d, y[2])
    BY <1>1, <1>6, ParentFacts
  <2>2. p[1] = "iface" /\ p[2] = d /\ p[3] = y[2]
    BY <2>1, Tags
  <2>3. CASE x = p
    BY <1>1, <1>6, <2>2, <2>3, CascadeOf
  <2>4. CASE p \in Cascade(x)
    <3>1. x[1] = "device"
      BY <2>2, <2>4, CascadeFacts
    <3>2. p[2] = x[2]
      BY <2>2, <2>4, <3>1 DEF Cascade
    <3> QED
      BY <1>1, <1>6, <2>1, <2>2, <3>1, <3>2, CascadeOf
  <2> QED
    BY <2>3, <2>4
<1>7. CASE y[1] = "member"
  <2>1. p = cluster \/ p = Device(y[2])
    BY <1>1, <1>7, ParentFacts
  <2>2. CASE p = cluster
    <3>1. x = p \/ x[1] = "site"
      BY <2>2, CascadeFacts, Tags
    <3> QED
      BY <1>1, <1>7, <2>2, <3>1, Tags, CascadeOf
  <2>3. CASE p = Device(y[2])
    <3>1. x = p
      BY <2>3, CascadeFacts, Tags
    <3> QED
      BY <1>1, <1>7, <2>3, <3>1, Tags, CascadeOf
  <2> QED
    BY <2>1, <2>2, <2>3
<1>8. CASE y[1] \in {"site", "custom_fields", "type"}
  BY <1>1, <1>8, ParentFacts
<1> QED
  BY <1>1, <1>2, <1>3, <1>4, <1>5, <1>6, <1>7, <1>8, ObjectKinds DEF KindNames

LEMMA ParentsSame ==
    ASSUME fresh' = fresh
    PROVE /\ \A x : Parents(x)' = Parents(x)
          /\ \A d : Type(d)' = Type(d)
<1>1. \A d : Type(d)' = Type(d)
  BY DEF Type
<1> QED
  BY <1>1 DEF Parents

LEMMA RemovedClosed ==
    ASSUME nb \subseteq Object, Closed, wrong \subseteq Devices, NEW x \in nb, ~Protected(x), fresh' = fresh,
           nb' = nb \ ({x} \cup Cascade(x)), wrong' = {d \in wrong : Device(d) \in nb'},
           linked' \subseteq linked \cap nb'
    PROVE nb' \subseteq Object /\ Closed' /\ wrong' \subseteq Devices
<1>1. \A y \in nb' : Parents(y) \subseteq nb'
  BY Removed DEF Closed
<1>2. \A y \in nb' : Parents(y)' \subseteq nb'
  BY <1>1, ParentsSame
<1>3. ASSUME NEW y \in linked' PROVE y \in nb' /\ y[1] = "prefix" /\ Vlan(y[2]) \in nb'
  <2>1. y \in linked /\ y \in nb' /\ y[1] = "prefix" /\ Vlan(y[2]) \in nb
    BY DEF Closed
  <2>2. Vlan(y[2]) # x
    BY <2>1, Tags DEF Protected
  <2>3. Vlan(y[2]) \notin Cascade(x)
    BY CascadeFacts, Tags
  <2> QED
    BY <2>1, <2>2, <2>3
<1> QED
  BY <1>2, <1>3 DEF Closed

\* What fix makes with an object are the interfaces of its cable.
LEMMA MadeFacts ==
    ASSUME NEW x \in Object, NEW y \in Made(x)
    PROVE y \in Object /\ (y = x \/ (Op = "fix" /\ x[1] = "cable" /\ y[1] = "iface"))
<1>1. CASE Op = "fix" /\ x[1] = "cable"
  <2>1. y = x \/ \E d \in Ends[x[2]] \cap known : y = Iface(d, x[2])
    BY <1>1 DEF Made, MadeByFix
  <2>2. x[2] \in Cables
    BY <1>1, ObjectKinds
  <2> QED
    BY <1>1, <2>1, <2>2, AreObjects, Tags
<1>2. CASE ~(Op = "fix" /\ x[1] = "cable")
  BY <1>2 DEF Made, MadeByFix
<1> QED
  BY <1>1, <1>2

\* What a request that is carried out does to NetBox.
LEMMA DoFacts ==
    ASSUME SiteType, Closed, TodoInv, todo # <<>>, CanDo, Do, fresh' = fresh
    PROVE nb' \subseteq Object /\ Closed' /\ wrong' \subseteq wrong
<1>1. todo[1] \in Call /\ todo[1] \in Calls(todo) /\ Op \in Operation /\ Obj \in Object
  BY TailFacts DEF SiteType, Op, Obj, Call
<1>2. wrong' \subseteq wrong /\ \A d \in wrong' : Device(d) \in nb'
  BY DEF Do
<1>3. CASE Op \in {"delete", "try"}
  <2>1. /\ Obj \in nb /\ ~Protected(Obj) /\ nb' = nb \ ({Obj} \cup Cascade(Obj))
        /\ wrong' = {d \in wrong : Device(d) \in nb'} /\ linked' \subseteq linked \cap nb'
    BY <1>3 DEF CanDo, Do, NowLinked
  <2> QED
    BY <1>2, <2>1, RemovedClosed DEF SiteType
<1>4. CASE Op \in {"ensure", "create", "fix"}
  <2>1. nb' = nb \cup Made(Obj) /\ linked' = (linked \cup NowLinked) \cap nb'
    BY <1>4 DEF Do
  <2>2. ASSUME NEW y \in Made(Obj) PROVE y \in Object /\ Parents(y) \subseteq nb'
    <3>0. y \in Object
      BY <1>1, MadeFacts
    <3>1. CASE Op = "ensure"
      <4>1. y = Obj /\ (Obj \in nb \/ Parents(Obj) \subseteq nb)
        BY <2>2, <3>1 DEF Made, CanDo
      <4> QED
        BY <1>1, <2>1, <4>1 DEF Closed
    <3>2. CASE Op = "create"
      <4>1. y = site
        BY <1>1, <2>2, <3>2 DEF Made, TodoInv, Op, Obj
      <4> QED
        BY <4>1, AreObjects, ParentFacts, Tags
    <3>3. CASE Op = "fix"
      BY <2>1, <3>0, <3>3 DEF CanDo
    <3> QED
      BY <1>4, <3>1, <3>2, <3>3
  <2>3. nb' \subseteq Object /\ \A y \in nb' : Parents(y) \subseteq nb'
    BY <2>1, <2>2 DEF SiteType, Closed
  <2>4. \A y \in linked' : y \in nb' /\ y[1] = "prefix" /\ Vlan(y[2]) \in nb'
    BY <2>1 DEF Closed, NowLinked
  <2> QED
    BY <1>2, <2>3, <2>4, ParentsSame DEF Closed
<1>5. CASE Op \in {"noop", "version", "sync"}
  <2>1. nb' = nb /\ linked' \subseteq linked
    BY <1>5 DEF Do, NowLinked
  <2> QED
    BY <1>2, <2>1, ParentsSame DEF Closed, SiteType
<1> QED
  BY <1>1, <1>3, <1>4, <1>5 DEF Operation

\* And one of which at most a part is carried out.
LEMMA PartFacts ==
    ASSUME SiteType, Closed, todo # <<>>, DoPart, fresh' = fresh
    PROVE nb \subseteq nb' /\ nb' \subseteq nb \cup Made(Obj) /\ nb' \subseteq Object /\ Closed' /\ wrong' = wrong
<1>1. Obj \in Object
  BY TailFacts DEF SiteType, Obj, Call
<1>2. PICK S \in SUBSET {p \in Made(Obj) : p[1] = "iface" /\ Parents(p) \subseteq nb} :
          nb' = nb \cup (IF Op = "fix" THEN S ELSE {})
  BY DEF DoPart
<1>3. nb \subseteq nb' /\ \A p \in nb' : p \in nb \/ (p \in Made(Obj) /\ Parents(p) \subseteq nb)
  BY <1>2
<1>4. \A p \in nb' : p \in Object /\ Parents(p) \subseteq nb'
  BY <1>1, <1>3, MadeFacts DEF SiteType, Closed
<1>5. wrong' = wrong /\ linked' = linked
  BY DEF DoPart
<1>6. Closed'
  BY <1>3, <1>4, <1>5, ParentsSame DEF Closed
<1> QED
  BY <1>3, <1>4, <1>5, <1>6

-----------------------------------------------------------------------------
(***************************************************************************)
(* The tools' requests, put together.  Piece: the ranks of a sequence lie  *)
(* between lo and hi, in order, and Q are its requests.                    *)
(***************************************************************************)
Piece(s, lo, hi, Q) ==
    s \in Seq(Call) /\ Ordered(s) /\ Calls(s) = Q /\ \A q \in Q : Rank(q) \in lo..hi

Asked(op, S) == {[op |-> op, obj |-> x] : x \in S}

LEMMA PieceEach ==
    ASSUME NEW op \in Operation, NEW S, S \subseteq Object, NEW k \in Nat,
           \A x \in S : x # site /\ Rank([op |-> op, obj |-> x]) = k
    PROVE Piece(Each(op, S), k, k, Asked(op, S))
<1> DEFINE s == Each(op, S)
<1>1. s \in Seq(Call) /\ Calls(s) = Asked(op, S)
  BY EachOf DEF Asked
<1> HIDE DEF s
<1>2. \A q \in Calls(s) : Rank(q) = k /\ q.obj # site
  BY <1>1 DEF Asked
<1>3. \A i \in DOMAIN s : s[i] \in Calls(s)
  BY DEF Calls
<1>4. Ordered(s)
  BY <1>2, <1>3 DEF Ordered, Precedes
<1>5. Piece(s, k, k, Asked(op, S))
  BY <1>1, <1>2, <1>4 DEF Piece
<1> QED
  BY <1>5 DEF s

LEMMA PieceOne ==
    ASSUME NEW op \in Operation, NEW x \in Object, NEW k \in Nat, Rank([op |-> op, obj |-> x]) = k
    PROVE Piece(One(op, x), k, k, {[op |-> op, obj |-> x]})
<1>1. One(op, x) \in Seq(Call) /\ Calls(One(op, x)) = {[op |-> op, obj |-> x]}
  BY OneFacts
<1>2. Ordered(One(op, x))
  BY DEF Ordered, One
<1> QED
  BY <1>1, <1>2 DEF Piece

LEMMA PieceEmpty ==
    ASSUME NEW lo, NEW hi
    PROVE Piece(<<>>, lo, hi, {})
BY EmptyFacts DEF Piece

LEMMA PieceConcat ==
    ASSUME NEW a \in Nat, NEW b \in Nat, NEW c \in Nat, NEW d \in Nat, a <= b, b <= c, c <= d,
           NEW s, NEW t, NEW P, NEW Q, Piece(s, a, b, P), Piece(t, c, d, Q),
           b < c \/ \A q \in P : Rank(q) = b => q.obj # site
    PROVE Piece(s \o t, a, d, P \cup Q)
<1>1. s \in Seq(Call) /\ t \in Seq(Call) /\ Calls(s) = P /\ Calls(t) = Q /\ Ordered(s) /\ Ordered(t)
  BY DEF Piece
<1>2. s \o t \in Seq(Call) /\ Calls(s \o t) = P \cup Q
  BY <1>1, CallsConcat
<1>3. \A p \in P, q \in Q : Precedes(p, q)
  BY DEF Piece, Precedes
<1>4. Ordered(s \o t)
  BY <1>1, <1>3, OrderedConcat
<1>5. \A q \in P \cup Q : Rank(q) \in a..d
  BY DEF Piece
<1> QED
  BY <1>2, <1>4, <1>5 DEF Piece

LEMMA Wants ==
    ASSUME template \in Versions
    PROVE /\ Template(template) \subseteq Devices /\ CablesOf(template) \subseteq Cables
          /\ \A c \in CablesOf(template) : Ends[c] \subseteq Template(template)
          /\ template = <<1, 0>> => Template(template) \cap New = {}
BY SiteAssumption DEF Template, CablesOf

LEMMA AskedFacts ==
    ASSUME NEW op, NEW S
    PROVE {q.obj : q \in Asked(op, S)} = S /\ \A q \in Asked(op, S) : q.op = op /\ q.obj \in S
<1>1. \A q \in Asked(op, S) : q.op = op /\ q.obj \in S
  BY DEF Asked
<1>2. ASSUME NEW x \in S PROVE x \in {q.obj : q \in Asked(op, S)}
  <2> DEFINE q == [op |-> op, obj |-> x]
  <2>1. q \in Asked(op, S) /\ q.obj = x
    BY DEF Asked
  <2> QED
    BY <2>1
<1> QED
  BY <1>1, <1>2

LEMMA DepthOf ==
    ASSUME NEW x
    PROVE /\ x[1] = "custom_fields" => Depth(x) = 1
          /\ x[1] = "type" => Depth(x) = 2
          /\ x[1] = "site" => Depth(x) = 3
          /\ x[1] \in {"rack", "group"} => Depth(x) = 4
          /\ x[1] \in {"vlan", "prefix", "device"} => Depth(x) = 5
          /\ x[1] = "iface" => Depth(x) = 6
          /\ x[1] = "cable" => Depth(x) = 7
          /\ x[1] = "cluster" => Depth(x) = 8
          /\ x[1] = "member" => Depth(x) = 9
<1>1. x[1] = "custom_fields" => Depth(x) = 1
  BY DEF Depth
<1>2. x[1] = "type" => Depth(x) = 2
  BY DEF Depth
<1>3. x[1] = "site" => Depth(x) = 3
  BY DEF Depth
<1>4. x[1] \in {"rack", "group"} => Depth(x) = 4
  BY DEF Depth
<1>5. x[1] \in {"vlan", "prefix", "device"} => Depth(x) = 5
  BY DEF Depth
<1>6. x[1] = "iface" => Depth(x) = 6
  BY DEF Depth
<1>7. x[1] = "cable" => Depth(x) = 7
  BY DEF Depth
<1>8. x[1] = "cluster" => Depth(x) = 8
  BY DEF Depth
<1>9. x[1] = "member" => Depth(x) = 9
  BY DEF Depth
<1> QED
  BY <1>1, <1>2, <1>3, <1>4, <1>5, <1>6, <1>7, <1>8, <1>9

\* The pieces of the generator and of fix.
LEMMA MadeEach ==
    ASSUME NEW op \in {"ensure", "fix", "noop"}, NEW S, S \subseteq Object, NEW k \in Nat,
           \A x \in S : x # site /\ Depth(x) = k
    PROVE Piece(Each(op, S), k, k, Asked(op, S))
<1>1. ASSUME NEW x \in S PROVE Rank([op |-> op, obj |-> x]) = k
  BY DEF Rank
<1> QED
  BY <1>1, PieceEach DEF Operation

LEMMA MadeOne ==
    ASSUME NEW op \in {"ensure", "create", "fix"}, NEW x \in Object, NEW k \in Nat, Depth(x) = k
    PROVE Piece(One(op, x), k, k, Asked(op, {x}))
<1>1. Rank([op |-> op, obj |-> x]) = k
  BY DEF Rank
<1>2. Piece(One(op, x), k, k, {[op |-> op, obj |-> x]})
  BY <1>1, PieceOne DEF Operation
<1>3. Asked(op, {x}) = {[op |-> op, obj |-> x]}
  BY DEF Asked
<1> QED
  BY <1>2, <1>3

LEMMA GenerateFacts ==
    ASSUME NEW x \in Octets, template \in Versions
    PROVE /\ Generate(x) \in Seq(Call) /\ Ordered(Generate(x))
          /\ Objs(Generate(x)) = Plan(x)
          /\ \A q \in Calls(Generate(x)) : q.op = (IF q.obj = site THEN "create" ELSE "ensure")
<1> DEFINE C1 == Asked("ensure", {custom_fields})
           C2 == Asked("ensure", {Type(d) : d \in Template(template)})
           C3 == Asked("create", {site})
           C4 == Asked("ensure", {rack})
           C5 == Asked("ensure", {group})
           C6 == Asked("ensure", {Vlan(v) : v \in Vlans})
           C7 == Asked("ensure", PrefixesOf(x))
           C8 == Asked("ensure", {Device(d) : d \in Template(template)})
           C9 == Asked("ensure", Ifaces(CablesOf(template)))
           C10 == Asked("ensure", {Cable(c) : c \in CablesOf(template)})
           C11 == Asked("ensure", {cluster})
           C12 == Asked("ensure", {Member(d) : d \in Compute \cap Template(template)})
<1>1. Piece(EnsureCustomFields, 1, 1, C1)
  BY MadeOne, AreObjects, DepthOf, Tags DEF EnsureCustomFields
<1>2. Piece(EnsureTypes, 2, 2, C2)
  <2> DEFINE S == {Type(d) : d \in Template(template)}
  <2>1. S \subseteq Object /\ \A y \in S : y[1] = "type"
    BY Wants, AreObjects
  <2> HIDE DEF S
  <2>2. \A y \in S : y # site /\ Depth(y) = 2
    BY <2>1, Tags, DepthOf
  <2>3. Piece(Each("ensure", S), 2, 2, Asked("ensure", S))
    BY <2>1, <2>2, MadeEach
  <2> QED
    BY <2>3 DEF S, EnsureTypes
<1>3. Piece(CreateSite, 3, 3, C3)
  BY MadeOne, AreObjects, DepthOf, Tags DEF CreateSite
<1>4. Piece(CreateRack, 4, 4, C4)
  BY MadeOne, AreObjects, DepthOf, Tags DEF CreateRack
<1>5. Piece(One("ensure", group), 4, 4, C5)
  BY MadeOne, AreObjects, DepthOf, Tags
<1>6. Piece(Each("ensure", {Vlan(v) : v \in Vlans}), 5, 5, C6)
  <2> DEFINE S == {Vlan(v) : v \in Vlans}
  <2>1. S \subseteq Object /\ \A y \in S : y[1] = "vlan"
    BY AreObjects, Tags
  <2> HIDE DEF S
  <2>2. \A y \in S : y # site /\ Depth(y) = 5
    BY <2>1, Tags, DepthOf
  <2>3. Piece(Each("ensure", S), 5, 5, Asked("ensure", S))
    BY <2>1, <2>2, MadeEach
  <2> QED
    BY <2>3 DEF S
<1>7. Piece(CreatePrefixes(x), 5, 5, C7)
  <2> DEFINE S == PrefixesOf(x)
  <2>1. S \subseteq Object /\ \A y \in S : y[1] = "prefix"
    BY AreObjects, Tags DEF PrefixesOf
  <2> HIDE DEF S
  <2>2. \A y \in S : y # site /\ Depth(y) = 5
    BY <2>1, Tags, DepthOf
  <2>3. Piece(Each("ensure", S), 5, 5, Asked("ensure", S))
    BY <2>1, <2>2, MadeEach
  <2> QED
    BY <2>3 DEF S, CreatePrefixes
<1>8. Piece(CreateDevices, 5, 5, C8)
  <2> DEFINE S == {Device(d) : d \in Template(template)}
  <2>1. S \subseteq Object /\ \A y \in S : y[1] = "device"
    BY Wants, AreObjects, Tags
  <2> HIDE DEF S
  <2>2. \A y \in S : y # site /\ Depth(y) = 5
    BY <2>1, Tags, DepthOf
  <2>3. Piece(Each("ensure", S), 5, 5, Asked("ensure", S))
    BY <2>1, <2>2, MadeEach
  <2> QED
    BY <2>3 DEF S, CreateDevices
<1>9. Piece(CreateInterfaces, 6, 6, C9)
  <2> DEFINE S == Ifaces(CablesOf(template))
  <2>1. ASSUME NEW y \in S PROVE y \in Object /\ y[1] = "iface"
    <3>1. PICK c \in CablesOf(template) : \E d \in Ends[c] : y = Iface(d, c)
      BY DEF Ifaces
    <3>2. PICK d \in Ends[c] : y = Iface(d, c)
      BY <3>1
    <3> QED
      BY <3>2, Wants, AreObjects, Tags
  <2> HIDE DEF S
  <2>2. \A y \in S : y # site /\ Depth(y) = 6
    BY <2>1, Tags, DepthOf
  <2>3. Piece(Each("ensure", S), 6, 6, Asked("ensure", S))
    BY <2>1, <2>2, MadeEach
  <2>4. CreateInterfaces = Each("ensure", S)
    BY DEF S, CreateInterfaces, Ifaces
  <2> QED
    BY <2>3, <2>4 DEF S
<1>10. Piece(CreateCables, 7, 7, C10)
  <2> DEFINE S == {Cable(c) : c \in CablesOf(template)}
  <2>1. S \subseteq Object /\ \A y \in S : y[1] = "cable"
    BY Wants, AreObjects, Tags
  <2> HIDE DEF S
  <2>2. \A y \in S : y # site /\ Depth(y) = 7
    BY <2>1, Tags, DepthOf
  <2>3. Piece(Each("ensure", S), 7, 7, Asked("ensure", S))
    BY <2>1, <2>2, MadeEach
  <2> QED
    BY <2>3 DEF S, CreateCables
<1>11. Piece(One("ensure", cluster), 8, 8, C11)
  BY MadeOne, AreObjects, DepthOf, Tags
<1>12. Piece(Each("ensure", {Member(d) : d \in Compute \cap Template(template)}), 9, 9, C12)
  <2> DEFINE S == {Member(d) : d \in Compute \cap Template(template)}
  <2>1. S \subseteq Object /\ \A y \in S : y[1] = "member"
    BY Wants, AreObjects, Tags
  <2> HIDE DEF S
  <2>2. \A y \in S : y # site /\ Depth(y) = 9
    BY <2>1, Tags, DepthOf
  <2>3. Piece(Each("ensure", S), 9, 9, Asked("ensure", S))
    BY <2>1, <2>2, MadeEach
  <2> QED
    BY <2>3 DEF S
<1>13. \A q \in C1 \cup C2 \cup C3 \cup C4 \cup C5 \cup C6 \cup C7 \cup C8 : q.obj = site => Rank(q) = 3
  <2>1. Depth(site) = 3
    BY Tags DEF Depth
  <2> QED
    BY <2>1 DEF Asked, Rank
<1> HIDE DEF C1, C2, C3, C4, C5, C6, C7, C8, C9, C10, C11, C12
<1>21. Piece(CreateVlans, 4, 5, C5 \cup C6)
  BY <1>5, <1>6, PieceConcat DEF CreateVlans
<1>22. Piece(CreateCluster, 8, 9, C11 \cup C12)
  BY <1>11, <1>12, PieceConcat DEF CreateCluster
<1> DEFINE g2 == EnsureCustomFields \o EnsureTypes
           g3 == g2 \o CreateSite
           g4 == g3 \o CreateRack
           g5 == g4 \o CreateVlans
           g6 == g5 \o CreatePrefixes(x)
           g7 == g6 \o CreateDevices
           g8 == g7 \o CreateInterfaces
           g9 == g8 \o CreateCables
           g10 == g9 \o CreateCluster
<1>23. Piece(g2, 1, 2, C1 \cup C2)
  BY <1>1, <1>2, PieceConcat
<1>24. Piece(g3, 1, 3, C1 \cup C2 \cup C3)
  BY <1>3, <1>23, PieceConcat
<1>25. Piece(g4, 1, 4, C1 \cup C2 \cup C3 \cup C4)
  BY <1>4, <1>24, PieceConcat
<1>26. Piece(g5, 1, 5, C1 \cup C2 \cup C3 \cup C4 \cup (C5 \cup C6))
  <2>1. \A q \in C1 \cup C2 \cup C3 \cup C4 : Rank(q) = 4 => q.obj # site
    BY <1>13
  <2> HIDE DEF g4
  <2> QED
    BY <1>21, <1>25, <2>1, PieceConcat
<1>27. Piece(g6, 1, 5, C1 \cup C2 \cup C3 \cup C4 \cup (C5 \cup C6) \cup C7)
  <2>1. \A q \in C1 \cup C2 \cup C3 \cup C4 \cup (C5 \cup C6) : Rank(q) = 5 => q.obj # site
    BY <1>13
  <2> HIDE DEF g5
  <2> QED
    BY <1>7, <1>26, <2>1, PieceConcat
<1>28. Piece(g7, 1, 5, C1 \cup C2 \cup C3 \cup C4 \cup (C5 \cup C6) \cup C7 \cup C8)
  <2>1. \A q \in C1 \cup C2 \cup C3 \cup C4 \cup (C5 \cup C6) \cup C7 : Rank(q) = 5 => q.obj # site
    BY <1>13
  <2> HIDE DEF g6
  <2> QED
    BY <1>8, <1>27, <2>1, PieceConcat
<1>29. Piece(g8, 1, 6, C1 \cup C2 \cup C3 \cup C4 \cup (C5 \cup C6) \cup C7 \cup C8 \cup C9)
  <2> HIDE DEF g7
  <2> QED
    BY <1>9, <1>28, PieceConcat
<1>30. Piece(g9, 1, 7, C1 \cup C2 \cup C3 \cup C4 \cup (C5 \cup C6) \cup C7 \cup C8 \cup C9 \cup C10)
  <2> HIDE DEF g8
  <2> QED
    BY <1>10, <1>29, PieceConcat
<1>31. Piece(g10, 1, 9, C1 \cup C2 \cup C3 \cup C4 \cup (C5 \cup C6) \cup C7 \cup C8 \cup C9 \cup C10
                        \cup (C11 \cup C12))
  <2> HIDE DEF g9
  <2> QED
    BY <1>22, <1>30, PieceConcat
<1>32. Generate(x) = g10
  BY DEF Generate
<1> HIDE DEF g2, g3, g4, g5, g6, g7, g8, g9, g10
<1>33. Generate(x) \in Seq(Call) /\ Ordered(Generate(x))
  BY <1>31, <1>32 DEF Piece
<1>34. Calls(Generate(x)) = C1 \cup C2 \cup C3 \cup C4 \cup (C5 \cup C6) \cup C7 \cup C8 \cup C9 \cup C10
                            \cup (C11 \cup C12)
  BY <1>31, <1>32 DEF Piece
<1>35. Objs(Generate(x)) = Plan(x)
  <2>4. /\ {q.obj : q \in C1} = {custom_fields} /\ {q.obj : q \in C3} = {site} /\ {q.obj : q \in C4} = {rack}
        /\ {q.obj : q \in C5} = {group} /\ {q.obj : q \in C11} = {cluster}
        /\ {q.obj : q \in C2} = {Type(d) : d \in Template(template)}
        /\ {q.obj : q \in C6} = {Vlan(v) : v \in Vlans}
        /\ {q.obj : q \in C7} = PrefixesOf(x)
        /\ {q.obj : q \in C8} = {Device(d) : d \in Template(template)}
        /\ {q.obj : q \in C9} = Ifaces(CablesOf(template))
        /\ {q.obj : q \in C10} = {Cable(c) : c \in CablesOf(template)}
        /\ {q.obj : q \in C12} = {Member(d) : d \in Compute \cap Template(template)}
    BY AskedFacts DEF C1, C2, C3, C4, C5, C6, C7, C8, C9, C10, C11, C12
  <2>5. Objs(Generate(x)) =
           {q.obj : q \in C1} \cup {q.obj : q \in C2} \cup {q.obj : q \in C3} \cup {q.obj : q \in C4}
           \cup {q.obj : q \in C5} \cup {q.obj : q \in C6} \cup {q.obj : q \in C7} \cup {q.obj : q \in C8}
           \cup {q.obj : q \in C9} \cup {q.obj : q \in C10} \cup {q.obj : q \in C11} \cup {q.obj : q \in C12}
    BY <1>34 DEF Objs
  <2> QED
    BY <2>4, <2>5 DEF Plan
<1>36. ASSUME NEW q \in Calls(Generate(x)) PROVE q.op = (IF q.obj = site THEN "create" ELSE "ensure")
  <2>1. CASE q \in C3
    BY <2>1, AskedFacts DEF C3
  <2>2. CASE q \notin C3
    <3>1. q.op = "ensure"
      BY <1>34, <2>2 DEF Asked, C1, C2, C3, C4, C5, C6, C7, C8, C9, C10, C11, C12
    <3>2. q.obj # site
      <4>1. \A y \in {Type(d) : d \in Template(template)} : y # site
        BY Wants, AreObjects, Tags
      <4>2. \A y \in Ifaces(CablesOf(template)) : y # site
        BY Tags DEF Ifaces
      <4> QED
        BY <1>34, <2>2, <4>1, <4>2, Tags
        DEF Asked, PrefixesOf, C1, C2, C3, C4, C5, C6, C7, C8, C9, C10, C11, C12
    <3> QED
      BY <3>1, <3>2
  <2> QED
    BY <2>1, <2>2
<1> QED
  BY <1>33, <1>35, <1>36

ClusterCalls ==
    IF cluster \in nb THEN {}
    ELSE Asked("fix", {cluster}) \cup Asked("fix", {Member(d) : d \in Compute \cap Template(template)})

DriftCalls ==
    (IF field.version # template THEN {VersionCall} ELSE {})
    \cup (Asked("fix", {Device(d) : d \in Template(template)} \ nb) \cup Asked("noop", {Device(d) : d \in wrong}))
    \cup Asked("fix", {Vlan(v) : v \in Vlans} \ nb) \cup Asked("fix", PrefixesOf("default") \ nb)
    \cup Asked("fix", {Cable(c) : c \in CablesOf(template)} \ nb) \cup ClusterCalls

LEMMA DriftFacts ==
    ASSUME SiteType
    PROVE Piece(Drift, 0, 9, DriftCalls)
<1> DEFINE V == IF field.version # template THEN {VersionCall} ELSE {}
           D == Asked("fix", {Device(d) : d \in Template(template)} \ nb)
           N == Asked("noop", {Device(d) : d \in wrong})
           L == Asked("fix", {Vlan(v) : v \in Vlans} \ nb)
           P == Asked("fix", PrefixesOf("default") \ nb)
           C == Asked("fix", {Cable(c) : c \in CablesOf(template)} \ nb)
<1>0. template \in Versions /\ wrong \subseteq Devices
  BY DEF SiteType
<1>1. Piece(DiffVersion, 0, 0, V)
  <2>1. CASE field.version # template
    <3>1. Rank(VersionCall) = 0
      BY DEF Rank, VersionCall
    <3>2. Piece(One("version", site), 0, 0, {VersionCall})
      BY <3>1, PieceOne, AreObjects DEF VersionCall, Operation
    <3> QED
      BY <2>1, <3>2 DEF DiffVersion
  <2>2. CASE field.version = template
    BY <2>2, PieceEmpty DEF DiffVersion
  <2> QED
    BY <2>1, <2>2
<1>2. Piece(DiffDevices, 5, 5, D \cup N)
  <2> DEFINE S == {Device(d) : d \in Template(template)} \ nb
             W == {Device(d) : d \in wrong}
  <2>1. S \subseteq Object /\ W \subseteq Object /\ \A y \in S \cup W : y[1] = "device"
    BY <1>0, Wants, AreObjects, Tags
  <2> HIDE DEF S, W
  <2>2. \A y \in S \cup W : y # site /\ Depth(y) = 5
    BY <2>1, Tags, DepthOf
  <2>3. Piece(Each("fix", S), 5, 5, Asked("fix", S)) /\ Piece(Each("noop", W), 5, 5, Asked("noop", W))
    BY <2>1, <2>2, MadeEach
  <2>4. \A q \in Asked("fix", S) : q.obj # site
    BY <2>2, AskedFacts
  <2>5. Piece(Each("fix", S) \o Each("noop", W), 5, 5, Asked("fix", S) \cup Asked("noop", W))
    BY <2>3, <2>4, PieceConcat
  <2> QED
    BY <2>5 DEF S, W, DiffDevices
<1>3. Piece(DiffVlans, 5, 5, L)
  <2> DEFINE S == {Vlan(v) : v \in Vlans} \ nb
  <2>1. S \subseteq Object /\ \A y \in S : y[1] = "vlan"
    BY AreObjects, Tags
  <2> HIDE DEF S
  <2>2. \A y \in S : y # site /\ Depth(y) = 5
    BY <2>1, Tags, DepthOf
  <2>3. Piece(Each("fix", S), 5, 5, Asked("fix", S))
    BY <2>1, <2>2, MadeEach
  <2> QED
    BY <2>3 DEF S, DiffVlans
<1>4. Piece(DiffPrefixes, 5, 5, P)
  <2> DEFINE S == PrefixesOf("default") \ nb
  <2>1. S \subseteq Object /\ \A y \in S : y[1] = "prefix"
    BY AreObjects, Tags DEF PrefixesOf, Octets
  <2> HIDE DEF S
  <2>2. \A y \in S : y # site /\ Depth(y) = 5
    BY <2>1, Tags, DepthOf
  <2>3. Piece(Each("fix", S), 5, 5, Asked("fix", S))
    BY <2>1, <2>2, MadeEach
  <2> QED
    BY <2>3 DEF S, DiffPrefixes
<1>5. Piece(DiffCables, 7, 7, C)
  <2> DEFINE S == {Cable(c) : c \in CablesOf(template)} \ nb
  <2>1. S \subseteq Object /\ \A y \in S : y[1] = "cable"
    BY <1>0, Wants, AreObjects, Tags
  <2> HIDE DEF S
  <2>2. \A y \in S : y # site /\ Depth(y) = 7
    BY <2>1, Tags, DepthOf
  <2>3. Piece(Each("fix", S), 7, 7, Asked("fix", S))
    BY <2>1, <2>2, MadeEach
  <2> QED
    BY <2>3 DEF S, DiffCables
<1>6. Piece(DiffCluster, 8, 9, ClusterCalls)
  <2>1. CASE cluster \in nb
    BY <2>1, PieceEmpty DEF DiffCluster, ClusterCalls
  <2>2. CASE cluster \notin nb
    <3> DEFINE S == {Member(d) : d \in Compute \cap Template(template)}
    <3>1. S \subseteq Object /\ \A y \in S : y[1] = "member"
      BY <1>0, Wants, AreObjects, Tags
    <3> HIDE DEF S
    <3>2. \A y \in S : y # site /\ Depth(y) = 9
      BY <3>1, Tags, DepthOf
    <3>3. Piece(Each("fix", S), 9, 9, Asked("fix", S))
      BY <3>1, <3>2, MadeEach
    <3>4. Piece(One("fix", cluster), 8, 8, Asked("fix", {cluster}))
      BY MadeOne, AreObjects, DepthOf, Tags
    <3>5. Piece(One("fix", cluster) \o Each("fix", S), 8, 9, Asked("fix", {cluster}) \cup Asked("fix", S))
      BY <3>3, <3>4, PieceConcat
    <3> QED
      BY <2>2, <3>5 DEF S, DiffCluster, ClusterCalls
  <2> QED
    BY <2>1, <2>2
<1>7. \A q \in V \cup (D \cup N) \cup L \cup P : Rank(q) = 5 => q.obj # site
  <2>1. \A q \in D \cup N : q.obj # site
    BY AskedFacts, Tags
  <2>2. \A q \in L \cup P : q.obj # site
    BY AskedFacts, Tags DEF PrefixesOf
  <2>3. \A q \in V : Rank(q) = 0
    BY DEF Rank, VersionCall
  <2> HIDE DEF V, D, N, L, P
  <2> QED
    BY <2>1, <2>2, <2>3
<1> HIDE DEF V, D, N, L, P, C
<1> DEFINE d2 == DiffVersion \o DiffDevices
           d3 == d2 \o DiffVlans
           d4 == d3 \o DiffPrefixes
           d5 == d4 \o DiffCables
<1>11. Piece(d2, 0, 5, V \cup (D \cup N))
  BY <1>1, <1>2, PieceConcat
<1>12. Piece(d3, 0, 5, V \cup (D \cup N) \cup L)
  <2>1. \A q \in V \cup (D \cup N) : Rank(q) = 5 => q.obj # site
    BY <1>7
  <2> HIDE DEF d2
  <2> QED
    BY <1>3, <1>11, <2>1, PieceConcat
<1>13. Piece(d4, 0, 5, V \cup (D \cup N) \cup L \cup P)
  <2>1. \A q \in V \cup (D \cup N) \cup L : Rank(q) = 5 => q.obj # site
    BY <1>7
  <2> HIDE DEF d3
  <2> QED
    BY <1>4, <1>12, <2>1, PieceConcat
<1>14. Piece(d5, 0, 7, V \cup (D \cup N) \cup L \cup P \cup C)
  <2> HIDE DEF d4
  <2> QED
    BY <1>5, <1>13, PieceConcat
<1>15. Piece(d5 \o DiffCluster, 0, 9, V \cup (D \cup N) \cup L \cup P \cup C \cup ClusterCalls)
  <2> HIDE DEF d5
  <2> QED
    BY <1>6, <1>14, PieceConcat
<1>16. DriftCalls = V \cup (D \cup N) \cup L \cup P \cup C \cup ClusterCalls
  BY DEF DriftCalls, V, D, N, L, P, C
<1> QED
  BY <1>15, <1>16 DEF Drift

LEMMA FixFacts ==
    ASSUME SiteType, Closed, site \in nb
    PROVE /\ Fix \in Seq(Call) /\ Ordered(Fix) /\ FixCalls(Fix)
          /\ Fix # <<>> => SyncCall \in Calls(Fix)
          /\ field.version # template => VersionCall \in Calls(Fix)
          /\ Basic \cup PrefixesOf("default") \subseteq nb \cup Objs(Fix)
          /\ \A d : Device(d) \in Objs(Fix) => Device(d) \in nb \/ d \in Template(template)
<1>1. Piece(Drift, 0, 9, DriftCalls)
  BY DriftFacts
<1>2. Rank(SyncCall) = 10 /\ SyncCall.obj = site
  BY DEF Rank, SyncCall
<1>3. Piece(One("sync", site), 10, 10, {SyncCall})
  BY <1>2, PieceOne, AreObjects DEF SyncCall, Operation
<1>4. Piece(Drift \o One("sync", site), 0, 10, DriftCalls \cup {SyncCall})
  BY <1>1, <1>3, PieceConcat
<1>5. /\ Fix \in Seq(Call) /\ Ordered(Fix) /\ DriftCalls \subseteq Calls(Fix)
      /\ Calls(Fix) \subseteq DriftCalls \cup {SyncCall} /\ (Fix # <<>> => SyncCall \in Calls(Fix))
  <2>1. CASE Drift = <<>>
    <3>1. Fix = <<>> /\ DriftCalls = {}
      BY <1>1, <2>1, EmptyFacts DEF Fix, Piece
    <3> QED
      BY <3>1, EmptyFacts
  <2>2. CASE Drift # <<>>
    BY <1>4, <2>2 DEF Fix, Piece
  <2> QED
    BY <2>1, <2>2
<1> DEFINE A == {Device(d) : d \in Template(template)}
           W == {Device(d) : d \in wrong}
           B == {Vlan(v) : v \in Vlans}
           C == {Cable(c) : c \in CablesOf(template)}
           M == {Member(d) : d \in Compute \cap Template(template)}
<1>6. template \in Versions /\ W \subseteq nb
  BY DEF SiteType, Closed
<1>7. A \cup B \cup C \cup M \cup PrefixesOf("default") \cup {cluster} \subseteq {x \in Object : x[1] \notin {"site", "type", "rack"}}
  <2>1. \A x \in A \cup M \cup C : x \in Object /\ x[1] \notin {"site", "type", "rack"}
    BY <1>6, Wants, AreObjects, Tags
  <2>2. \A x \in B \cup PrefixesOf("default") \cup {cluster} : x \in Object /\ x[1] \notin {"site", "type", "rack"}
    BY AreObjects, Tags DEF PrefixesOf, Octets
  <2> QED
    BY <2>1, <2>2
<1>8. /\ \A q \in DriftCalls : \/ q = VersionCall
                               \/ q.op = "noop" /\ q.obj \in W
                               \/ q.op = "fix" /\ q.obj \in A \cup B \cup C \cup M \cup PrefixesOf("default") \cup {cluster}
      /\ field.version # template => VersionCall \in DriftCalls
  <2>1. \A q \in ClusterCalls : q.op = "fix" /\ q.obj \in M \cup {cluster}
    BY AskedFacts DEF ClusterCalls
  <2> HIDE DEF A, B, C, M, W
  <2>2. DriftCalls = (IF field.version # template THEN {VersionCall} ELSE {})
                     \cup (Asked("fix", A \ nb) \cup Asked("noop", W)) \cup Asked("fix", B \ nb)
                     \cup Asked("fix", PrefixesOf("default") \ nb) \cup Asked("fix", C \ nb) \cup ClusterCalls
    BY DEF DriftCalls, A, B, C, W
  <2>3. /\ \A q \in Asked("fix", A \ nb) : q.op = "fix" /\ q.obj \in A
        /\ \A q \in Asked("fix", B \ nb) : q.op = "fix" /\ q.obj \in B
        /\ \A q \in Asked("fix", C \ nb) : q.op = "fix" /\ q.obj \in C
        /\ \A q \in Asked("fix", PrefixesOf("default") \ nb) : q.op = "fix" /\ q.obj \in PrefixesOf("default")
        /\ \A q \in Asked("noop", W) : q.op = "noop" /\ q.obj \in W
    BY AskedFacts
  <2> QED
    BY <2>1, <2>2, <2>3
<1>9. (A \cup B \cup C \cup PrefixesOf("default") \cup {cluster}) \ nb \subseteq Objs(Fix)
  <2>1. \A op, S : Asked(op, S) \subseteq DriftCalls => S \subseteq Objs(Fix)
    <3> SUFFICES ASSUME NEW op, NEW S, Asked(op, S) \subseteq DriftCalls PROVE S \subseteq Objs(Fix)
      OBVIOUS
    <3>1. {q.obj : q \in Asked(op, S)} = S /\ Asked(op, S) \subseteq Calls(Fix)
      BY <1>5, AskedFacts
    <3> QED
      BY <3>1 DEF Objs
  <2> HIDE DEF A, B, C
  <2>2. /\ Asked("fix", A \ nb) \subseteq DriftCalls /\ Asked("fix", B \ nb) \subseteq DriftCalls
        /\ Asked("fix", C \ nb) \subseteq DriftCalls /\ Asked("fix", PrefixesOf("default") \ nb) \subseteq DriftCalls
    BY DEF DriftCalls, A, B, C
  <2>3. cluster \notin nb => Asked("fix", {cluster}) \subseteq DriftCalls
    BY DEF DriftCalls, ClusterCalls
  <2>4. cluster \notin nb => {cluster} \subseteq Objs(Fix)
    BY <2>1, <2>3
  <2>5. A \ nb \subseteq Objs(Fix) /\ B \ nb \subseteq Objs(Fix) /\ C \ nb \subseteq Objs(Fix)
        /\ PrefixesOf("default") \ nb \subseteq Objs(Fix)
    BY <2>1, <2>2
  <2> QED
    BY <2>4, <2>5
<1>10. Basic = {cluster} \cup A \cup B \cup C
  BY DEF Basic
<1>11. ASSUME NEW d, Device(d) \in Objs(Fix) PROVE Device(d) \in nb \/ d \in Template(template)
  <2>1. PICK q \in Calls(Fix) : q.obj = Device(d)
    BY <1>11 DEF Objs
  <2>2. CASE q \in {VersionCall, SyncCall}
    BY <2>1, <2>2, Tags DEF VersionCall, SyncCall
  <2>3. CASE q.obj \in W
    BY <1>6, <2>1, <2>3
  <2>4. CASE q.obj \in A
    BY <2>1, <2>4, Tags
  <2>5. CASE q.obj \in B \cup C \cup M \cup PrefixesOf("default") \cup {cluster}
    BY <2>1, <2>5, Tags DEF PrefixesOf
  <2> QED
    BY <1>5, <1>8, <2>1, <2>2, <2>3, <2>4, <2>5
<1> HIDE DEF A, B, C, M, W
<1>12. FixCalls(Fix)
  BY <1>5, <1>6, <1>7, <1>8 DEF FixCalls
<1> QED
  BY <1>5, <1>8, <1>9, <1>10, <1>11, <1>12

LEMMA KindsFacts ==
    ASSUME NEW ks, nb \subseteq Object
    PROVE Kinds(ks) \subseteq Object /\ Kinds(ks) \subseteq nb /\ \A x \in Kinds(ks) : x[1] \in ks
BY DEF Kinds

LEMMA TriedEach ==
    ASSUME NEW ks, ks \subseteq Owned, NEW k \in Nat, nb \subseteq Object,
           \A x : x[1] \in ks => Turn(x) = k
    PROVE Piece(Each("try", Kinds(ks)), k, k, Asked("try", Kinds(ks)))
<1>1. Kinds(ks) \subseteq Object /\ \A x \in Kinds(ks) : x[1] \in ks
  BY KindsFacts
<1>2. ASSUME NEW x \in Kinds(ks) PROVE x # site /\ Rank([op |-> "try", obj |-> x]) = k
  BY <1>1, Tags DEF Rank, Owned
<1> QED
  BY <1>1, <1>2, PieceEach DEF Operation

LEMMA DestroyFacts ==
    ASSUME SiteType
    PROVE /\ Destroy \in Seq(Call) /\ Ordered(Destroy)
          /\ \A q \in Calls(Destroy) : q = DeleteCall \/ (q.op = "try" /\ q.obj \in Kinds(Owned))
          /\ DeleteCall \in Calls(Destroy)
          /\ \A x \in Kinds(Owned) : TryCall(x) \in Calls(Destroy)
<1> DEFINE T(ks) == Asked("try", Kinds(ks))
           G == {"group", "rack", "cluster"}
<1>0. nb \subseteq Object
  BY DEF SiteType
<1>1. Piece(Each("try", Kinds({"cable"})), 1, 1, T({"cable"}))
  BY <1>0, TriedEach DEF Turn, Owned
<1>2. Piece(Each("try", Kinds({"iface"})), 2, 2, T({"iface"}))
  BY <1>0, TriedEach DEF Turn, Owned
<1>3. Piece(Each("try", Kinds({"device"})), 3, 3, T({"device"}))
  BY <1>0, TriedEach DEF Turn, Owned
<1>4. Piece(Each("try", Kinds({"prefix"})), 4, 4, T({"prefix"}))
  BY <1>0, TriedEach DEF Turn, Owned
<1>5. Piece(Each("try", Kinds({"vlan"})), 5, 5, T({"vlan"}))
  BY <1>0, TriedEach DEF Turn, Owned
<1>6. Piece(Each("try", Kinds(G)), 6, 6, T(G))
  BY <1>0, TriedEach DEF Turn, Owned
<1>7. Piece(One("delete", site), 7, 7, {DeleteCall})
  <2>1. Rank(DeleteCall) = 7
    BY Tags DEF Rank, Turn, DeleteCall
  <2> QED
    BY <2>1, PieceOne, AreObjects DEF DeleteCall, Operation
<1> HIDE DEF T, G
<1> DEFINE d2 == Each("try", Kinds({"cable"})) \o Each("try", Kinds({"iface"}))
           d3 == d2 \o Each("try", Kinds({"device"}))
           d4 == d3 \o Each("try", Kinds({"prefix"}))
           d5 == d4 \o Each("try", Kinds({"vlan"}))
           d6 == d5 \o Each("try", Kinds(G))
<1>11. Piece(d2, 1, 2, T({"cable"}) \cup T({"iface"}))
  BY <1>1, <1>2, PieceConcat
<1>12. Piece(d3, 1, 3, T({"cable"}) \cup T({"iface"}) \cup T({"device"}))
  <2> HIDE DEF d2
  <2> QED
    BY <1>3, <1>11, PieceConcat
<1>13. Piece(d4, 1, 4, T({"cable"}) \cup T({"iface"}) \cup T({"device"}) \cup T({"prefix"}))
  <2> HIDE DEF d3
  <2> QED
    BY <1>4, <1>12, PieceConcat
<1>14. Piece(d5, 1, 5, T({"cable"}) \cup T({"iface"}) \cup T({"device"}) \cup T({"prefix"}) \cup T({"vlan"}))
  <2> HIDE DEF d4
  <2> QED
    BY <1>5, <1>13, PieceConcat
<1>15. Piece(d6, 1, 6, T({"cable"}) \cup T({"iface"}) \cup T({"device"}) \cup T({"prefix"}) \cup T({"vlan"}) \cup T(G))
  <2> HIDE DEF d5
  <2> QED
    BY <1>6, <1>14, PieceConcat
<1>16. Piece(d6 \o One("delete", site), 1, 7,
             T({"cable"}) \cup T({"iface"}) \cup T({"device"}) \cup T({"prefix"}) \cup T({"vlan"}) \cup T(G)
             \cup {DeleteCall})
  <2> HIDE DEF d6
  <2> QED
    BY <1>7, <1>15, PieceConcat
<1>17. Destroy = d6 \o One("delete", site)
  BY DEF Destroy, G
<1> HIDE DEF d6
<1>18. /\ Destroy \in Seq(Call) /\ Ordered(Destroy)
       /\ Calls(Destroy) = T({"cable"}) \cup T({"iface"}) \cup T({"device"}) \cup T({"prefix"}) \cup T({"vlan"})
                           \cup T(G) \cup {DeleteCall}
  BY <1>16, <1>17 DEF Piece
<1>19. \A ks : \A q \in T(ks) : q.op = "try" /\ q.obj \in Kinds(ks)
  BY AskedFacts DEF T
<1>20. \A q \in Calls(Destroy) : q = DeleteCall \/ (q.op = "try" /\ q.obj \in Kinds(Owned))
  BY <1>18, <1>19 DEF Kinds, Owned, G
<1>21. ASSUME NEW x \in Kinds(Owned) PROVE TryCall(x) \in Calls(Destroy)
  <2>1. \A ks : x[1] \in ks => TryCall(x) \in T(ks)
    <3> SUFFICES ASSUME NEW ks, x[1] \in ks PROVE TryCall(x) \in T(ks)
      OBVIOUS
    <3>1. x \in Kinds(ks)
      BY DEF Kinds
    <3> QED
      BY <3>1 DEF T, Asked, TryCall
  <2>2. x[1] \in Owned
    BY DEF Kinds
  <2> QED
    BY <1>18, <2>1, <2>2 DEF Owned, G
<1> QED
  BY <1>18, <1>20, <1>21

LEMMA RebuildFacts ==
    ASSUME SiteType, site \in nb
    PROVE /\ Rebuild \in Seq(Call)
          /\ \A q \in Calls(Rebuild) : q.op = "create" => q.obj = site
          /\ Objs(Rebuild) \subseteq nb \cup Plan("default")
<1> DEFINE D(ks) == Each("delete", Kinds(ks))
<1>1. ASSUME NEW ks
      PROVE D(ks) \in Seq(Call) /\ \A q \in Calls(D(ks)) : q.op = "delete" /\ q.obj \in nb
  <2>1. Kinds(ks) \subseteq Object /\ Kinds(ks) \subseteq nb
    BY KindsFacts DEF SiteType
  <2>2. D(ks) \in Seq(Call) /\ Calls(D(ks)) = Asked("delete", Kinds(ks))
    BY <2>1, EachOf DEF Operation, Asked
  <2> HIDE DEF D
  <2> QED
    BY <2>1, <2>2, AskedFacts
<1>2. One("delete", site) \in Seq(Call) /\ \A q \in Calls(One("delete", site)) : q.op = "delete" /\ q.obj \in nb
  <2>1. site \in Object /\ "delete" \in Operation
    BY AreObjects DEF Operation
  <2>2. One("delete", site) \in Seq(Call) /\ Calls(One("delete", site)) = {[op |-> "delete", obj |-> site]}
    BY <2>1, OneFacts
  <2> QED
    BY <2>2
<1> DEFINE Del(s) == s \in Seq(Call) /\ \A q \in Calls(s) : q.op = "delete" /\ q.obj \in nb
<1>3. ASSUME NEW s, NEW t, Del(s), Del(t) PROVE Del(s \o t)
  BY <1>3, CallsConcat
<1>4. \A ks : Del(D(ks))
  BY <1>1
<1>5. Del(One("delete", site))
  BY <1>2
<1>6. DeleteSite = D({"cable"}) \o D({"device"}) \o D({"vlan"}) \o D({"prefix"}) \o D({"cluster"}) \o One("delete", site)
  BY DEF DeleteSite
<1> HIDE DEF D, Del
<1>7. Del(DeleteSite)
  <2>1. Del(D({"cable"}) \o D({"device"}))
    BY <1>3, <1>4
  <2>2. Del(D({"cable"}) \o D({"device"}) \o D({"vlan"}))
    BY <1>3, <1>4, <2>1
  <2>3. Del(D({"cable"}) \o D({"device"}) \o D({"vlan"}) \o D({"prefix"}))
    BY <1>3, <1>4, <2>2
  <2>4. Del(D({"cable"}) \o D({"device"}) \o D({"vlan"}) \o D({"prefix"}) \o D({"cluster"}))
    BY <1>3, <1>4, <2>3
  <2> QED
    BY <1>3, <1>5, <1>6, <2>4
<1>8. /\ DeleteSite \in Seq(Call) /\ \A q \in Calls(DeleteSite) : q.op = "delete" /\ q.obj \in nb
  BY <1>7 DEF Del
<1>9. /\ Generate("default") \in Seq(Call) /\ Objs(Generate("default")) = Plan("default")
      /\ \A q \in Calls(Generate("default")) : q.op = (IF q.obj = site THEN "create" ELSE "ensure")
  BY GenerateFacts DEF SiteType, Octets
<1>10. Rebuild \in Seq(Call) /\ Calls(Rebuild) = Calls(DeleteSite) \cup Calls(Generate("default"))
  BY <1>8, <1>9, CallsConcat DEF Rebuild
<1>11. Objs(Rebuild) \subseteq nb \cup Plan("default")
  BY <1>8, <1>9, <1>10 DEF Objs
<1> QED
  BY <1>8, <1>9, <1>10, <1>11

-----------------------------------------------------------------------------
(***************************************************************************)
(* One request of a tool that works undisturbed.                           *)
(***************************************************************************)
LEMMA HeadFacts ==
    ASSUME SiteType, todo # <<>>
    PROVE /\ todo[1] \in Call /\ todo[1] \in Calls(todo) /\ Op = todo[1].op /\ Obj = todo[1].obj
          /\ Op \in Operation /\ Obj \in Object /\ Obj \in Objs(todo)
          /\ Tail(todo) \in Seq(Call)
          /\ Calls(todo) = {todo[1]} \cup Calls(Tail(todo))
          /\ Objs(todo) = {Obj} \cup Objs(Tail(todo))
          /\ Ordered(todo) => Ordered(Tail(todo)) /\ \A q \in Calls(Tail(todo)) : Precedes(todo[1], q)
          /\ \A q \in Calls(todo) : q \in Call
<1>1. todo \in Seq(Call)
  BY DEF SiteType
<1>2. \A q \in Calls(todo) : q \in Call
  BY <1>1 DEF Calls
<1>3. /\ Tail(todo) \in Seq(Call) /\ todo[1] \in Call /\ todo[1] \in Calls(todo)
      /\ Calls(todo) = {todo[1]} \cup Calls(Tail(todo))
      /\ Objs(todo) = {todo[1].obj} \cup Objs(Tail(todo))
      /\ Ordered(todo) => Ordered(Tail(todo)) /\ \A q \in Calls(Tail(todo)) : Precedes(todo[1], q)
  BY <1>1, TailFacts
<1> QED
  BY <1>2, <1>3 DEF Op, Obj, Call

LEMMA NoCalls ==
    ASSUME NEW s \in Seq(Call), Calls(s) = {}
    PROVE s = <<>>
<1>1. DOMAIN s = {}
  BY DEF Calls
<1> QED
  BY <1>1

LEMMA PlanFacts ==
    ASSUME template \in Versions, NEW z \in Octets
    PROVE /\ Plan(z) \subseteq Object
          /\ \A x \in Plan(z) : Parents(x) \subseteq Plan(z)
          /\ \A d : Device(d) \in Plan(z) => d \in Template(template)
<1> DEFINE T == {Type(d) : d \in Template(template)}
           D == {Device(d) : d \in Template(template)}
           I == Ifaces(CablesOf(template))
           C == {Cable(c) : c \in CablesOf(template)}
           M == {Member(d) : d \in Compute \cap Template(template)}
           V == {Vlan(v) : v \in Vlans}
           P == PrefixesOf(z)
           R == {custom_fields, site, rack, group, cluster}
<1>0. Plan(z) = R \cup T \cup V \cup P \cup D \cup I \cup C \cup M
  BY DEF Plan
<1>1. \A x \in R : x \in Object /\ Parents(x) \subseteq {site}
  BY AreObjects, Tags, ParentFacts
<1>2. \A x \in T : x \in Object /\ Parents(x) = {} /\ x[1] = "type"
  BY Wants, AreObjects, ParentFacts
<1>3. \A x \in V \cup P : x \in Object /\ Parents(x) = {site}
  BY AreObjects, Tags, ParentFacts DEF PrefixesOf
<1>4. ASSUME NEW x \in D PROVE x \in Object /\ Parents(x) \subseteq {site, rack} \cup T
  <2>1. PICK d \in Template(template) : x = Device(d)
    OBVIOUS
  <2>2. x \in Object /\ x[1] = "device" /\ x[2] = d
    BY <2>1, Wants, AreObjects, Tags
  <2> QED
    BY <2>2, ParentFacts
<1>5. ASSUME NEW x \in I PROVE x \in Object /\ Parents(x) \subseteq D /\ x[1] = "iface"
  <2>1. PICK c \in CablesOf(template) : \E d \in Ends[c] : x = Iface(d, c)
    BY DEF Ifaces
  <2>2. PICK d \in Ends[c] : x = Iface(d, c)
    BY <2>1
  <2>3. x \in Object /\ x[1] = "iface" /\ x[2] = d /\ d \in Template(template)
    BY <2>2, Wants, AreObjects, Tags
  <2> QED
    BY <2>3, ParentFacts
<1>6. ASSUME NEW x \in C PROVE x \in Object /\ Parents(x) \subseteq I
  <2>1. PICK c \in CablesOf(template) : x = Cable(c)
    OBVIOUS
  <2>2. x \in Object /\ x[1] = "cable" /\ x[2] = c
    BY <2>1, Wants, AreObjects, Tags
  <2>3. Parents(x) = {Iface(d, c) : d \in Ends[c]}
    BY <2>2, ParentFacts
  <2> QED
    BY <2>2, <2>3 DEF Ifaces
<1>7. ASSUME NEW x \in M PROVE x \in Object /\ Parents(x) \subseteq {cluster} \cup D
  <2>1. PICK d \in Compute \cap Template(template) : x = Member(d)
    OBVIOUS
  <2>2. x \in Object /\ x[1] = "member" /\ x[2] = d
    BY <2>1, Wants, AreObjects, Tags
  <2> QED
    BY <2>2, ParentFacts
<1>8. ASSUME NEW d, Device(d) \in Plan(z) PROVE d \in Template(template)
  <2>1. \A x \in R \cup T \cup V \cup P \cup I \cup C \cup M : x[1] # "device"
    BY <1>2, <1>5, Tags DEF PrefixesOf
  <2>2. Device(d) \in D
    BY <1>0, <1>8, <2>1, Tags
  <2> QED
    BY <2>2, Tags
<1> HIDE DEF T, D, I, C, M, V, P
<1>9. Plan(z) \subseteq Object
  BY <1>0, <1>1, <1>2, <1>3, <1>4, <1>5, <1>6, <1>7
<1>10. \A x \in Plan(z) : Parents(x) \subseteq Plan(z)
  BY <1>0, <1>1, <1>2, <1>3, <1>4, <1>5, <1>6, <1>7
<1> QED
  BY <1>8, <1>9, <1>10

LEMMA GeneratingStep ==
    ASSUME SiteType, Closed, Generating, tool \in {"generate", "pipeline"}, todo # <<>>, Request
    PROVE Generating'
<1> USE HeadFacts
<1>1. template' = template /\ fresh' = fresh /\ octet' = octet /\ template \in Versions /\ octet \in Octets
  BY DEF Request, env_vars, SiteType
<1>2. Ordered(todo) /\ Obj \in Plan(octet) /\ Op = (IF Obj = site THEN "create" ELSE "ensure")
  BY DEF Generating
<1>3. \A q \in Calls(todo) : Rank(q) = Depth(q.obj)
  BY DEF Generating, Rank
<1>4. CanDo
  <2>1. CASE Op = "create"
    BY <1>2, <2>1 DEF CanDo, Generating
  <2>2. CASE Op = "ensure"
    <3> SUFFICES ASSUME NEW p \in Parents(Obj), p \notin nb PROVE FALSE
      BY <2>2 DEF CanDo
    <3>1. p \in Plan(octet) /\ p \in Object /\ Depth(p) < Depth(Obj)
      BY <1>1, <1>2, PlanFacts, ParentsAbove
    <3>2. PICK q \in Calls(todo) : q.obj = p
      BY <3>1 DEF Generating, Objs
    <3>3. q # todo[1]
      BY <3>1, <3>2, RankFacts
    <3>4. Rank(todo[1]) <= Rank(q)
      BY <1>2, <3>3, <1>3, RankFacts DEF Precedes, Call
    <3>5. Rank(q) = Depth(p) /\ Rank(todo[1]) = Depth(Obj) /\ Depth(p) \in 1..9 /\ Depth(Obj) \in 1..9
      BY <1>3, <3>1, <3>2, RankFacts
    <3> QED
      BY <3>1, <3>4, <3>5
  <2> QED
    BY <1>2, <2>1, <2>2
<1>5. Do /\ todo' = Tail(todo) /\ outcome' = outcome
  BY <1>4 DEF Request
<1>6. nb' = nb \cup {Obj}
  BY <1>2, <1>5 DEF Do, Made
<1>7. Plan(octet)' = Plan(octet)
  BY <1>1 DEF Plan, Type, Template, CablesOf, Ifaces, PrefixesOf
<1>8. Plan(octet)' \subseteq nb' \cup Objs(todo')
  BY <1>5, <1>6, <1>7 DEF Generating
<1>9. \A q \in Calls(todo') : q.obj \in Plan(octet)' /\ q.op = (IF q.obj = site THEN "create" ELSE "ensure")
  BY <1>5, <1>7 DEF Generating
<1>10. ASSUME site \in nb' PROVE site \notin Objs(todo') /\ field' = [version |-> template', octet |-> octet']
  <2>1. CASE Obj = site
    <3>1. field' = [version |-> template, octet |-> octet]
      BY <1>2, <1>5, <2>1 DEF Do
    <3>2. ASSUME site \in Objs(todo') PROVE FALSE
      <4>1. PICK q \in Calls(Tail(todo)) : q.obj = site
        BY <1>5, <3>2 DEF Objs
      <4>2. Precedes(todo[1], q) /\ Rank(q) = Depth(site) /\ Rank(todo[1]) = Depth(site) /\ Depth(site) = 3
        BY <1>2, <1>3, <2>1, <4>1, DepthOf, Tags
      <4> QED
        BY <2>1, <4>2 DEF Precedes
    <3> QED
      BY <1>1, <3>1, <3>2
  <2>2. CASE Obj # site
    <3>1. site \in nb /\ field' = field
      BY <1>2, <1>5, <1>6, <1>10, <2>2 DEF Do
    <3> QED
      BY <1>1, <1>5, <3>1 DEF Generating
  <2> QED
    BY <2>1, <2>2
<1>11. Ordered(todo')
  BY <1>2, <1>5
<1>12. outcome' # "failed"
  BY <1>5 DEF Generating
<1> QED
  BY <1>8, <1>9, <1>10, <1>11, <1>12 DEF Generating

LEMMA RankOf ==
    ASSUME NEW q \in Call
    PROVE /\ Rank(q) \in 0..10
          /\ q.op = "version" => Rank(q) = 0
          /\ q.op = "sync" => Rank(q) = 10
          /\ q.op \in {"fix", "noop", "ensure", "create"} => Rank(q) = Depth(q.obj)
          /\ q.op \in {"try", "delete"} => Rank(q) = Turn(q.obj)
<1>1. q.op \in Operation /\ q.obj \in Object
  BY DEF Call
<1>2. Depth(q.obj) \in 1..9 /\ Turn(q.obj) \in 1..7
  BY <1>1, RankFacts
<1> QED
  BY <1>1, <1>2 DEF Rank, Operation

LEMMA NoLength ==
    ASSUME NEW s \in Seq(Call), Len(s) = 0
    PROVE s = <<>>
<1>1. DOMAIN s = {}
  OBVIOUS
<1> QED
  BY <1>1

\* The request to write the site's fields is the last of a fix.
LEMMA LastFacts ==
    ASSUME NEW s \in Seq(Call), s # <<>>, Ordered(s), SyncCall \in Calls(s)
    PROVE s[Len(s)] = SyncCall /\ (s[1] = SyncCall => Tail(s) = <<>>)
<1>1. Len(s) \in Nat \ {0} /\ DOMAIN s = 1..Len(s) /\ Len(s) \in DOMAIN s /\ 1 \in DOMAIN s
  OBVIOUS
<1>2. s[Len(s)] \in Call /\ Rank(s[Len(s)]) \in 0..10
  BY <1>1, RankOf
<1>3. ~Precedes(SyncCall, s[Len(s)])
  <2>1. SyncCall.obj = site /\ Rank(SyncCall) = 10
    BY DEF SyncCall, Rank
  <2> QED
    BY <1>2, <2>1 DEF Precedes
<1>4. ASSUME NEW i \in DOMAIN s, s[i] = SyncCall PROVE i = Len(s)
  BY <1>1, <1>3, <1>4 DEF Ordered
<1>5. PICK i \in DOMAIN s : s[i] = SyncCall
  BY DEF Calls
<1>6. ASSUME s[1] = SyncCall PROVE Tail(s) = <<>>
  <2>1. Len(s) = 1
    BY <1>1, <1>4, <1>6
  <2>2. Tail(s) \in Seq(Call) /\ Len(Tail(s)) = 0
    BY <2>1
  <2> QED
    BY <2>2, NoLength
<1> QED
  BY <1>4, <1>5, <1>6

LEMMA RestIn ==
    ASSUME SiteType, todo # <<>>
    PROVE Rest \in Seq(Call) /\ Calls(Rest) \subseteq Calls(todo)
<1>1. todo \in Seq(Call)
  BY DEF SiteType
<1>2. CASE Op = "fix" /\ Obj[1] \in {"cluster", "member"}
  <2>1. Len(todo) \in DOMAIN todo /\ todo[Len(todo)] \in Call /\ todo[Len(todo)] \in Calls(todo)
    BY <1>1 DEF Calls
  <2>2. Rest = <<todo[Len(todo)]>>
    BY <1>2 DEF Rest
  <2>3. Rest \in Seq(Call) /\ DOMAIN Rest = {1} /\ Rest[1] = todo[Len(todo)]
    BY <2>1, <2>2
  <2> QED
    BY <2>1, <2>3 DEF Calls
<1>3. CASE ~(Op = "fix" /\ Obj[1] \in {"cluster", "member"})
  BY <1>3, HeadFacts DEF Rest
<1> QED
  BY <1>2, <1>3

\* After an error of a fix: what is skipped comes no earlier than the cluster.
LEMMA RestFacts ==
    ASSUME SiteType, todo # <<>>, Ordered(todo), SyncCall \in Calls(todo), todo[1] # SyncCall
    PROVE /\ Ordered(Rest) /\ SyncCall \in Calls(Rest) /\ Calls(Rest) \subseteq Calls(Tail(todo))
          /\ \A q \in Calls(todo) : q = todo[1] \/ q \in Calls(Rest)
                                    \/ (Obj[1] \in {"cluster", "member"} /\ Rank(todo[1]) <= Rank(q))
<1> USE HeadFacts
<1>1. SyncCall \in Calls(Tail(todo))
  OBVIOUS
<1>2. CASE Op = "fix" /\ Obj[1] \in {"cluster", "member"}
  <2>1. todo[Len(todo)] = SyncCall
    BY LastFacts DEF SiteType
  <2>2. Rest = One("sync", site)
    BY <1>2, <2>1 DEF Rest, One, SyncCall
  <2>3. Rank([op |-> "sync", obj |-> site]) = 10
    BY DEF Rank
  <2>4. Piece(One("sync", site), 10, 10, {SyncCall})
    BY <2>3, PieceOne, AreObjects DEF SyncCall, Operation
  <2>5. Ordered(Rest) /\ Calls(Rest) = {SyncCall}
    BY <2>2, <2>4 DEF Piece
  <2>6. \A q \in Calls(Tail(todo)) : Rank(todo[1]) <= Rank(q)
    <3> SUFFICES ASSUME NEW q \in Calls(Tail(todo)) PROVE Rank(todo[1]) <= Rank(q)
      OBVIOUS
    <3>1. q \in Call /\ Rank(q) \in 0..10 /\ Rank(todo[1]) \in 0..10
      BY RankOf
    <3>2. Precedes(todo[1], q)
      OBVIOUS
    <3>3. Rank(todo[1]) < Rank(q) \/ Rank(todo[1]) = Rank(q)
      BY <3>2 DEF Precedes
    <3> QED
      BY <3>1, <3>3
  <2> QED
    BY <1>1, <1>2, <2>5, <2>6
<1>3. CASE ~(Op = "fix" /\ Obj[1] \in {"cluster", "member"})
  <2>1. Rest = Tail(todo)
    BY <1>3 DEF Rest
  <2> QED
    BY <1>1, <2>1
<1> QED
  BY <1>2, <1>3

LEMMA BasicFacts ==
    ASSUME template \in Versions
    PROVE /\ Basic \subseteq Object /\ PrefixesOf("default") \cup PrefixesOf("given") \subseteq Object
          /\ \A x \in Basic : \/ x[1] \in {"cluster", "vlan"}
                              \/ x[1] = "device" /\ x[2] \in Template(template)
                              \/ x[1] = "cable" /\ Ends[x[2]] \subseteq Template(template)
          /\ \A x \in PrefixesOf("default") \cup PrefixesOf("given") : x[1] = "prefix"
<1>1. cluster \in Object /\ cluster[1] = "cluster"
  BY AreObjects, Tags
<1>2. \A d \in Template(template) : Device(d) \in Object /\ Device(d)[1] = "device" /\ Device(d)[2] = d
  BY Wants, AreObjects, Tags
<1>3. \A v \in Vlans : Vlan(v) \in Object /\ Vlan(v)[1] = "vlan"
  BY AreObjects, Tags
<1>4. \A c \in CablesOf(template) : /\ Cable(c) \in Object /\ Cable(c)[1] = "cable" /\ Cable(c)[2] = c
                                    /\ Ends[c] \subseteq Template(template)
  BY Wants, AreObjects, Tags
<1>5. \A v \in Vlans, z \in Octets : Prefix(v, z) \in Object /\ Prefix(v, z)[1] = "prefix"
  BY AreObjects, Tags
<1>6. \A x \in PrefixesOf("default") \cup PrefixesOf("given") : x \in Object /\ x[1] = "prefix"
  BY <1>5 DEF PrefixesOf, Octets
<1> QED
  BY <1>1, <1>2, <1>3, <1>4, <1>6 DEF Basic

\* What a fix still has to make, it can make, when the types and the rack are there.
LEMMA CanFix ==
    ASSUME SiteType, Closed, Fixing, todo # <<>>, Op = "fix", Obj \notin nb,
           \/ Obj \in PrefixesOf("default") \cup PrefixesOf("given")
           \/ TypesExist /\ rack \in nb /\ Obj \in Basic
    PROVE CanDo /\ Obj \in Made(Obj)
<1> USE HeadFacts
<1>0. template \in Versions
  BY DEF SiteType
<1>1. CASE Obj[1] \in {"cluster", "vlan", "prefix"}
  <2>1. Parents(Obj) = {site} /\ Made(Obj) = {Obj}
    BY <1>1, ParentFacts DEF Made, MadeByFix
  <2> QED
    BY <1>1, <2>1 DEF CanDo, Fixing
<1>2. CASE Obj[1] = "device" /\ TypesExist /\ rack \in nb /\ Obj \in Basic
  <2>1. Obj[2] \in Template(template)
    BY <1>0, <1>2, BasicFacts
  <2>2. Parents(Obj) = {site, rack, Type(Obj[2])} /\ Type(Obj[2]) \in nb /\ Made(Obj) = {Obj}
    BY <1>2, <2>1, ParentFacts DEF TypesExist, Made, MadeByFix
  <2> QED
    BY <1>2, <2>2 DEF CanDo, Fixing
<1>3. CASE Obj[1] = "cable" /\ TypesExist /\ rack \in nb /\ Obj \in Basic
  <2>1. ASSUME NEW d \in Ends[Obj[2]] PROVE d \in Devices /\ Device(d) \in nb
    <3>1. d \in Template(template) /\ d \in Devices
      BY <1>0, <1>3, BasicFacts, Wants
    <3> SUFFICES ASSUME Device(d) \notin nb PROVE FALSE
      BY <3>1
    <3>2. Device(d) \in Basic
      BY <3>1 DEF Basic
    <3>3. PICK q \in Calls(todo) : q.obj = Device(d)
      BY <1>3, <3>2 DEF Fixing, Objs
    <3>4. q.op = "fix"
      BY <3>3, Tags DEF Fixing, FixCalls, VersionCall, SyncCall
    <3>5. q \in Call /\ Rank(q) = Depth(Device(d)) /\ Rank(todo[1]) = Depth(Obj)
      BY <3>3, <3>4, RankOf
    <3>6. Rank(q) = 5 /\ Rank(todo[1]) = 7
      BY <1>3, <3>5, DepthOf, Tags
    <3>7. Precedes(todo[1], q)
      BY <3>6 DEF Fixing
    <3> QED
      BY <3>6, <3>7 DEF Precedes
  <2>2. Ends[Obj[2]] \subseteq known
    BY <2>1 DEF Fixing
  <2>3. Made(Obj) = {Iface(d, Obj[2]) : d \in Ends[Obj[2]]} \cup {Obj}
    BY <1>3, <2>2 DEF Made, MadeByFix
  <2>4. Parents(Obj) = {Iface(d, Obj[2]) : d \in Ends[Obj[2]]} /\ Obj[2] \in Cables
    BY <1>3, ParentFacts, ObjectKinds
  <2>5. ASSUME NEW y \in Made(Obj) PROVE Parents(y) \subseteq nb \cup Made(Obj)
    <3>1. CASE y = Obj
      BY <2>3, <2>4, <3>1
    <3>2. CASE y # Obj
      <4>1. PICK d \in Ends[Obj[2]] : y = Iface(d, Obj[2])
        BY <2>3, <3>2
      <4>2. Parents(y) = {Device(d)}
        BY <2>4, <4>1, AreObjects, Tags, ParentFacts
      <4> QED
        BY <2>1, <4>2
    <3> QED
      BY <3>1, <3>2
  <2> QED
    BY <2>3, <2>5 DEF CanDo
<1> QED
  BY <1>0, <1>1, <1>2, <1>3, BasicFacts

\* A fix adds the object of its request and interfaces.
LEMMA FixAdds ==
    ASSUME SiteType, Closed, Fixing, todo # <<>>, Request
    PROVE /\ nb \subseteq nb' /\ \A y \in nb' : y \in nb \/ y[1] = "iface" \/ (CanDo /\ Op = "fix" /\ y = Obj)
          /\ CanDo => nb' = nb \cup (IF Op = "fix" THEN Made(Obj) ELSE {})
          /\ field' = IF CanDo /\ Op = "version" THEN [field EXCEPT !.version = template] ELSE field
          /\ todo' = (IF CanDo THEN Tail(todo) ELSE Rest) /\ outcome' = outcome
          /\ known' = IF CanDo THEN known \cup {d \in Devices : Op = "fix" /\ Obj = Device(d)} ELSE known
          /\ ~CanDo => Op = "fix"
<1> USE HeadFacts
<1>1. fresh' = fresh
  BY DEF Request, env_vars
<1>2. \/ todo[1] = VersionCall /\ Op = "version" /\ Obj = site
      \/ todo[1] = SyncCall /\ Op = "sync" /\ Obj = site
      \/ Op = "noop" /\ Obj \in nb
      \/ Op = "fix" /\ Obj[1] \notin {"site", "type", "rack"}
  BY DEF Fixing, FixCalls, VersionCall, SyncCall
<1>3. CASE CanDo
  <2>1. /\ Do /\ todo' = Tail(todo) /\ outcome' = outcome
        /\ known' = known \cup {d \in Devices : Op = "fix" /\ Obj = Device(d)}
    BY <1>3 DEF Request
  <2>2. /\ nb' = nb \cup (IF Op = "fix" THEN Made(Obj) ELSE {})
        /\ field' = IF Op = "version" THEN [field EXCEPT !.version = template] ELSE field
    BY <1>2, <2>1 DEF Do
  <2> QED
    BY <1>3, <2>1, <2>2, MadeFacts
<1>4. CASE ~CanDo
  <2>1. Op = "fix" /\ todo' = Rest /\ outcome' = outcome /\ DoPart /\ known' = known
    BY <1>2, <1>4 DEF Request, GoOn, CanDo, Fixing
  <2>2. field' = field
    BY <2>1 DEF DoPart
  <2>3. nb \subseteq nb' /\ \A y \in nb' : y \in nb \/ y[1] = "iface"
    BY <2>1 DEF DoPart
  <2> QED
    BY <1>4, <2>1, <2>2, <2>3
<1> QED
  BY <1>3, <1>4

LEMMA FixingStep ==
    ASSUME SiteType, Closed, Fixing, todo # <<>>, Request
    PROVE /\ Fixing'
          /\ nb \subseteq nb' /\ field'.octet = field.octet
          /\ PrefixesOf(field.octet) \subseteq nb \cup Objs(todo)
             => PrefixesOf(field.octet) \subseteq nb' \cup Objs(todo')
<1> USE HeadFacts
<1>1. template' = template /\ fresh' = fresh /\ template \in Versions /\ field \in [version : Versions, octet : Octets]
  BY DEF Request, env_vars, SiteType
<1>2. site \in nb /\ outcome # "failed" /\ Ordered(todo) /\ FixCalls(todo) /\ SyncCall \in Calls(todo)
  BY DEF Fixing
<1>3. \/ todo[1] = VersionCall /\ Op = "version" /\ Obj = site
      \/ todo[1] = SyncCall /\ Op = "sync" /\ Obj = site
      \/ Op = "noop" /\ Obj \in nb
      \/ Op = "fix" /\ Obj[1] \notin {"site", "type", "rack"}
  BY <1>2 DEF FixCalls, VersionCall, SyncCall
<1>4. /\ nb \subseteq nb' /\ \A y \in nb' : y \in nb \/ y[1] = "iface" \/ (CanDo /\ Op = "fix" /\ y = Obj)
      /\ CanDo => nb' = nb \cup (IF Op = "fix" THEN Made(Obj) ELSE {})
      /\ field' = IF CanDo /\ Op = "version" THEN [field EXCEPT !.version = template] ELSE field
      /\ todo' = (IF CanDo THEN Tail(todo) ELSE Rest) /\ outcome' = outcome
      /\ known' = IF CanDo THEN known \cup {d \in Devices : Op = "fix" /\ Obj = Device(d)} ELSE known
      /\ ~CanDo => Op = "fix"
  BY FixAdds
<1>5. (TypesExist' => TypesExist) /\ (rack \in nb' => rack \in nb)
  <2>1. \A y \in nb' : y[1] \in {"type", "rack"} => y \in nb
    BY <1>3, <1>4
  <2>2. \A d \in Template(template) : Type(d)[1] = "type" /\ Type(d)' = Type(d)
    BY <1>1, Wants, AreObjects, ParentsSame
  <2>3. Template(template)' = Template(template)
    BY <1>1 DEF Template
  <2>4. rack \in nb' => rack \in nb
    BY <2>1, Tags
  <2> QED
    BY <2>1, <2>2, <2>3, <2>4 DEF TypesExist
<1>6. \A d \in Devices : Device(d) \in nb' => d \in known'
  BY <1>4, Tags DEF Fixing
<1>7. ASSUME NEW x \in nb \cup Objs(todo),
             \/ x \in PrefixesOf("default") \cup PrefixesOf("given")
             \/ TypesExist /\ rack \in nb /\ x \in Basic
      PROVE x \in nb' \cup Objs(todo')
  <2> SUFFICES ASSUME x \notin nb PROVE x \in nb' \cup Objs(todo')
    BY <1>4
  <2>1. PICK q \in Calls(todo) : q.obj = x
    BY DEF Objs
  <2>2. x \in Object /\ x[1] \in {"prefix", "cluster", "vlan", "device", "cable"}
    BY <1>1, <1>7, BasicFacts
  <2>3. q.op = "fix"
    BY <1>2, <2>1, <2>2, Tags DEF FixCalls, VersionCall, SyncCall
  <2>4. CASE q = todo[1]
    <3>1. Op = "fix" /\ Obj = x
      BY <2>1, <2>3, <2>4
    <3>2. CanDo /\ Obj \in Made(Obj)
      BY <1>7, <3>1, CanFix
    <3> QED
      BY <1>4, <3>1, <3>2
  <2>5. CASE q # todo[1] /\ CanDo
    BY <1>4, <2>1, <2>5 DEF Objs
  <2>6. CASE q # todo[1] /\ ~CanDo
    <3>1. Op = "fix" /\ todo[1] # SyncCall /\ todo' = Rest
      BY <1>4, <2>6 DEF SyncCall
    <3>2. q \in Calls(Rest) \/ (Obj[1] \in {"cluster", "member"} /\ Rank(todo[1]) <= Rank(q))
      BY <1>2, <2>6, <3>1, RestFacts
    <3>3. ASSUME Obj[1] \in {"cluster", "member"} PROVE ~(Rank(todo[1]) <= Rank(q))
      <4>1. Rank(q) = Depth(x) /\ Rank(todo[1]) = Depth(Obj)
        BY <2>1, <2>3, <3>1, RankOf
      <4>2. Depth(Obj) \in {8, 9} /\ (Obj[1] = "member" => Depth(Obj) = 9)
        BY <3>3, DepthOf
      <4>3. CASE x[1] = "cluster" /\ Obj[1] = "cluster"
        <5>1. Obj = x
          BY <2>2, <4>3, ObjectKinds
        <5> QED
          BY <1>7, <2>6, <3>1, <5>1, CanFix
      <4>4. CASE x[1] = "cluster" /\ Obj[1] = "member"
        <5>1. Depth(x) = 8
          BY <4>4, DepthOf
        <5> QED
          BY <4>1, <4>2, <4>4, <5>1
      <4>5. CASE x[1] # "cluster"
        <5>1. Depth(x) \in {5, 7}
          BY <2>2, <4>5, DepthOf
        <5> QED
          BY <4>1, <4>2, <5>1
      <4> QED
        BY <3>3, <4>3, <4>4, <4>5
    <3> QED
      BY <2>1, <3>1, <3>2, <3>3 DEF Objs
  <2> QED
    BY <2>4, <2>5, <2>6
<1>8. Basic' = Basic /\ PrefixesOf("default")' = PrefixesOf("default")
  BY <1>1 DEF Basic, Template, CablesOf, PrefixesOf
<1>9. TypesExist' /\ rack \in nb' => Basic' \cup PrefixesOf("default")' \subseteq nb' \cup Objs(todo')
  BY <1>5, <1>7, <1>8 DEF Fixing
<1>10. PrefixesOf(field.octet) \subseteq nb \cup Objs(todo)
       => PrefixesOf(field.octet) \subseteq nb' \cup Objs(todo')
  BY <1>1, <1>7 DEF Octets
<1>11. field'.octet = field.octet
  BY <1>1, <1>4
<1>12. CASE CanDo
  <2>1. todo[1] = SyncCall => todo' = <<>>
    BY <1>2, <1>4, <1>12, LastFacts DEF SiteType
  <2>2. todo' # <<>> => SyncCall \in Calls(todo')
    BY <1>2, <1>4, <1>12, <2>1
  <2>3. field'.version # template' => VersionCall \in Calls(todo')
    <3>1. CASE Op = "version"
      BY <1>1, <1>4, <1>12, <3>1
    <3>2. CASE Op # "version"
      <4>1. VersionCall # todo[1]
        BY <3>2 DEF VersionCall
      <4> QED
        BY <1>1, <1>4, <1>12, <3>2, <4>1 DEF Fixing
    <3> QED
      BY <3>1, <3>2
  <2>4. FixCalls(todo)' /\ Ordered(todo')
    BY <1>2, <1>4, <1>12 DEF FixCalls
  <2> QED
    BY <1>2, <1>4, <1>6, <1>9, <1>10, <1>11, <2>2, <2>3, <2>4 DEF Fixing
<1>13. CASE ~CanDo
  <2>1. todo[1] # SyncCall /\ todo[1] # VersionCall /\ todo' = Rest /\ field' = field /\ Op = "fix"
    BY <1>4, <1>13 DEF SyncCall, VersionCall
  <2>2. /\ Ordered(Rest) /\ SyncCall \in Calls(Rest) /\ Calls(Rest) \subseteq Calls(Tail(todo))
        /\ \A q \in Calls(todo) : q = todo[1] \/ q \in Calls(Rest)
                                  \/ (Obj[1] \in {"cluster", "member"} /\ Rank(todo[1]) <= Rank(q))
    BY <1>2, <2>1, RestFacts
  <2>3. field'.version # template' => VersionCall \in Calls(todo')
    <3> SUFFICES ASSUME VersionCall \in Calls(todo), Obj[1] \in {"cluster", "member"}
                 PROVE Rank(VersionCall) < Rank(todo[1])
      <4>1. VersionCall \in Calls(todo) => Rank(VersionCall) \in 0..10 /\ Rank(todo[1]) \in 0..10
        BY RankOf
      <4> QED
        BY <1>1, <2>1, <2>2, <4>1 DEF Fixing
    <3>1. Rank(VersionCall) = 0
      BY DEF Rank, VersionCall
    <3>2. Rank(todo[1]) \in {8, 9}
      BY <2>1, RankOf, DepthOf
    <3> QED
      BY <3>1, <3>2
  <2>4. FixCalls(todo)'
    BY <1>2, <1>4, <2>1, <2>2 DEF FixCalls
  <2> QED
    BY <1>2, <1>4, <1>6, <1>9, <1>10, <1>11, <2>1, <2>2, <2>3, <2>4 DEF Fixing
<1> QED
  BY <1>12, <1>13

LEMMA TurnOf ==
    ASSUME NEW x
    PROVE /\ x[1] = "device" => Turn(x) = 3
          /\ x[1] = "prefix" => Turn(x) = 4
          /\ x[1] = "vlan" => Turn(x) = 5
          /\ x[1] \in {"group", "rack"} => Turn(x) = 6
          /\ x[1] = "site" => Turn(x) = 7
          /\ x[1] \in Owned => Turn(x) \in 1..6
<1>1. x[1] = "prefix" => Turn(x) = 4
  BY DEF Turn
<1>2. x[1] = "vlan" => Turn(x) = 5
  BY DEF Turn
<1>3. x[1] = "site" => Turn(x) = 7
  BY DEF Turn
<1>4. x[1] \in Owned => Turn(x) \in 1..6
  BY DEF Turn, Owned
<1>5. (x[1] = "device" => Turn(x) = 3) /\ (x[1] \in {"group", "rack"} => Turn(x) = 6)
  BY DEF Turn
<1> QED
  BY <1>1, <1>2, <1>3, <1>4, <1>5

LEMMA DestroyingStep ==
    ASSUME SiteType, Closed, Destroying, todo # <<>>, Request
    PROVE Destroying' \/ (site \notin nb' /\ todo' = <<>>)
<1> USE HeadFacts
<1>1. /\ site \in nb /\ outcome # "failed" /\ Ordered(todo) /\ DeleteCall \in Calls(todo)
      /\ \A q \in Calls(todo) : q = DeleteCall \/ (q.op = "try" /\ q.obj[1] \in Owned)
      /\ \A x \in Kinds(Owned) : TryCall(x) \in Calls(todo)
  BY DEF Destroying
<1>2. \A q \in Calls(Tail(todo)) : Precedes(todo[1], q) /\ q \in Calls(todo)
  BY <1>1
<1>3. nb \subseteq Object
  BY DEF SiteType
<1>4. DeleteCall.obj = site /\ Rank(DeleteCall) = 7
  BY Tags, TurnOf DEF Rank, DeleteCall
<1>5. CASE todo[1] = DeleteCall
  <2>1. Calls(Tail(todo)) = {}
    <3> SUFFICES ASSUME NEW q \in Calls(Tail(todo)) PROVE FALSE
      OBVIOUS
    <3>1. Rank(q) > 7
      <4>1. Precedes(todo[1], q) /\ q \in Call /\ Rank(q) \in 0..10
        BY <1>2, RankOf
      <4> QED
        BY <1>4, <1>5, <4>1 DEF Precedes
    <3>2. Rank(q) <= 7
      <4>1. CASE q = DeleteCall
        BY <1>4, <4>1
      <4>2. CASE q.op = "try" /\ q.obj[1] \in Owned
        <5>1. q \in Call /\ Rank(q) = Turn(q.obj) /\ Turn(q.obj) \in 1..6
          BY <4>2, RankOf, TurnOf
        <5> QED
          BY <5>1
      <4> QED
        BY <1>1, <1>2, <4>1, <4>2
    <3>3. q \in Call /\ Rank(q) \in 0..10
      BY <1>2, RankOf
    <3> QED
      BY <3>1, <3>2, <3>3
  <2>2. Tail(todo) = <<>>
    BY <2>1, NoCalls
  <2>3. Op = "delete" /\ Obj = site
    BY <1>5 DEF DeleteCall
  <2>4. ~Protected(site)
    <3> SUFFICES ASSUME NEW p \in nb, p[1] \in {"device", "rack", "vlan"} PROVE FALSE
      BY Tags DEF Protected
    <3>1. TryCall(p) \in Calls(todo)
      BY <1>1 DEF Kinds, Owned
    <3>2. TryCall(p) # DeleteCall
      BY DEF TryCall, DeleteCall
    <3> QED
      BY <1>5, <2>1, <3>1, <3>2
  <2>5. Do /\ todo' = <<>>
    BY <1>1, <2>2, <2>3, <2>4 DEF Request, CanDo
  <2>6. nb' = nb \ ({site} \cup Cascade(site))
    BY <2>3, <2>5 DEF Do
  <2> QED
    BY <2>5, <2>6
<1>6. CASE todo[1] # DeleteCall
  <2>1. Op = "try" /\ Obj[1] \in Owned
    BY <1>1, <1>6
  <2>2. Rest = Tail(todo)
    BY <2>1 DEF Rest
  <2>3. todo' = Tail(todo) /\ outcome' = outcome
    BY <2>1, <2>2 DEF Request, GoOn
  <2>4. /\ Ordered(todo') /\ DeleteCall \in Calls(todo')
        /\ \A q \in Calls(todo') : q = DeleteCall \/ (q.op = "try" /\ q.obj[1] \in Owned)
    BY <1>1, <1>6, <2>3
  <2>5. ASSUME NEW x \in Kinds(Owned), x # Obj PROVE TryCall(x) \in Calls(todo')
    <3>1. TryCall(x) \in Calls(todo) /\ TryCall(x) # todo[1]
      BY <1>1, <2>5 DEF TryCall
    <3> QED
      BY <2>3, <3>1
  <2>6. CASE CanDo
    <3>1. nb' = nb \ ({Obj} \cup Cascade(Obj))
      BY <2>1, <2>6 DEF Request, Do
    <3>2. site \notin Cascade(Obj) /\ site # Obj
      <4>1. Obj[1] # "site" /\ site[1] = "site"
        BY <2>1, Tags DEF Owned
      <4> QED
        BY <4>1, CascadeFacts
    <3>3. site \in nb'
      BY <1>1, <3>1, <3>2
    <3>4. \A x \in Kinds(Owned)' : x \in Kinds(Owned) /\ x # Obj
      BY <3>1 DEF Kinds
    <3>5. \A x \in Kinds(Owned)' : TryCall(x) \in Calls(todo')
      BY <2>5, <3>4
    <3> QED
      BY <1>1, <2>3, <2>4, <3>3, <3>5 DEF Destroying, DeleteCall, TryCall, Kinds
  <2>7. CASE ~CanDo
    <3>1. nb' = nb
      BY <2>1, <2>7 DEF Request, DoPart
    <3>2. Obj \notin nb
      <4> SUFFICES ASSUME Obj \in nb PROVE FALSE
        OBVIOUS
      <4>1. Protected(Obj)
        BY <2>1, <2>7 DEF CanDo
      <4>2. \/ Obj[1] = "vlan" /\ \E p \in nb : p[1] = "prefix"
            \/ Obj[1] = "group" /\ \E p \in nb : p[1] = "vlan"
            \/ Obj[1] = "rack" /\ \E p \in nb : p[1] = "device"
        <5>1. Obj[1] # "type" /\ Obj # site
          BY <2>1, Tags DEF Owned
        <5> QED
          BY <4>1, <5>1, Tags DEF Protected, Closed
      <4>3. PICK p \in nb : p[1] \in Owned /\ Turn(p) < Turn(Obj)
        BY <4>2, TurnOf DEF Owned
      <4>4. TryCall(p) \in Calls(todo)
        BY <1>1, <4>3 DEF Kinds
      <4>5. TryCall(p) \in Call /\ Rank(TryCall(p)) = Turn(p) /\ Rank(todo[1]) = Turn(Obj)
        BY <2>1, <4>4, RankOf DEF TryCall
      <4>6. Turn(p) \in 1..6 /\ Turn(Obj) \in 1..6
        BY <2>1, <4>3, TurnOf
      <4>7. TryCall(p) # todo[1]
        BY <4>3, <4>5, <4>6
      <4>8. Precedes(todo[1], TryCall(p))
        BY <1>2, <4>4, <4>7
      <4> QED
        BY <4>3, <4>5, <4>6, <4>8 DEF Precedes
    <3>3. \A x \in Kinds(Owned)' : TryCall(x) \in Calls(todo')
      BY <2>5, <3>1, <3>2 DEF Kinds
    <3> QED
      BY <1>1, <2>3, <2>4, <3>1, <3>3 DEF Destroying, DeleteCall, TryCall, Kinds
  <2> QED
    BY <2>6, <2>7
<1> QED
  BY <1>5, <1>6

-----------------------------------------------------------------------------
(***************************************************************************)
(* What every step keeps: the types, the references between objects, and   *)
(* the order of the requests that are left.                                *)
(***************************************************************************)
LEMMA CallStep ==
    ASSUME SiteType, Closed, TodoInv, Request \/ RequestFails
    PROVE SiteType' /\ Closed' /\ TodoInv'
<1> USE HeadFacts
<1>1. /\ todo # <<>> /\ tool # "none"
      /\ template' = template /\ fresh' = fresh /\ edits' = edits /\ octet' = octet /\ stage' = stage
      /\ runs' = runs /\ faults' \in Nat /\ disturbed' = disturbed /\ accident' \in BOOLEAN
      /\ tool' = tool /\ outcome' \in {outcome, "failed"} /\ known' \subseteq Devices
      /\ (CanDo /\ Do) \/ DoPart
      /\ todo' \in {Tail(todo), Rest, <<>>}
  <2>0. faults \in Nat /\ accident \in BOOLEAN /\ known \subseteq Devices
    BY DEF SiteType
  <2>1. CASE Request
    <3>1. CASE CanDo
      BY <2>0, <2>1, <3>1 DEF Request, env_vars
    <3>2. CASE ~CanDo
      BY <2>0, <2>1, <3>2 DEF Request, GoOn, env_vars
    <3> QED
      BY <3>1, <3>2
  <2>2. CASE RequestFails
    BY <2>0, <2>2 DEF RequestFails, GoOn, env_vars
  <2> QED
    BY <2>1, <2>2
<1>2. todo' \in Seq(Call) /\ Calls(todo') \subseteq Calls(todo)
  <2>1. CASE todo' = <<>>
    BY <2>1, EmptyFacts
  <2>2. CASE todo' = Rest
    BY <1>1, <2>2, RestIn
  <2>3. CASE todo' = Tail(todo)
    BY <1>1, <2>3
  <2> QED
    BY <1>1, <2>1, <2>2, <2>3
<1>3. nb' \subseteq Object /\ Closed' /\ wrong' \subseteq wrong
  <2>1. CASE CanDo /\ Do
    BY <1>1, <2>1, DoFacts
  <2>2. CASE DoPart
    BY <1>1, <2>2, PartFacts
  <2> QED
    BY <1>1, <2>1, <2>2
<1>4. field' \in [version : Versions, octet : Octets] /\ (field'.version = field.version \/ field'.version = template)
  <2>1. CASE field' = field
    BY <2>1 DEF SiteType
  <2>2. CASE field' = [version |-> template, octet |-> IF tool = "rebuild" THEN "default" ELSE octet]
    BY <2>2 DEF SiteType, Octets
  <2>3. CASE field' = [field EXCEPT !.version = template]
    BY <2>3 DEF SiteType
  <2> QED
    BY <1>1, <2>1, <2>2, <2>3 DEF Do, DoPart
<1>5. SiteType'
  BY <1>1, <1>2, <1>3, <1>4 DEF SiteType
<1>6. ASSUME template = <<1, 0>>, NEW d \in New PROVE Device(d) \notin nb' \cup Objs(todo')
  <2>1. Device(d) \notin nb \cup Objs(todo)
    BY <1>6 DEF TodoInv
  <2>2. Device(d) \notin Objs(todo')
    BY <1>2, <2>1 DEF Objs
  <2>3. \A y \in Made(Obj) : y # Device(d)
    <3> SUFFICES ASSUME NEW y \in Made(Obj) PROVE y # Device(d)
      OBVIOUS
    <3>1. y = Obj \/ y[1] = "iface"
      BY <1>1, MadeFacts
    <3> QED
      BY <1>1, <2>1, <3>1, Tags
  <2>4. Device(d) \notin nb'
    <3>1. nb' \subseteq nb \cup Made(Obj)
      BY <1>1, PartFacts DEF Do
    <3> QED
      BY <2>1, <2>3, <3>1
  <2> QED
    BY <2>2, <2>4
<1>7. TodoInv'
  <2>1. template' = <<1, 0>> => field'.version = <<1, 0>> /\ ~fresh'
    BY <1>1, <1>4 DEF TodoInv
  <2>2. tool' \notin {"none", "scan"}
    BY <1>1 DEF TodoInv
  <2>3. \A q \in Calls(todo') : q.op = "create" => q.obj = site
    BY <1>2 DEF TodoInv
  <2> QED
    BY <1>1, <1>6, <2>1, <2>2, <2>3 DEF TodoInv
<1> QED
  BY <1>3, <1>5, <1>7

LEMMA StartStep ==
    ASSUME SiteType, Closed, TodoInv, NEW t \in Tools, Start(t)
    PROVE SiteType' /\ Closed' /\ TodoInv'
<1>1. /\ tool = "none" /\ todo = <<>> /\ octet' \in Octets /\ tool' = t /\ t # "none" /\ outcome' = "none"
      /\ nb' = nb /\ wrong' = wrong /\ field' = field /\ template' = template /\ fresh' = fresh
      /\ edits' = edits /\ runs' \in Nat /\ faults' = 0 /\ disturbed' = FALSE /\ accident' \in BOOLEAN
      /\ linked' = linked /\ known' \subseteq Devices /\ stage' = "validate"
      /\ template \in Versions
  BY DEF Start, nb_vars, env_vars, Tools, SiteType, TodoInv
<1>2. \/ todo' = <<>>
      \/ todo' = Generate(octet')
      \/ todo' = Fix /\ site \in nb
      \/ todo' = Rebuild /\ site \in nb
      \/ todo' = Destroy
  BY DEF Start, Tools
<1>3. t = "scan" => todo' = <<>>
  BY DEF Start
<1>4. /\ todo' \in Seq(Call)
      /\ \A q \in Calls(todo') : q.op = "create" => q.obj = site
      /\ \A d \in Devices : Device(d) \in Objs(todo') => Device(d) \in nb \/ d \in Template(template)
  <2>1. CASE todo' = <<>>
    BY <2>1, EmptyFacts
  <2>2. CASE todo' = Generate(octet')
    <3>1. /\ Generate(octet') \in Seq(Call) /\ Objs(Generate(octet')) = Plan(octet')
          /\ \A q \in Calls(Generate(octet')) : q.op = (IF q.obj = site THEN "create" ELSE "ensure")
      BY <1>1, GenerateFacts
    <3>2. \A d : Device(d) \in Plan(octet') => d \in Template(template)
      BY <1>1, PlanFacts
    <3> QED
      BY <2>2, <3>1, <3>2
  <2>3. CASE todo' = Fix /\ site \in nb
    <3>1. /\ Fix \in Seq(Call) /\ FixCalls(Fix)
          /\ \A d : Device(d) \in Objs(Fix) => Device(d) \in nb \/ d \in Template(template)
      BY <2>3, FixFacts
    <3> QED
      BY <2>3, <3>1 DEF FixCalls, VersionCall, SyncCall
  <2>4. CASE todo' = Rebuild /\ site \in nb
    <3>1. /\ Rebuild \in Seq(Call)
          /\ \A q \in Calls(Rebuild) : q.op = "create" => q.obj = site
          /\ Objs(Rebuild) \subseteq nb \cup Plan("default")
      BY <2>4, RebuildFacts
    <3>2. \A d : Device(d) \in Plan("default") => d \in Template(template)
      BY <1>1, PlanFacts DEF Octets
    <3> QED
      BY <2>4, <3>1, <3>2
  <2>5. CASE todo' = Destroy
    <3>1. /\ Destroy \in Seq(Call)
          /\ \A q \in Calls(Destroy) : q = DeleteCall \/ (q.op = "try" /\ q.obj \in Kinds(Owned))
      BY DestroyFacts
    <3>2. \A q \in Calls(Destroy) : q.op # "create" /\ (q.obj = site \/ q.obj \in nb)
      BY <3>1 DEF DeleteCall, Kinds
    <3>3. \A d : Device(d) # site
      BY Tags
    <3> QED
      BY <2>5, <3>1, <3>2, <3>3 DEF Objs
  <2> QED
    BY <1>2, <2>1, <2>2, <2>3, <2>4, <2>5
<1>5. SiteType'
  BY <1>1, <1>4 DEF SiteType
<1>6. Closed'
  BY <1>1, ParentsSame DEF Closed
<1>7. template = <<1, 0>> => \A d \in New : Device(d) \notin nb' \cup Objs(todo')
  BY <1>1, <1>4, Wants, SiteAssumption DEF TodoInv
<1>8. TodoInv'
  BY <1>1, <1>3, <1>4, <1>7 DEF TodoInv
<1> QED
  BY <1>5, <1>6, <1>8

LEMMA EditStep ==
    ASSUME SiteType, Closed, TodoInv, Edit
    PROVE SiteType' /\ Closed' /\ TodoInv'
<1>1. /\ field' = field /\ template' = template /\ fresh' = fresh /\ tool' = tool /\ todo' = todo /\ octet' = octet
      /\ outcome' = outcome /\ known' = known /\ stage' = stage /\ runs' = runs /\ faults' = faults
      /\ edits' \in Nat /\ disturbed' \in BOOLEAN /\ accident' \in BOOLEAN
  BY DEF Edit, SiteType
<1>2. nb' \subseteq Object /\ Closed' /\ wrong' \subseteq Devices /\ nb' \subseteq nb
  <2>1. CASE \E o \in nb \ {site, custom_fields} :
                /\ ~Protected(o)
                /\ nb' = nb \ ({o} \cup Cascade(o))
                /\ wrong' = {d \in wrong : Device(d) \in nb'}
                /\ linked' = linked \cap nb'
    <3>1. PICK o \in nb : /\ ~Protected(o)
                          /\ nb' = nb \ ({o} \cup Cascade(o))
                          /\ wrong' = {d \in wrong : Device(d) \in nb'}
                          /\ linked' = linked \cap nb'
      BY <2>1
    <3> QED
      BY <1>1, <3>1, RemovedClosed DEF SiteType
  <2>2. CASE \E d \in Devices \ wrong : Device(d) \in nb /\ wrong' = wrong \cup {d} /\ UNCHANGED <<nb, linked>>
    BY <1>1, <2>2, ParentsSame DEF SiteType, Closed
  <2> QED
    BY <2>1, <2>2 DEF Edit
<1>3. SiteType'
  BY <1>1, <1>2 DEF SiteType
<1>4. TodoInv'
  BY <1>1, <1>2 DEF TodoInv
<1> QED
  BY <1>2, <1>3, <1>4

LEMMA UpdateStep ==
    ASSUME SiteType, Closed, TodoInv, UpdateTemplate
    PROVE SiteType' /\ Closed' /\ TodoInv'
<1>1. /\ tool = "none" /\ todo = <<>> /\ template = <<1, 0>> /\ template' = <<1, 1>> /\ fresh' \in BOOLEAN
      /\ outcome' = "none" /\ nb' = nb /\ wrong' = wrong /\ field' = field /\ edits' = edits /\ tool' = tool
      /\ todo' = todo /\ octet' = octet /\ known' = known /\ stage' = stage /\ runs' = runs /\ faults' = faults
      /\ disturbed' = disturbed /\ accident' = accident /\ linked' = linked
  BY DEF UpdateTemplate, nb_vars, TodoInv
<1>2. SiteType'
  BY <1>1 DEF SiteType, Versions
<1>3. ASSUME NEW x \in nb PROVE Parents(x)' = Parents(x)
  <2>1. x \in Object
    BY DEF SiteType
  <2>2. CASE x[1] = "device"
    <3>1. x[2] \notin New
      BY <1>1, <2>1, <2>2, ObjectKinds DEF TodoInv
    <3>2. Type(x[2])' = Type(x[2])
      BY <3>1 DEF Type
    <3> QED
      BY <2>2, <3>2 DEF Parents
  <2>3. CASE x[1] # "device"
    BY <2>3 DEF Parents
  <2> QED
    BY <2>2, <2>3
<1>4. Closed'
  BY <1>1, <1>3 DEF Closed
<1>5. <<1, 1>> # <<1, 0>>
  OBVIOUS
<1>6. TodoInv'
  BY <1>1, <1>5, EmptyFacts DEF TodoInv
<1> QED
  BY <1>2, <1>4, <1>6

\* A run that ends, and what leaves NetBox alone.
LEMMA StopStep ==
    ASSUME SiteType, Closed, TodoInv, Kill \/ Abort \/ Finish \/ Scan \/ Validate \/ Export \/ Package
    PROVE /\ SiteType' /\ Closed' /\ TodoInv'
          /\ nb' = nb /\ wrong' = wrong /\ field' = field /\ template' = template /\ fresh' = fresh
          /\ faults' = faults /\ disturbed' = disturbed
          /\ accident' = (accident \/ (Kill /\ todo # <<>>))
          /\ (tool' = "none" /\ todo' = <<>>)
             \/ (Over /\ tool = "pipeline" /\ UNCHANGED <<tool, todo, octet, outcome, known>>)
<1>1. /\ nb' = nb /\ wrong' = wrong /\ linked' = linked /\ field' = field /\ template' = template /\ fresh' = fresh
      /\ faults' = faults /\ disturbed' = disturbed /\ octet' = octet /\ runs' = runs /\ edits' = edits
  BY DEF Kill, Abort, Finish, Scan, Validate, Export, Package, Stop, nb_vars, env_vars
<1>2. \/ tool' = "none" /\ todo' = <<>> /\ known' = {}
      \/ Over /\ tool = "pipeline" /\ UNCHANGED <<tool, todo, octet, outcome, known>>
  BY DEF Kill, Abort, Finish, Scan, Validate, Export, Package, Stop
<1>3. outcome' \in {"none", "ok", "failed", "current", "outdated"} /\ stage' \in {"validate", "export", "package"}
  BY DEF Kill, Abort, Finish, Scan, Validate, Export, Package, Stop, SiteType
<1>4. accident \in BOOLEAN /\ accident' = (accident \/ (Kill /\ todo # <<>>))
  <2>1. accident \in BOOLEAN
    BY DEF SiteType
  <2>2. CASE Kill
    BY <2>1, <2>2 DEF Kill
  <2>3. CASE ~Kill
    <3>1. accident' = accident
      BY <2>3 DEF Abort, Finish, Scan, Validate, Export, Package
    <3> QED
      BY <2>1, <2>3, <3>1
  <2> QED
    BY <2>1, <2>2, <2>3
<1>5. todo' \in Seq(Call) /\ Calls(todo') \subseteq Calls(todo) /\ Objs(todo') \subseteq Objs(todo)
  BY <1>2, EmptyFacts DEF SiteType
<1>6. SiteType'
  <2>1. accident' \in BOOLEAN
    BY <1>4
  <2> QED
    BY <1>1, <1>2, <1>3, <1>5, <2>1 DEF SiteType
<1>7. Closed'
  BY <1>1, ParentsSame DEF Closed
<1>8. TodoInv'
  BY <1>1, <1>2, <1>5 DEF TodoInv
<1> QED
  BY <1>1, <1>2, <1>4, <1>6, <1>7, <1>8

LEMMA TypeStep ==
    ASSUME SiteType, Closed, TodoInv, Next
    PROVE SiteType' /\ Closed' /\ TodoInv'
<1>1. ASSUME NEW t \in Tools, Start(t) PROVE SiteType' /\ Closed' /\ TodoInv'
  BY <1>1, StartStep
<1>2. CASE Request \/ RequestFails
  BY <1>2, CallStep
<1>3. CASE Kill \/ Abort \/ Finish \/ Scan \/ Validate \/ Export \/ Package
  BY <1>3, StopStep
<1>4. CASE Edit
  BY <1>4, EditStep
<1>5. CASE UpdateTemplate
  BY <1>5, UpdateStep
<1> QED
  BY <1>1, <1>2, <1>3, <1>4, <1>5 DEF Next

-----------------------------------------------------------------------------
(***************************************************************************)
(* What every step keeps of the tools' work.                               *)
(***************************************************************************)
LEMMA PlanSame ==
    ASSUME template' = template, fresh' = fresh
    PROVE /\ Plan(octet)' = Plan(octet') /\ Basic' = Basic
          /\ \A z : PrefixesOf(z)' = PrefixesOf(z)
          /\ nb' = nb => TypesExist' = TypesExist
<1>1. Basic' = Basic
  BY DEF Basic, Template, CablesOf
<1>2. Plan(octet)' = Plan(octet')
  BY DEF Plan, Type, Template, CablesOf, Ifaces, PrefixesOf
<1>3. \A z : PrefixesOf(z)' = PrefixesOf(z)
  BY DEF PrefixesOf
<1>4. nb' = nb => TypesExist' = TypesExist
  BY DEF TypesExist, Type, Template
<1> QED
  BY <1>1, <1>2, <1>3, <1>4

LEMMA StartWork ==
    ASSUME SiteType, Closed, NEW t \in Tools, Start(t)
    PROVE WorkInv'
<1>1. /\ octet' \in Octets /\ tool' = t /\ outcome' = "none"
      /\ nb' = nb /\ field' = field /\ template' = template /\ fresh' = fresh
      /\ template \in Versions
  BY DEF Start, nb_vars, env_vars, SiteType
<1>2. ASSUME todo' = Generate(octet'), site \notin nb PROVE Generating'
  <2>1. /\ Ordered(Generate(octet')) /\ Objs(Generate(octet')) = Plan(octet')
        /\ \A q \in Calls(Generate(octet')) : q.op = (IF q.obj = site THEN "create" ELSE "ensure")
    BY <1>1, GenerateFacts
  <2>2. Plan(octet)' = Plan(octet')
    BY <1>1, PlanSame
  <2>3. \A q \in Calls(Generate(octet')) : q.obj \in Plan(octet')
    BY <2>1 DEF Objs
  <2> QED
    BY <1>1, <1>2, <2>1, <2>2, <2>3 DEF Generating
<1>3. ASSUME todo' = Fix, site \in nb, t \in {"fix", "pipeline"} PROVE Fixing'
  <2>1. /\ Ordered(Fix) /\ FixCalls(Fix)
        /\ Fix # <<>> => SyncCall \in Calls(Fix)
        /\ field.version # template => VersionCall \in Calls(Fix)
        /\ Basic \cup PrefixesOf("default") \subseteq nb \cup Objs(Fix)
    BY <1>3, FixFacts
  <2>2. Basic' = Basic /\ PrefixesOf("default")' = PrefixesOf("default")
    BY <1>1, PlanSame
  <2>3. FixCalls(todo)'
    BY <1>1, <1>3, <2>1 DEF FixCalls
  <2>4. known' = {d \in Devices : Device(d) \in nb}
    BY <1>3 DEF Start
  <2>5. Basic' \cup PrefixesOf("default")' \subseteq nb' \cup Objs(todo')
    BY <1>1, <1>3, <2>1, <2>2
  <2> QED
    BY <1>1, <1>3, <2>1, <2>3, <2>4, <2>5 DEF Fixing, VersionCall, SyncCall
<1>4. ASSUME todo' = Destroy, site \in nb PROVE Destroying'
  <2>1. /\ Ordered(Destroy)
        /\ \A q \in Calls(Destroy) : q = DeleteCall \/ (q.op = "try" /\ q.obj \in Kinds(Owned))
        /\ DeleteCall \in Calls(Destroy)
        /\ \A x \in Kinds(Owned) : TryCall(x) \in Calls(Destroy)
    BY DestroyFacts
  <2>2. Kinds(Owned)' = Kinds(Owned) /\ \A x \in Kinds(Owned) : x[1] \in Owned
    BY <1>1 DEF Kinds
  <2> QED
    BY <1>1, <1>4, <2>1, <2>2 DEF Destroying, DeleteCall, TryCall
<1>5. CASE t = "generate"
  <2>1. todo' = IF site \in nb THEN <<>> ELSE Generate(octet')
    BY <1>5 DEF Start
  <2> QED
    BY <1>1, <1>2, <1>5, <2>1 DEF WorkInv
<1>6. CASE t = "fix"
  <2>1. todo' = IF site \in nb THEN Fix ELSE <<>>
    BY <1>6 DEF Start
  <2> QED
    BY <1>1, <1>3, <1>6, <2>1 DEF WorkInv
<1>7. CASE t = "pipeline"
  <2>1. todo' = IF site \in nb THEN Fix ELSE Generate(octet')
    BY <1>7 DEF Start
  <2> QED
    BY <1>1, <1>2, <1>3, <1>7, <2>1 DEF WorkInv
<1>8. CASE t = "destroy"
  <2>1. todo' = IF site \in nb THEN Destroy ELSE <<>>
    BY <1>8 DEF Start
  <2> QED
    BY <1>1, <1>4, <1>8, <2>1 DEF WorkInv
<1>9. CASE t \in {"rebuild", "scan"}
  BY <1>1, <1>9 DEF WorkInv
<1> QED
  BY <1>5, <1>6, <1>7, <1>8, <1>9 DEF Tools

LEMMA WorkStep ==
    ASSUME SiteType, Closed, TodoInv, WorkInv, Next
    PROVE WorkInv'
<1>1. ASSUME NEW t \in Tools, Start(t) PROVE WorkInv'
  BY <1>1, StartWork
<1>2. CASE Request
  <2> SUFFICES ASSUME Quiet' PROVE WorkInv'
    BY DEF WorkInv
  <2>1. todo # <<>> /\ tool' = tool /\ Quiet
    BY <1>2 DEF Request, GoOn, Quiet
  <2>2. /\ tool = "generate" => Generating
        /\ tool = "fix"      => Fixing
        /\ tool = "pipeline" => Generating \/ Fixing
        /\ tool = "destroy"  => Destroying
    BY <2>1 DEF WorkInv
  <2>3. ASSUME Generating, tool \in {"generate", "pipeline"} PROVE Generating'
    BY <1>2, <2>1, <2>3, GeneratingStep
  <2>4. ASSUME Fixing PROVE Fixing'
    BY <1>2, <2>1, <2>4, FixingStep
  <2>5. ASSUME Destroying PROVE Destroying' \/ (site \notin nb' /\ todo' = <<>>)
    BY <1>2, <2>1, <2>5, DestroyingStep
  <2> QED
    BY <2>1, <2>2, <2>3, <2>4, <2>5 DEF WorkInv
<1>3. CASE RequestFails
  <2>1. faults' = faults + 1 /\ faults \in Nat
    BY <1>3 DEF RequestFails, SiteType
  <2> QED
    BY <2>1 DEF WorkInv, Quiet
<1>4. CASE Kill \/ Abort \/ Finish \/ Scan \/ Validate \/ Export \/ Package
  <2>1. /\ nb' = nb /\ field' = field /\ template' = template /\ fresh' = fresh
        /\ faults' = faults /\ disturbed' = disturbed
        /\ (tool' = "none" /\ todo' = <<>>)
           \/ (Over /\ tool = "pipeline" /\ UNCHANGED <<tool, todo, octet, outcome, known>>)
    BY <1>4, StopStep
  <2>2. CASE tool' = "none"
    BY <2>2 DEF WorkInv
  <2>3. CASE tool = "pipeline" /\ UNCHANGED <<tool, todo, octet, outcome, known>>
    <3>2. /\ Plan(octet)' = Plan(octet) /\ Basic' = Basic /\ TypesExist' = TypesExist
          /\ PrefixesOf("default")' = PrefixesOf("default")
      BY <2>1, <2>3, PlanSame
    <3>3. Generating => Generating'
      BY <2>1, <2>3, <3>2 DEF Generating
    <3>4. Fixing => Fixing'
      BY <2>1, <2>3, <3>2 DEF Fixing, FixCalls, VersionCall, SyncCall
    <3> QED
      BY <2>1, <2>3, <3>3, <3>4 DEF WorkInv, Quiet
  <2> QED
    BY <2>1, <2>2, <2>3
<1>5. CASE Edit
  <2>1. tool' = tool /\ (disturbed' \/ tool = "none")
    BY <1>5 DEF Edit
  <2> QED
    BY <2>1 DEF WorkInv, Quiet
<1>6. CASE UpdateTemplate
  <2>1. tool' = "none"
    BY <1>6 DEF UpdateTemplate
  <2> QED
    BY <2>1 DEF WorkInv
<1> QED
  BY <1>1, <1>2, <1>3, <1>4, <1>5, <1>6 DEF Next

\* A site whose version is neither older nor the template's does not exist.
LEMMA NotOutdated ==
    ASSUME SiteType, TodoInv, ~Outdated
    PROVE field.version = template
<1>1. field.version \in Versions /\ template \in Versions
  BY DEF SiteType
<1>2. <<1, 0>>[1] = 1 /\ <<1, 0>>[2] = 0 /\ <<1, 1>>[1] = 1 /\ <<1, 1>>[2] = 1
  OBVIOUS
<1>3. CASE template = <<1, 0>>
  BY <1>3 DEF TodoInv
<1>4. CASE template = <<1, 1>> /\ field.version = <<1, 0>>
  BY <1>2, <1>4 DEF Outdated
<1>5. CASE template = <<1, 1>> /\ field.version = <<1, 1>>
  BY <1>5
<1> QED
  BY <1>1, <1>3, <1>4, <1>5 DEF Versions

LEMMA WholeSame ==
    ASSUME Whole, nb' = nb, field' = field, template' = template, fresh' = fresh,
           todo' = todo \/ todo = <<>>
    PROVE Whole'
<1>1. Basic' = Basic /\ TypesExist' = TypesExist /\ PrefixesOf(field.octet)' = PrefixesOf(field.octet)
  <2>1. Basic' = Basic /\ TypesExist' = TypesExist
    BY PlanSame
  <2> QED
    BY <2>1 DEF PrefixesOf
<1>2. Objs(todo) \subseteq Objs(todo')
  BY EmptyFacts
<1> QED
  BY <1>1, <1>2 DEF Whole

LEMMA WholeStep ==
    ASSUME SiteType, Closed, TodoInv, WorkInv, HistoryInv, Request, ~accident, tool # "destroy", site \in nb'
    PROVE Whole'
<1>1. /\ todo # <<>> /\ tool # "none" /\ template' = template /\ fresh' = fresh /\ octet' = octet
      /\ octet \in Octets /\ faults \in Nat
  BY DEF Request, env_vars, SiteType
<1>2. Quiet /\ tool # "rebuild" /\ (site \in nb => Whole)
  BY <1>1 DEF HistoryInv, Quiet
<1>3. (tool \in {"generate", "pipeline"} /\ Generating) \/ Fixing
  BY <1>1, <1>2 DEF WorkInv, TodoInv, SiteType, Tools
<1>4. CASE tool \in {"generate", "pipeline"} /\ Generating
  <2>1. Generating'
    BY <1>1, <1>4, GeneratingStep
  <2>2. /\ field' = [version |-> template', octet |-> octet']
        /\ Plan(octet)' \subseteq nb' \cup Objs(todo')
    BY <2>1 DEF Generating
  <2>3. PrefixesOf(field.octet)' \subseteq Plan(octet)'
    BY <2>2 DEF Plan, PrefixesOf
  <2>4. Basic' \subseteq Plan(octet)' /\ rack \in Plan(octet)'
    BY DEF Basic, Plan
  <2> QED
    BY <2>2, <2>3, <2>4 DEF Whole
<1>5. CASE Fixing
  <2>1. /\ Fixing' /\ nb \subseteq nb' /\ field'.octet = field.octet
        /\ PrefixesOf(field.octet) \subseteq nb \cup Objs(todo)
           => PrefixesOf(field.octet) \subseteq nb' \cup Objs(todo')
    BY <1>1, <1>5, FixingStep
  <2>2. Whole
    BY <1>2, <1>5 DEF Fixing
  <2>3. PrefixesOf(field.octet)' = PrefixesOf(field.octet)
    BY <2>1 DEF PrefixesOf
  <2>4. rack \in nb
    <3>1. rack \in nb \cup Objs(todo) /\ FixCalls(todo)
      BY <1>5, <2>2 DEF Whole, Fixing
    <3>2. \A q \in Calls(todo) : q.obj = rack => rack \in nb
      BY <3>1, Tags DEF FixCalls, VersionCall, SyncCall
    <3> QED
      BY <3>1, <3>2 DEF Objs
  <2> QED
    BY <2>1, <2>2, <2>3, <2>4 DEF Whole, Fixing
<1> QED
  BY <1>3, <1>4, <1>5

LEMMA HistoryStep ==
    ASSUME SiteType, Closed, TodoInv, WorkInv, HistoryInv, Next
    PROVE HistoryInv'
<1>0. /\ faults > 0 \/ disturbed => accident
      /\ ~accident => wrong = {} /\ tool # "rebuild" /\ (tool # "destroy" /\ site \in nb => Whole)
      /\ outcome = "current" => tool = "none" /\ (accident \/ site \notin nb \/ field.version = template)
  BY DEF HistoryInv
<1>1. ASSUME NEW t \in Tools, Start(t) PROVE HistoryInv'
  <2>1. /\ tool = "none" /\ todo = <<>> /\ tool' = t /\ outcome' = "none" /\ faults' = 0 /\ disturbed' = FALSE
        /\ nb' = nb /\ wrong' = wrong /\ field' = field /\ template' = template /\ fresh' = fresh
        /\ accident' = (accident \/ t = "rebuild")
    BY <1>1 DEF Start, nb_vars, env_vars, TodoInv
  <2>2. Whole => Whole'
    BY <2>1, WholeSame
  <2>3. ~accident' => ~accident /\ tool' # "rebuild"
    BY <2>1
  <2>4. ~(faults' > 0 \/ disturbed') /\ outcome' # "current" /\ tool # "destroy"
    BY <2>1
  <2> QED
    BY <1>0, <2>1, <2>2, <2>3, <2>4 DEF HistoryInv
<1>2. CASE Request
  <2>1. /\ tool # "none" /\ tool' = tool /\ outcome' \in {outcome, "failed"} /\ wrong' \subseteq wrong
        /\ faults' = faults /\ disturbed' = disturbed /\ accident' = accident
    BY <1>2 DEF Request, GoOn, Do, DoPart
  <2> QED
    BY <1>0, <1>2, <2>1, WholeStep DEF HistoryInv
<1>3. CASE RequestFails
  <2>1. accident' = TRUE /\ tool # "none" /\ outcome' \in {outcome, "failed"}
    BY <1>3 DEF RequestFails, GoOn
  <2> QED
    BY <1>0, <2>1 DEF HistoryInv
<1>4. CASE Kill \/ Abort \/ Finish \/ Scan \/ Validate \/ Export \/ Package
  <2>1. /\ nb' = nb /\ wrong' = wrong /\ field' = field /\ template' = template /\ fresh' = fresh
        /\ faults' = faults /\ disturbed' = disturbed /\ accident' = (accident \/ (Kill /\ todo # <<>>))
        /\ (tool' = "none" /\ todo' = <<>>)
           \/ (Over /\ tool = "pipeline" /\ UNCHANGED <<tool, todo, octet, outcome, known>>)
    BY <1>4, StopStep
  <2>2. CASE tool = "pipeline" /\ UNCHANGED <<tool, todo, octet, outcome, known>>
    <3>1. Whole => Whole'
      BY <2>1, <2>2, WholeSame
    <3>2. ~accident' => ~accident
      BY <2>1
    <3>3. outcome' # "current"
      BY <1>0, <2>2
    <3>4. (faults' > 0 \/ disturbed') => accident'
      BY <1>0, <2>1
    <3> QED
      BY <1>0, <2>1, <2>2, <3>1, <3>2, <3>3, <3>4 DEF HistoryInv
  <2>3. CASE tool' = "none" /\ todo' = <<>>
    <3>1. ASSUME ~accident', site \in nb PROVE ~accident /\ tool # "destroy" /\ todo = <<>>
      <4>0. ~accident /\ ~(Kill /\ todo # <<>>)
        BY <2>1, <3>1
      <4>1. Quiet
        BY <1>0, <4>0 DEF Quiet, SiteType
      <4>2. tool = "destroy" => Destroying
        BY <3>1, <4>1 DEF WorkInv
      <4>3. CASE Abort
        <5>1. tool # "none" /\ outcome = "failed"
          BY <4>3 DEF Abort
        <5>2. tool \in {"generate", "fix", "pipeline", "destroy"} => outcome # "failed"
          BY <3>1, <4>1 DEF WorkInv, Generating, Fixing, Destroying
        <5> QED
          BY <1>0, <4>0, <5>1, <5>2 DEF TodoInv, Tools, SiteType
      <4>4. CASE Kill \/ Finish \/ Scan \/ Validate \/ Export \/ Package
        <5>1. todo = <<>>
          BY <4>0, <4>4 DEF Finish, Scan, Validate, Export, Package, Over
        <5>2. ~Destroying
          BY <5>1, EmptyFacts DEF Destroying
        <5> QED
          BY <4>0, <4>2, <5>1, <5>2
      <4> QED
        BY <1>4, <4>3, <4>4
    <3>2. ASSUME outcome' = "current" PROVE site \notin nb \/ field.version = template
      <4>1. Scan
        BY <1>4, <3>2, <2>3 DEF Kill, Abort, Finish, Validate, Export, Package, Stop
      <4>2. site \notin nb \/ ~Outdated
        BY <3>2, <4>1 DEF Scan, Stop
      <4> QED
        BY <4>2, NotOutdated
    <3>3. ASSUME ~accident', site \in nb PROVE Whole'
      <4>1. ~accident /\ tool # "destroy" /\ todo = <<>>
        BY <3>1, <3>3
      <4>2. Whole
        BY <1>0, <3>3, <4>1
      <4> QED
        BY <2>1, <4>1, <4>2, WholeSame
    <3>4. ~accident' => ~accident
      BY <2>1
    <3>5. (faults' > 0 \/ disturbed') => accident'
      BY <1>0, <2>1
    <3> QED
      BY <1>0, <2>1, <2>3, <3>2, <3>3, <3>4, <3>5 DEF HistoryInv
  <2> QED
    BY <2>1, <2>2, <2>3
<1>5. CASE Edit
  <2>1. accident' = TRUE /\ tool' = tool /\ outcome' = outcome
    BY <1>5 DEF Edit
  <2> QED
    BY <1>0, <2>1 DEF HistoryInv
<1>6. CASE UpdateTemplate
  <2>1. /\ tool = "none" /\ tool' = tool /\ todo' = todo /\ nb' = nb /\ wrong' = wrong /\ field' = field
        /\ template = <<1, 0>> /\ template' = <<1, 1>> /\ outcome' = "none"
        /\ faults' = faults /\ disturbed' = disturbed /\ accident' = accident
    BY <1>6 DEF UpdateTemplate, nb_vars
  <2>2. <<1, 0>> # <<1, 1>>
    OBVIOUS
  <2>3. field'.version # template'
    BY <2>1, <2>2 DEF TodoInv
  <2>4. PrefixesOf(field.octet)' = PrefixesOf(field.octet)
    BY <2>1 DEF PrefixesOf
  <2>5. Whole => Whole'
    BY <2>1, <2>3, <2>4 DEF Whole
  <2> QED
    BY <1>0, <2>1, <2>5 DEF HistoryInv
<1> QED
  BY <1>1, <1>2, <1>3, <1>4, <1>5, <1>6 DEF Next

\* The invariant, for any number of devices, VLANs, cables, runs, faults and
\* edits: what NetBox keeps consistent, and what each tool has still to do.
THEOREM SiteInvariant == Spec => []SiteInv
<1>1. Init => SiteInv
  <2> SUFFICES ASSUME Init PROVE SiteInv
    OBVIOUS
  <2>1. SiteType
    BY EmptyFacts DEF Init, SiteType, Versions, Octets
  <2>2. Closed /\ TodoInv
    BY EmptyFacts DEF Init, Closed, TodoInv
  <2>3. WorkInv /\ HistoryInv
    BY DEF Init, WorkInv, HistoryInv
  <2> QED
    BY <2>1, <2>2, <2>3 DEF SiteInv
<1>2. SiteInv /\ [Next]_vars => SiteInv'
  <2> SUFFICES ASSUME SiteInv, [Next]_vars PROVE SiteInv'
    OBVIOUS
  <2>1. CASE Next
    BY <2>1, TypeStep, WorkStep, HistoryStep DEF SiteInv
  <2>2. CASE UNCHANGED vars
    <3>0. UNCHANGED <<nb, wrong, linked, field, template, fresh, edits>>
      BY <2>2 DEF vars, nb_vars, env_vars
    <3>1. /\ template' = template /\ fresh' = fresh /\ nb' = nb /\ field' = field /\ todo' = todo /\ octet' = octet
          /\ outcome' = outcome /\ tool' = tool /\ known' = known
      BY <2>2, <3>0 DEF vars
    <3>2. SiteType' /\ TodoInv'
      BY <2>2, <3>0 DEF vars, SiteInv, SiteType, TodoInv
    <3>3. Closed'
      BY <3>0, ParentsSame DEF SiteInv, Closed
    <3>4. /\ Plan(octet)' = Plan(octet) /\ Basic' = Basic /\ TypesExist' = TypesExist
          /\ PrefixesOf("default")' = PrefixesOf("default")
      BY <3>1, PlanSame
    <3>5. Generating' = Generating /\ Fixing' = Fixing
      BY <3>1, <3>4 DEF Generating, Fixing, FixCalls, VersionCall, SyncCall
    <3>6. Destroying' = Destroying
      BY <3>1 DEF Destroying, Kinds, TryCall, DeleteCall
    <3>7. Whole => Whole'
      BY <3>1, WholeSame
    <3> QED
      BY <2>2, <3>0, <3>2, <3>3, <3>5, <3>6, <3>7 DEF vars, SiteInv, WorkInv, HistoryInv, Quiet
  <2> QED
    BY <2>1, <2>2
<1> QED
  BY <1>1, <1>2, PTL DEF Spec

-----------------------------------------------------------------------------
(***************************************************************************)
(* The properties.                                                         *)
(***************************************************************************)
\* One undisturbed fix repairs all drift that can be repaired, if the rack and the
\* types that the devices need are there (fix of site_regenerate.py).
THEOREM SiteFixConverges == Spec => []FixConverges
<1>1. SiteInv => FixConverges
  <2> SUFFICES ASSUME SiteInv, tool = "fix", todo = <<>>, site \in nb, Quiet, TypesExist, rack \in nb,
                      NEW i \in DOMAIN Drift
               PROVE Drift[i].op = "noop"
    BY DEF FixConverges
  <2>1. Fixing
    BY DEF SiteInv, WorkInv
  <2>2. field.version = template /\ Basic \cup PrefixesOf("default") \subseteq nb
    BY <2>1, EmptyFacts DEF Fixing
  <2>3. Drift[i] \in DriftCalls
    BY DriftFacts DEF Piece, Calls, SiteInv
  <2>4. \A op : Asked(op, {}) = {}
    BY DEF Asked
  <2>5. /\ {Device(d) : d \in Template(template)} \ nb = {} /\ {Vlan(v) : v \in Vlans} \ nb = {}
        /\ PrefixesOf("default") \ nb = {} /\ {Cable(c) : c \in CablesOf(template)} \ nb = {} /\ cluster \in nb
    BY <2>2 DEF Basic
  <2>6. DriftCalls = Asked("noop", {Device(d) : d \in wrong})
    BY <2>2, <2>4, <2>5 DEF DriftCalls, ClusterCalls
  <2> QED
    BY <2>3, <2>6, AskedFacts
<1> QED
  BY <1>1, SiteInvariant, PTL

LEMMA OnlyPrefixes ==
    ASSUME site \in nb, wrong = {}, Basic \subseteq nb
    PROVE Errors = PrefixesOf(field.octet) \ nb
<1>1. ValidateDevices = {} /\ ValidateVlans = {} /\ ValidateCables = {} /\ ValidateCluster = {}
  BY DEF Basic, ValidateDevices, ValidateVlans, ValidateCables, ValidateCluster
<1> QED
  BY <1>1 DEF Errors, ValidatePrefixes

\* The pipeline, run again without a fault, recovers from a tool that was cut off
\* or killed after any request, if the site has its rack and no model is wrong,
\* but for the prefixes of an octet that is not the template's (orchestrate.py).
THEOREM SitePipelineRecovers == Spec => []PipelineRecovers
<1>1. SiteInv => PipelineRecovers
  <2> SUFFICES ASSUME SiteInv, tool = "pipeline", todo = <<>>, Quiet, TypesExist, rack \in nb, wrong = {}
               PROVE Errors \subseteq PrefixesOf("given")
    BY DEF PipelineRecovers
  <2>1. CASE Generating
    <3>1. Plan(octet) \subseteq nb
      BY <2>1, EmptyFacts DEF Generating
    <3>2. site \in nb /\ Basic \subseteq nb
      BY <3>1 DEF Plan, Basic
    <3>3. field.octet = octet
      BY <2>1, <3>2 DEF Generating
    <3>4. PrefixesOf(field.octet) \subseteq nb
      BY <3>1, <3>3 DEF Plan
    <3> QED
      BY <3>2, <3>4, OnlyPrefixes
  <2>2. CASE Fixing
    <3>1. site \in nb /\ Basic \cup PrefixesOf("default") \subseteq nb
      BY <2>2, EmptyFacts DEF Fixing
    <3>2. Errors = PrefixesOf(field.octet) \ nb
      BY <3>1, OnlyPrefixes
    <3>3. field.octet \in {"default", "given"}
      BY DEF SiteInv, SiteType, Octets
    <3> QED
      BY <3>1, <3>2, <3>3
  <2> QED
    BY <2>1, <2>2 DEF SiteInv, WorkInv
<1> QED
  BY <1>1, SiteInvariant, PTL

\* destroy_site without a fault removes all that belongs to a site, in whatever
\* state it is (orchestrate.py).
THEOREM SiteDestroySucceeds == Spec => []DestroySucceeds
<1>1. SiteInv => DestroySucceeds
  <2> SUFFICES ASSUME SiteInv, tool = "destroy", todo = <<>>, Quiet, NEW o \in nb
               PROVE o[1] \in {"type", "custom_fields"}
    BY DEF DestroySucceeds
  <2>1. site \notin nb
    BY EmptyFacts DEF SiteInv, WorkInv, Destroying
  <2>2. \A x \in nb : x \in Object /\ Parents(x) \subseteq nb
    BY DEF SiteInv, SiteType, Closed
  <2>3. ASSUME NEW x \in nb PROVE x[1] \notin {"site", "rack", "group", "cluster", "vlan", "prefix", "device"}
    BY <2>1, <2>2, ObjectKinds, ParentFacts
  <2>4. ASSUME NEW x \in nb PROVE x[1] # "iface"
    <3> SUFFICES ASSUME x[1] = "iface" PROVE FALSE
      OBVIOUS
    <3>1. Device(x[2]) \in nb
      BY <2>2, ParentFacts
    <3> QED
      BY <2>3, <3>1, Tags
  <2>5. o[1] # "cable"
    <3> SUFFICES ASSUME o[1] = "cable" PROVE FALSE
      OBVIOUS
    <3>1. o[2] \in Cables /\ Parents(o) = {Iface(d, o[2]) : d \in Ends[o[2]]}
      BY <2>2, ObjectKinds, ParentFacts
    <3>2. PICK d \in Ends[o[2]] : TRUE
      BY <3>1, SiteAssumption
    <3>3. Iface(d, o[2]) \in nb
      BY <2>2, <3>1, <3>2
    <3> QED
      BY <2>4, <3>3, Tags
  <2>6. o[1] # "member"
    <3> SUFFICES ASSUME o[1] = "member" PROVE FALSE
      OBVIOUS
    <3>1. cluster \in nb
      BY <2>2, ParentFacts
    <3> QED
      BY <2>3, <3>1, Tags
  <2> QED
    BY <2>2, <2>3, <2>4, <2>5, <2>6, ObjectKinds DEF KindNames
<1> QED
  BY <1>1, SiteInvariant, PTL

\* A site that fleet_scan calls current validates, unless something was edited
\* by hand, a request was lost, or a rebuild was tried (fleet_scan.py).
THEOREM SiteCurrentMeansValid == Spec => []CurrentMeansValid
<1>1. SiteInv => CurrentMeansValid
  <2> SUFFICES ASSUME SiteInv, outcome = "current", site \in nb, ~accident, TypesExist PROVE Errors = {}
    BY DEF CurrentMeansValid
  <2>1. tool = "none" /\ field.version = template /\ wrong = {} /\ Whole
    BY DEF SiteInv, HistoryInv
  <2>2. todo = <<>>
    BY <2>1 DEF SiteInv, TodoInv
  <2>3. PrefixesOf(field.octet) \subseteq nb /\ Basic \subseteq nb
    BY <2>1, <2>2, EmptyFacts DEF Whole
  <2> QED
    BY <2>1, <2>3, OnlyPrefixes
<1> QED
  BY <1>1, SiteInvariant, PTL
=====
