----------------------------- MODULE VinfraProofs -----------------------------
(***************************************************************************)
(* Proofs about the virtual infrastructure, for any hosts and missions and *)
(* any number of runs and of lost requests.                                *)
(*                                                                         *)
(* VinfraInv is inductive.  TodoInv says what requests may be left of a    *)
(* step, PromiseInv what the steps that ended well have made or logged as  *)
(* failed, QuietInv that they failed at nothing else, Closed what the      *)
(* objects stand on, MotionInv and EdgelessInv what an adapter and a       *)
(* gateway get, RetryInv that in a run without a loss each request left    *)
(* finds what it needs, but for what the operator has to make.             *)
(***************************************************************************)
EXTENDS Vinfra, FiniteSetTheorems, TLAPS

-----------------------------------------------------------------------------
(***************************************************************************)
(* What the requests of a step are.                                        *)
(***************************************************************************)
Singles == {"vcsa", "dc", "cluster", "vds", "pg", "vsan", "ha", "drs", "library", "item", "content", "published",
            "manager", "overlay", "vlan", "pool", "profile", "registered", "tnp", "applied", "edge_cluster", "tier0",
            "locale", "uplink_segment", "uplink", "service"}
Kinds == {"host", "member", "ports", "disks", "vmk", "vmotion", "edge", "tier1", "segment", "group", "policy"}
PolicyNames == {"shared", "intra", "cross", "m2m", "mgmt"}
Object == {o(x) : x \in Singles} \cup (Kinds \X (Hosts \cup Range(Missions) \cup {"mgmt"} \cup PolicyNames))

Call == [op : {"ensure", "install", "create", "put"}, obj : Object, needs : SUBSET Object,
         on : {"raise", "collect", "ignore"}]
Calls(s) == {s[i] : i \in DOMAIN s}
Objs(s) == {q.obj : q \in Calls(s)}

\* What a step that ends well may have failed at.
Quiet(x) == x[1] \in {"pg", "member", "ports", "published", "service"}

\* What is only logged, what is not looked for, what the vCenter objects need, that nothing needs what a step
\* leaves out when it made nothing, and who stands on what the operator makes.
Proper(q) ==
    /\ q.on = "ignore" => Quiet(q.obj)
    /\ q.op \in {"install", "create"} => q.obj \in {o("vcsa"), o("manager"), item}
    /\ q.obj = item => q.op = "create"
    /\ q.obj = content => q.op = "put"
    /\ q.obj = o("vcsa") => q.op = "install"
    /\ q.obj = o("dc") => o("vcsa") \in q.needs
    /\ q.obj = o("cluster") => o("dc") \in q.needs
    /\ q.obj[1] = "vmk" => \E h \in Hosts : q.obj = vmk(h)
    /\ q.obj[1] = "policy" => \E p \in PolicyNames : q.obj = policy(p)
    /\ {content, published, o("uplink")} \cap q.needs = {}
    /\ q.obj \notin ByHand
    /\ q.needs \cap ByHand # {} => q.obj \in HandUsers /\ (q.on = "raise" \/ q.obj = o("uplink"))
    /\ \A h \in Hosts :
           /\ q.obj = host(h) => o("cluster") \in q.needs
           /\ q.obj = vmk(h) => {host(h), member(h), o("pg")} \subseteq q.needs
           /\ q.obj = vmotion(h) => q.op = "put" /\ q.needs = {vmk(h)}
           /\ vmotion(h) \notin q.needs

\* An adapter's request is followed by the one for its vMotion.
Pairs(s) ==
    \A i \in DOMAIN s, h \in Hosts :
        s[i].obj = vmk(h) => i + 1 \in DOMAIN s /\ s[i + 1].obj = vmotion(h)

Piece(s) == s \in Seq(Call) /\ (\A q \in Calls(s) : Proper(q)) /\ Pairs(s)

\* With the objects S, every request finds what it needs when those before it have been met.
Met(s, S) == \A i \in DOMAIN s : s[i].needs \subseteq S \cup {s[j].obj : j \in 1 .. i - 1}
-----------------------------------------------------------------------------
(***************************************************************************)
(* The inductive invariant.                                                *)
(***************************************************************************)
\* The steps that have begun, or been skipped, in the run.
At == Len(Steps[command]) - Len(steps)

InfraType ==
    /\ objs \subseteq Object /\ failed \subseteq Object /\ edgeless \subseteq Object
    /\ okay \in BOOLEAN /\ wide \in BOOLEAN /\ accident \in BOOLEAN
    /\ empty \in BOOLEAN /\ known \in BOOLEAN /\ linked \in BOOLEAN
    /\ faults \in Nat
    /\ command \in {"none", "vcenter", "vnet"}

\* The steps to come are the last ones of the command, and a dry run has none.
StepsInv ==
    /\ command = "none" => todo = <<>>
    /\ command # "none" =>
           /\ n \in 1 .. Len(Missions)
           /\ start \in 0 .. Len(Steps[command])
           /\ start = 0 => steps = <<>> /\ todo = <<>>
           /\ start > 0 => \E i \in start .. Len(Steps[command]) + 1 :
                              steps = SubSeq(Steps[command], i, Len(Steps[command]))

TodoInv ==
    /\ Piece(todo)
    /\ {o("vcsa"), o("manager")} \cap Objs(todo) # {} => start = 1
    /\ Full /\ (\E x \in Objs(todo) : Gateway(x)) => o("edge_cluster") \in objs

\* What is there needs what is there.
Closed ==
    /\ o("dc") \in objs => o("vcsa") \in objs
    /\ o("cluster") \in objs => o("dc") \in objs
    /\ \A h \in Hosts :
           /\ host(h) \in objs => o("cluster") \in objs
           /\ vmk(h) \in objs => {host(h), member(h), o("pg")} \subseteq objs

ScopeInv ==
    /\ DOMAIN scope = {p \in PolicyNames : policy(p) \in objs}
    /\ \A p \in DOMAIN scope : scope[p].n \in 1 .. Len(Missions) /\ scope[p].wide \in BOOLEAN

\* What a step that ends well has made for k missions, or has logged: disk groups and segments if the steps
\* before it have run.
PromiseOf(s, k, full) ==
    CASE s = "vcsa_deploy" -> {o("vcsa")}
      [] s = "cluster" -> {o("dc"), o("cluster")} \cup {host(h) : h \in Hosts}
      [] s = "vds" -> {o("vds"), o("pg")} \cup {member(h) : h \in Hosts} \cup {ports(x) : x \in {"mgmt"} \cup Mission(k)}
      [] s = "storage" -> {o("vsan")} \cup (IF full THEN {disks(h) : h \in Hosts \ Flash} ELSE {})
      [] s = "ha_drs" -> {o("ha"), o("drs")} \cup {vmk(h) : h \in Hosts}
      [] s = "content_library" -> {o("library"), item, content, published}
      [] s = "manager" -> {o("manager")}
      [] s = "transport" -> {o("overlay"), o("vlan"), o("pool"), o("profile")}
      [] s = "host_tnp" -> {o("tnp"), o("applied")}
      [] s = "edge" -> {edge(m) : m \in Mission(k)} \cup {o("edge_cluster")}
      [] s = "tier0" -> {o("tier0"), o("locale")} \cup (IF linked THEN {o("uplink")} ELSE {})
      [] s = "tier1" -> {t1(m) : m \in {"mgmt"} \cup Mission(k)}
      [] s = "segments" -> IF full THEN {segment(m) : m \in {"mgmt"} \cup Mission(k)} ELSE {}
      [] s = "firewall" -> {Group(m) : m \in {"mgmt"} \cup Mission(k)} \cup {policy(p) : p \in PolicyNames}

Promise(s) == PromiseOf(s, n, Full)

\* As long as nothing failed, what was asked for is there, was logged, or is still in the step's requests.
PromiseInv ==
    command # "none" /\ start > 0 /\ okay =>
        \A i \in start .. At : PromiseOf(Steps[command][i], n, Full) \subseteq objs \cup failed \cup Objs(todo)

QuietInv == command # "none" /\ okay => \A x \in failed : Quiet(x)

\* Unless something was lost, an adapter has its vMotion or is about to get it.
MotionInv ==
    ~accident =>
        \A h \in Hosts :
            vmk(h) \in objs => vmotion(h) \in objs \/ (todo # <<>> /\ R.obj = vmotion(h))

EdgelessInv == Full /\ faults = 0 => edgeless = {}

\* No request of this run was lost, and it can find the appliance.
Lossless == Full /\ faults = 0 /\ (start = 2 => Appliance \in objs)

Excused ==
    {x \in objs : x \in {o("vcsa"), o("manager"), item} \/ (empty /\ Nsx(x))}
    \cup (IF ByHand \subseteq objs THEN {} ELSE HandUsers)

RetryInv == command # "none" /\ Lossless => Met(todo, objs \cup ByHand) /\ failed \subseteq Excused

VinfraInv ==
    /\ InfraType /\ StepsInv /\ TodoInv /\ Closed /\ ScopeInv
    /\ PromiseInv /\ QuietInv /\ MotionInv /\ EdgelessInv /\ RetryInv
-----------------------------------------------------------------------------
(***************************************************************************)
(* Sequences of requests.                                                  *)
(***************************************************************************)
\* SetToSeq lists every element of a finite set once.
LEMMA ListFacts ==
    ASSUME NEW S, IsFiniteSet(S)
    PROVE /\ Cardinality(S) \in Nat
          /\ SetToSeq(S) \in [1..Cardinality(S) -> S]
          /\ \A i, j \in 1..Cardinality(S) : SetToSeq(S)[i] = SetToSeq(S)[j] => i = j
          /\ \A x \in S : \E i \in 1..Cardinality(S) : SetToSeq(S)[i] = x
<1> DEFINE k == Cardinality(S)
<1>1. k \in Nat /\ ExistsBijection(1..k, S)
  BY FS_CardinalityType
<1>2. PICK g \in Bijection(1..k, S) : TRUE
  BY <1>1 DEF ExistsBijection
<1>3. g \in [1..k -> S] /\ IsInjective(g)
  BY <1>2 DEF Bijection, Injection
<1>4. SetToSeq(S) \in [1..k -> S] /\ IsInjective(SetToSeq(S))
  BY <1>3 DEF SetToSeq
<1>5. SetToSeq(S) \in Injection(1..k, S)
  BY <1>4 DEF Injection
<1>6. IsFiniteSet(1..k) /\ Cardinality(1..k) = k
  BY <1>1, FS_Interval
<1>7. SetToSeq(S) \in Surjection(1..k, S)
  BY <1>5, <1>6, FS_Injection
<1> QED
  BY <1>1, <1>4, <1>7 DEF Surjection, IsInjective

LEMMA OneFacts ==
    ASSUME NEW q \in Call, Proper(q), q.obj[1] # "vmk"
    PROVE /\ Piece(<<q>>) /\ Objs(<<q>>) = {q.obj}
          /\ \A S : q.needs \subseteq S => Met(<<q>>, S)
<1>1. <<q>> \in Seq(Call) /\ DOMAIN <<q>> = {1} /\ <<q>>[1] = q
  OBVIOUS
<1>2. Calls(<<q>>) = {q}
  BY <1>1 DEF Calls
<1>3. Pairs(<<q>>)
  BY <1>1 DEF Pairs, vmk
<1>4. ASSUME NEW S, q.needs \subseteq S PROVE Met(<<q>>, S)
  BY <1>1, <1>4 DEF Met
<1>5. Objs(<<q>>) = {q.obj}
  BY <1>2 DEF Objs
<1> QED
  BY <1>1, <1>2, <1>3, <1>4, <1>5 DEF Piece

LEMMA EachFacts ==
    ASSUME NEW D, IsFiniteSet(D), NEW req \in [D -> Call],
           \A x \in D : Proper(req[x]) /\ req[x].obj[1] # "vmk"
    PROVE /\ Piece(ForEach(req)) /\ Objs(ForEach(req)) = {req[x].obj : x \in D}
          /\ \A S : (\A x \in D : req[x].needs \subseteq S) => Met(ForEach(req), S)
<1> DEFINE e == ForEach(req)
           k == Cardinality(D)
           f == SetToSeq(D)
<1>1. k \in Nat /\ f \in [1..k -> D] /\ \A x \in D : \E i \in 1..k : f[i] = x
  BY ListFacts
<1>2. e = [i \in 1..k |-> req[f[i]]]
  BY DEF ForEach
<1> HIDE DEF e, k, f
<1>3. e \in Seq(Call) /\ DOMAIN e = 1..k
  BY <1>1, <1>2
<1>4. \A i \in 1..k : e[i] = req[f[i]] /\ f[i] \in D
  BY <1>1, <1>2
<1>5. Calls(e) = {req[x] : x \in D}
  <2>1. \A i \in 1..k : e[i] \in {req[x] : x \in D}
    BY <1>4
  <2>2. ASSUME NEW x \in D PROVE req[x] \in Calls(e)
    <3>1. PICK i \in 1..k : f[i] = x
      BY <1>1
    <3> QED
      BY <1>3, <1>4, <3>1 DEF Calls
  <2> QED
    BY <1>3, <2>1, <2>2 DEF Calls
<1>6. Pairs(e)
  BY <1>3, <1>4 DEF Pairs, vmk
<1>7. ASSUME NEW S, \A x \in D : req[x].needs \subseteq S PROVE Met(e, S)
  BY <1>3, <1>4, <1>7 DEF Met
<1>8. \A q \in Calls(e) : Proper(q)
  BY <1>5
<1>9. Objs(e) = {req[x].obj : x \in D}
  BY <1>5 DEF Objs
<1> QED
  BY <1>3, <1>5, <1>6, <1>7, <1>8, <1>9 DEF e, Piece

LEMMA Halves ==
    ASSUME NEW k \in Nat, NEW i \in 1..2 * k
    PROVE /\ i % 2 = 1 => (i + 1) \div 2 \in 1..k /\ i = 2 * ((i + 1) \div 2) - 1
          /\ i % 2 # 1 => i \div 2 \in 1..k /\ i = 2 * (i \div 2)
<1>1. i \in Int /\ i >= 1 /\ i <= 2 * k
  OBVIOUS
<1>2. PICK m \in Int : m = i \div 2
  BY <1>1
<1>3. i = 2 * m \/ i = 2 * m + 1
  BY <1>1, <1>2
<1>4. CASE i = 2 * m
  BY <1>1, <1>2, <1>4
<1>5. CASE i = 2 * m + 1
  <2>1. i % 2 = 1 /\ (i + 1) \div 2 = m + 1
    BY <1>2, <1>5
  <2> QED
    BY <1>1, <1>5, <2>1
<1> QED
  BY <1>3, <1>4, <1>5

\* The same for two requests, of which the first may be an adapter's and the second its vMotion's.
LEMMA TwoFacts ==
    ASSUME NEW D, IsFiniteSet(D), NEW req \in [D -> Call], NEW next \in [D -> Call],
           \A x \in D : Proper(req[x]) /\ Proper(next[x]),
           \A x \in D : req[x].obj = vmk(x) /\ next[x].obj = vmotion(x)
    PROVE /\ Piece(ForEachTwo(req, next))
          /\ Objs(ForEachTwo(req, next)) = {req[x].obj : x \in D} \cup {next[x].obj : x \in D}
          /\ \A S : (\A x \in D : req[x].needs \subseteq S /\ next[x].needs \subseteq S \cup {req[x].obj})
                     => Met(ForEachTwo(req, next), S)
<1> DEFINE e == ForEachTwo(req, next)
           k == Cardinality(D)
           f == SetToSeq(D)
<1>1. k \in Nat /\ f \in [1..k -> D] /\ \A x \in D : \E i \in 1..k : f[i] = x
  BY ListFacts
<1>2. e = [i \in 1..2 * k |-> IF i % 2 = 1 THEN req[f[(i + 1) \div 2]] ELSE next[f[i \div 2]]]
  BY DEF ForEachTwo
<1> HIDE DEF e, k, f
<1>3. ASSUME NEW i \in 1..2 * k
      PROVE \E j \in 1..k : \/ i = 2 * j - 1 /\ e[i] = req[f[j]]
                            \/ i = 2 * j /\ e[i] = next[f[j]]
  <2>1. CASE i % 2 = 1
    <3>1. (i + 1) \div 2 \in 1..k /\ i = 2 * ((i + 1) \div 2) - 1
      BY <1>1, <2>1, Halves
    <3> QED
      BY <1>2, <2>1, <3>1
  <2>2. CASE i % 2 # 1
    <3>1. i \div 2 \in 1..k /\ i = 2 * (i \div 2)
      BY <1>1, <2>2, Halves
    <3> QED
      BY <1>2, <2>2, <3>1
  <2> QED
    BY <2>1, <2>2
<1>4. ASSUME NEW j \in 1..k
      PROVE /\ 2 * j - 1 \in 1..2 * k /\ e[2 * j - 1] = req[f[j]]
            /\ 2 * j \in 1..2 * k /\ e[2 * j] = next[f[j]]
  <2>1. 2 * j - 1 \in 1..2 * k /\ 2 * j \in 1..2 * k
    BY <1>1
  <2>2. (2 * j - 1) % 2 = 1 /\ ((2 * j - 1) + 1) \div 2 = j
    BY <1>1
  <2>3. (2 * j) % 2 = 0 /\ (2 * j) \div 2 = j
    BY <1>1
  <2> QED
    BY <1>2, <2>1, <2>2, <2>3
<1>5. DOMAIN e = 1..2 * k /\ \A i \in 1..2 * k : e[i] \in Call
  <2>1. DOMAIN e = 1..2 * k
    BY <1>2
  <2>2. \A j \in 1..k : f[j] \in D
    BY <1>1
  <2>3. \A i \in 1..2 * k : e[i] \in Call
    BY <1>3, <2>2
  <2> QED
    BY <2>1, <2>3
<1>6. e \in Seq(Call)
  <2>1. e = [i \in 1..2 * k |-> e[i]]
    BY <1>2
  <2>2. e \in [1..2 * k -> Call] /\ 2 * k \in Nat
    BY <1>1, <1>5, <2>1
  <2> QED
    BY <2>2
<1>7. Calls(e) = {req[x] : x \in D} \cup {next[x] : x \in D}
  <2>1. \A i \in 1..2 * k : e[i] \in {req[x] : x \in D} \cup {next[x] : x \in D}
    BY <1>1, <1>3
  <2>2. ASSUME NEW x \in D PROVE req[x] \in Calls(e) /\ next[x] \in Calls(e)
    <3>1. PICK j \in 1..k : f[j] = x
      BY <1>1
    <3> QED
      BY <1>4, <1>5, <3>1 DEF Calls
  <2> QED
    BY <1>5, <2>1, <2>2 DEF Calls
<1>8. Pairs(e)
  <2> SUFFICES ASSUME NEW i \in 1..2 * k, NEW h \in Hosts, e[i].obj = vmk(h)
               PROVE i + 1 \in DOMAIN e /\ e[i + 1].obj = vmotion(h)
    BY <1>5 DEF Pairs
  <2>1. PICK j \in 1..k : \/ i = 2 * j - 1 /\ e[i] = req[f[j]]
                          \/ i = 2 * j /\ e[i] = next[f[j]]
    BY <1>3
  <2>2. f[j] \in D
    BY <1>1
  <2>3. e[i] # next[f[j]]
    BY <2>2 DEF vmk, vmotion
  <2>4. i = 2 * j - 1 /\ vmk(f[j]) = vmk(h)
    BY <2>1, <2>2, <2>3
  <2>5. f[j] = h
    BY <2>4 DEF vmk
  <2>6. i + 1 = 2 * j
    BY <2>4
  <2> QED
    BY <1>4, <1>5, <2>2, <2>5, <2>6
<1>9. ASSUME NEW S, \A x \in D : req[x].needs \subseteq S /\ next[x].needs \subseteq S \cup {req[x].obj}
      PROVE Met(e, S)
  <2> SUFFICES ASSUME NEW i \in 1..2 * k PROVE e[i].needs \subseteq S \cup {e[j].obj : j \in 1..i - 1}
    BY <1>5 DEF Met
  <2>1. PICK j \in 1..k : \/ i = 2 * j - 1 /\ e[i] = req[f[j]]
                          \/ i = 2 * j /\ e[i] = next[f[j]]
    BY <1>3
  <2>2. f[j] \in D
    BY <1>1
  <2>3. CASE i = 2 * j - 1 /\ e[i] = req[f[j]]
    BY <1>9, <2>2, <2>3
  <2>4. CASE i = 2 * j /\ e[i] = next[f[j]]
    <3>1. e[2 * j - 1] = req[f[j]]
      BY <1>4
    <3>2. 2 * j - 1 \in 1..i - 1
      BY <2>4
    <3>3. req[f[j]].obj \in {e[m].obj : m \in 1..i - 1}
      BY <3>1, <3>2
    <3> QED
      BY <1>9, <2>2, <2>4, <3>3
  <2> QED
    BY <2>1, <2>3, <2>4
<1>10. \A q \in Calls(e) : Proper(q)
  BY <1>7
<1>11. Objs(e) = {req[x].obj : x \in D} \cup {next[x].obj : x \in D}
  BY <1>7 DEF Objs
<1> QED
  BY <1>6, <1>7, <1>8, <1>9, <1>10, <1>11 DEF e, Piece

\* Of two sequences, one behind the other.
LEMMA ConcatFacts ==
    ASSUME NEW s \in Seq(Call), NEW t \in Seq(Call)
    PROVE /\ Len(s) \in Nat /\ Len(t) \in Nat /\ DOMAIN s = 1..Len(s) /\ DOMAIN t = 1..Len(t)
          /\ s \o t \in Seq(Call) /\ DOMAIN (s \o t) = 1..Len(s) + Len(t)
          /\ \A i \in 1..Len(s) : (s \o t)[i] = s[i]
          /\ \A i \in 1..Len(s) + Len(t) : i > Len(s) => (s \o t)[i] = t[i - Len(s)]
          /\ \A i \in 1..Len(t) : (s \o t)[Len(s) + i] = t[i]
OBVIOUS

LEMMA CallsConcat ==
    ASSUME NEW s \in Seq(Call), NEW t \in Seq(Call)
    PROVE s \o t \in Seq(Call) /\ Calls(s \o t) = Calls(s) \cup Calls(t)
<1>1. ASSUME NEW i \in DOMAIN s PROVE s[i] \in Calls(s \o t)
  BY ConcatFacts DEF Calls
<1>2. ASSUME NEW i \in DOMAIN t PROVE t[i] \in Calls(s \o t)
  <2>1. Len(s) + i \in DOMAIN (s \o t) /\ (s \o t)[Len(s) + i] = t[i]
    BY ConcatFacts
  <2> QED
    BY <2>1 DEF Calls
<1>3. ASSUME NEW i \in DOMAIN (s \o t) PROVE (s \o t)[i] \in Calls(s) \cup Calls(t)
  <2>1. CASE i <= Len(s)
    BY <2>1, ConcatFacts DEF Calls
  <2>2. CASE ~ (i <= Len(s))
    <3>1. i - Len(s) \in DOMAIN t /\ (s \o t)[i] = t[i - Len(s)]
      BY <2>2, ConcatFacts
    <3> QED
      BY <3>1 DEF Calls
  <2> QED
    BY <2>1, <2>2
<1>4. Calls(s) \subseteq Calls(s \o t) /\ Calls(t) \subseteq Calls(s \o t)
  BY <1>1, <1>2 DEF Calls
<1>5. Calls(s \o t) \subseteq Calls(s) \cup Calls(t)
  BY <1>3 DEF Calls
<1> QED
  BY <1>4, <1>5, ConcatFacts

LEMMA PieceConcat ==
    ASSUME NEW s, NEW t, Piece(s), Piece(t)
    PROVE /\ Piece(s \o t) /\ Objs(s \o t) = Objs(s) \cup Objs(t)
          /\ \A S : Met(s, S) /\ Met(t, S \cup Objs(s)) => Met(s \o t, S)
<1>1. s \in Seq(Call) /\ t \in Seq(Call)
  BY DEF Piece
<1>2. s \o t \in Seq(Call) /\ Calls(s \o t) = Calls(s) \cup Calls(t)
  BY <1>1, CallsConcat
<1>3. Pairs(s \o t)
  <2> SUFFICES ASSUME NEW i \in DOMAIN (s \o t), NEW h \in Hosts, (s \o t)[i].obj = vmk(h)
               PROVE i + 1 \in DOMAIN (s \o t) /\ (s \o t)[i + 1].obj = vmotion(h)
    BY DEF Pairs
  <2>1. CASE i <= Len(s)
    <3>1. i \in DOMAIN s /\ (s \o t)[i] = s[i]
      BY <1>1, <2>1, ConcatFacts
    <3>2. i + 1 \in DOMAIN s /\ s[i + 1].obj = vmotion(h)
      BY <3>1 DEF Piece, Pairs
    <3> QED
      BY <1>1, <3>2, ConcatFacts
  <2>2. CASE i > Len(s)
    <3>1. i - Len(s) \in DOMAIN t /\ (s \o t)[i] = t[i - Len(s)]
      BY <1>1, <2>2, ConcatFacts
    <3>2. (i - Len(s)) + 1 \in DOMAIN t /\ t[(i - Len(s)) + 1].obj = vmotion(h)
      BY <3>1 DEF Piece, Pairs
    <3>3. i \in Nat /\ Len(s) \in Nat /\ (i - Len(s)) + 1 = (i + 1) - Len(s)
      BY <1>1, ConcatFacts
    <3>4. i + 1 \in DOMAIN (s \o t) /\ i + 1 > Len(s)
      BY <1>1, <2>2, <3>2, <3>3, ConcatFacts
    <3> QED
      BY <1>1, <3>2, <3>3, <3>4, ConcatFacts
  <2> QED
    BY <1>1, <2>1, <2>2, ConcatFacts
<1>4. ASSUME NEW S, Met(s, S), Met(t, S \cup Objs(s)) PROVE Met(s \o t, S)
  <2> DEFINE u == s \o t
  <2> SUFFICES ASSUME NEW i \in DOMAIN u PROVE u[i].needs \subseteq S \cup {u[j].obj : j \in 1..i - 1}
    BY DEF Met
  <2>1. CASE i <= Len(s)
    <3>1. i \in DOMAIN s /\ u[i] = s[i] /\ \A j \in 1..i - 1 : u[j] = s[j]
      BY <1>1, <2>1, ConcatFacts
    <3>2. {u[j].obj : j \in 1..i - 1} = {s[j].obj : j \in 1..i - 1}
      BY <3>1
    <3>3. s[i].needs \subseteq S \cup {s[j].obj : j \in 1..i - 1}
      BY <1>4, <3>1 DEF Met
    <3> QED
      BY <3>1, <3>2, <3>3
  <2>2. CASE i > Len(s)
    <3> DEFINE l == i - Len(s)
    <3>1. i \in Nat /\ Len(s) \in Nat /\ Len(t) \in Nat /\ l \in DOMAIN t /\ u[i] = t[l]
      BY <1>1, <2>2, ConcatFacts
    <3>2. t[l].needs \subseteq S \cup Objs(s) \cup {t[j].obj : j \in 1..l - 1}
      BY <1>4, <3>1 DEF Met
    <3>3. ASSUME NEW j \in 1..l - 1 PROVE t[j].obj \in {u[m].obj : m \in 1..i - 1}
      <4>1. j \in 1..Len(t) /\ Len(s) + j \in 1..i - 1
        BY <1>1, <3>1, ConcatFacts
      <4>2. u[Len(s) + j] = t[j]
        BY <1>1, <4>1, ConcatFacts
      <4> QED
        BY <4>1, <4>2
    <3>4. ASSUME NEW j \in DOMAIN s PROVE s[j].obj \in {u[m].obj : m \in 1..i - 1}
      <4>1. j \in 1..i - 1 /\ u[j] = s[j]
        BY <1>1, <2>2, <3>1, ConcatFacts
      <4> QED
        BY <4>1
    <3>5. Objs(s) \subseteq {u[m].obj : m \in 1..i - 1}
      BY <3>4 DEF Objs, Calls
    <3>6. {t[j].obj : j \in 1..l - 1} \subseteq {u[m].obj : m \in 1..i - 1}
      BY <3>3
    <3>7. u[i].needs = t[l].needs
      BY <3>1
    <3> HIDE DEF u, l
    <3> QED
      BY <3>2, <3>5, <3>6, <3>7
  <2> QED
    BY <1>1, <2>1, <2>2, ConcatFacts
<1>5. Objs(s \o t) = Objs(s) \cup Objs(t)
  BY <1>2 DEF Objs
<1> QED
  BY <1>2, <1>3, <1>4, <1>5 DEF Piece

LEMMA EmptyFacts ==
    Piece(<<>>) /\ Calls(<<>>) = {} /\ Objs(<<>>) = {} /\ \A S : Met(<<>>, S)
<1>1. <<>> \in Seq(Call) /\ DOMAIN <<>> = {}
  OBVIOUS
<1> QED
  BY <1>1 DEF Calls, Objs, Met, Piece, Pairs

-----------------------------------------------------------------------------
(***************************************************************************)
(* The objects.                                                            *)
(***************************************************************************)
LEMMA Tags ==
    /\ item = o("item") /\ content = o("content") /\ published = o("published") /\ service = o("service")
    /\ \A x : o(x)[1] = x /\ ports(x)[1] = "ports"
    /\ \A h : host(h)[1] = "host" /\ host(h)[2] = h /\ member(h)[1] = "member" /\ disks(h)[1] = "disks"
    /\ \A h : vmk(h)[1] = "vmk" /\ vmk(h)[2] = h /\ vmotion(h)[1] = "vmotion" /\ vmotion(h)[2] = h
    /\ \A m : edge(m)[1] = "edge" /\ t1(m)[1] = "tier1" /\ segment(m)[1] = "segment" /\ Group(m)[1] = "group"
    /\ \A p : policy(p)[1] = "policy" /\ policy(p)[2] = p
BY DEF item, content, published, service, o, ports, host, member, disks, vmk, vmotion, edge, t1, segment, Group, policy

LEMMA AreObjects ==
    /\ \A x \in Singles : o(x) \in Object
    /\ \A h \in Hosts : {host(h), member(h), disks(h), vmk(h), vmotion(h)} \subseteq Object
    /\ \A m \in Range(Missions) \cup {"mgmt"} : {edge(m), t1(m), segment(m), Group(m), ports(m)} \subseteq Object
    /\ \A p \in PolicyNames : policy(p) \in Object
<1>1. \A k \in Kinds, y \in Hosts \cup Range(Missions) \cup {"mgmt"} \cup PolicyNames : <<k, y>> \in Object
  BY DEF Object
<1>2. \A x \in Singles : o(x) \in Object
  BY DEF Object
<1>3. {"host", "member", "ports", "disks", "vmk", "vmotion", "edge", "tier1", "segment", "group", "policy"} \subseteq Kinds
  BY DEF Kinds
<1>4. \A h \in Hosts : {host(h), member(h), disks(h), vmk(h), vmotion(h)} \subseteq Object
  BY <1>1, <1>3 DEF host, member, disks, vmk, vmotion
<1>5. \A m \in Range(Missions) \cup {"mgmt"} : {edge(m), t1(m), segment(m), Group(m), ports(m)} \subseteq Object
  BY <1>1, <1>3 DEF edge, t1, segment, Group, ports
<1>6. \A p \in PolicyNames : policy(p) \in Object
  BY <1>1, <1>3 DEF policy
<1> QED
  BY <1>2, <1>4, <1>5, <1>6

\* The missions of a configuration are a finite set.
LEMMA MissionFacts ==
    ASSUME NEW k \in 1 .. Len(Missions)
    PROVE /\ Mission(k) \subseteq Range(Missions) /\ IsFiniteSet(Mission(k)) /\ IsFiniteSet({"mgmt"} \cup Mission(k))
          /\ "mgmt" \notin Mission(k) /\ "server" \notin Mission(k) /\ IsFiniteSet(Hosts)
          /\ \A j \in k .. Len(Missions) : Mission(k) \subseteq Mission(j)
<1> DEFINE f == [i \in 1 .. k |-> Missions[i]]
<1>1. Missions \in Seq(Range(Missions) \ {"mgmt", "server"}) /\ Len(Missions) \in Nat
      /\ DOMAIN Missions = 1 .. Len(Missions)
  BY VinfraAssumption
<1>2. Mission(k) \subseteq Range(Missions) \ {"mgmt", "server"}
  BY <1>1 DEF Mission
<1>3. IsFiniteSet(1 .. k)
  BY FS_Interval
<1>4. f \in Surjection(1 .. k, Mission(k))
  BY DEF Surjection, Mission
<1>5. IsFiniteSet(Mission(k))
  BY <1>3, <1>4, FS_Surjection
<1>6. IsFiniteSet({"mgmt"} \cup Mission(k))
  BY <1>5, FS_Singleton, FS_Union
<1>7. \A j \in k .. Len(Missions) : Mission(k) \subseteq Mission(j)
  BY DEF Mission
<1> QED
  BY <1>2, <1>5, <1>6, <1>7, VinfraAssumption

\* A request that is as it has to be.
Row(op, x, needs, on) ==
    /\ op \in {"ensure", "install", "create", "put"} /\ x \in Object /\ needs \subseteq Object
    /\ on \in {"raise", "collect", "ignore"}
    /\ Proper(Req(op, x, needs, on))

LEMMA RowFacts ==
    ASSUME NEW op, NEW x, NEW needs, NEW on, Row(op, x, needs, on)
    PROVE /\ Req(op, x, needs, on) \in Call /\ Proper(Req(op, x, needs, on))
          /\ Req(op, x, needs, on).obj = x /\ Req(op, x, needs, on).needs = needs
BY DEF Row, Req, Call

LEMMA RowOne ==
    ASSUME NEW op, NEW x, NEW needs, NEW on, Row(op, x, needs, on), x[1] # "vmk"
    PROVE /\ Piece(One(op, x, needs, on)) /\ Objs(One(op, x, needs, on)) = {x}
          /\ \A S : needs \subseteq S => Met(One(op, x, needs, on), S)
<1> DEFINE q == Req(op, x, needs, on)
<1>1. q \in Call /\ Proper(q) /\ q.obj = x /\ q.needs = needs
  BY RowFacts
<1>2. One(op, x, needs, on) = <<q>>
  BY DEF One
<1> HIDE DEF q
<1> QED
  BY <1>1, <1>2, OneFacts

\* What the operator makes, and what nothing needs.
LEMMA HandTags ==
    /\ \A x : x[1] \notin {"registered", "uplink_segment"} => x \notin ByHand
    /\ \A s : (\A y \in s : y[1] \notin {"registered", "uplink_segment"}) => s \cap ByHand = {}
    /\ \A s : (\A y \in s : y[1] \notin {"content", "published", "vmotion", "uplink"}) =>
                  {content, published, o("uplink")} \cap s = {} /\ \A h \in Hosts : vmotion(h) \notin s
BY Tags DEF ByHand

\* What is nothing special needs no rule of its own.
LEMMA Plain ==
    ASSUME NEW op \in {"ensure", "put"}, NEW x \in Object, NEW needs \in SUBSET Object,
           NEW on \in {"raise", "collect", "ignore"}, on = "ignore" => Quiet(x),
           x[1] \notin {"item", "content", "vcsa", "dc", "cluster", "vmk", "policy", "host", "vmotion", "registered",
                        "uplink_segment"},
           \A y \in needs : y[1] \notin {"content", "published", "vmotion", "uplink", "registered", "uplink_segment"}
    PROVE Row(op, x, needs, on)
<1> DEFINE q == Req(op, x, needs, on)
<1>1. q.op = op /\ q.obj = x /\ q.needs = needs /\ q.on = on
  BY DEF Req
<1> HIDE DEF q
<1>2. {content, published, o("uplink")} \cap q.needs = {} /\ \A h \in Hosts : vmotion(h) \notin q.needs
  BY <1>1, HandTags
<1>3. q.obj # item /\ q.obj # content /\ q.obj # o("vcsa") /\ q.obj # o("dc") /\ q.obj # o("cluster")
  BY <1>1, Tags
<1>4. \A h \in Hosts : q.obj # host(h) /\ q.obj # vmk(h) /\ q.obj # vmotion(h)
  BY <1>1, Tags
<1>5. (q.on = "ignore" => Quiet(q.obj)) /\ q.op \notin {"install", "create"} /\ q.obj[1] # "vmk" /\ q.obj[1] # "policy"
  BY <1>1
<1>6. q.obj \notin ByHand /\ q.needs \cap ByHand = {}
  BY <1>1, HandTags
<1>7. Proper(q)
  BY <1>2, <1>3, <1>4, <1>5, <1>6 DEF Proper
<1> QED
  BY <1>7 DEF q, Row

\* The same for what stands on what the operator makes.
LEMMA Handed ==
    ASSUME NEW op \in {"ensure", "put"}, NEW x \in Object, NEW needs \in SUBSET Object,
           NEW on \in {"raise", "collect"}, x \in HandUsers /\ (on = "raise" \/ x = o("uplink")),
           x[1] \in {"applied", "uplink", "edge"},
           \A y \in needs : y[1] \notin {"content", "published", "vmotion", "uplink"}
    PROVE Row(op, x, needs, on)
<1> DEFINE q == Req(op, x, needs, on)
<1>1. q.op = op /\ q.obj = x /\ q.needs = needs /\ q.on = on
  BY DEF Req
<1> HIDE DEF q
<1>2. {content, published, o("uplink")} \cap q.needs = {} /\ \A h \in Hosts : vmotion(h) \notin q.needs
  BY <1>1, HandTags
<1>3. q.obj # item /\ q.obj # content /\ q.obj # o("vcsa") /\ q.obj # o("dc") /\ q.obj # o("cluster")
  BY <1>1, Tags
<1>4. \A h \in Hosts : q.obj # host(h) /\ q.obj # vmk(h) /\ q.obj # vmotion(h)
  BY <1>1, Tags
<1>5. q.on # "ignore" /\ q.op \notin {"install", "create"} /\ q.obj[1] # "vmk" /\ q.obj[1] # "policy"
  BY <1>1
<1>6. q.obj \notin ByHand
  BY <1>1, HandTags
<1>7. Proper(q)
  BY <1>1, <1>2, <1>3, <1>4, <1>5, <1>6 DEF Proper
<1> QED
  BY <1>7 DEF q, Row

\* Three sequences, one behind the other.
LEMMA ConcatThree ==
    ASSUME NEW a, NEW b, NEW c, Piece(a), Piece(b), Piece(c)
    PROVE /\ Piece((a \o b) \o c) /\ Objs((a \o b) \o c) = Objs(a) \cup Objs(b) \cup Objs(c)
          /\ \A S : Met(a, S) /\ Met(b, S \cup Objs(a)) /\ Met(c, S \cup Objs(a) \cup Objs(b))
                       => Met((a \o b) \o c, S)
<1>1. /\ Piece(a \o b) /\ Objs(a \o b) = Objs(a) \cup Objs(b)
      /\ \A S : Met(a, S) /\ Met(b, S \cup Objs(a)) => Met(a \o b, S)
  BY PieceConcat
<1>2. /\ Piece((a \o b) \o c) /\ Objs((a \o b) \o c) = Objs(a \o b) \cup Objs(c)
      /\ \A S : Met(a \o b, S) /\ Met(c, S \cup Objs(a \o b)) => Met((a \o b) \o c, S)
  BY <1>1, PieceConcat
<1>3. \A S : S \cup Objs(a \o b) = S \cup Objs(a) \cup Objs(b)
  BY <1>1
<1> QED
  BY <1>1, <1>2, <1>3

LEMMA ConcatFour ==
    ASSUME NEW a, NEW b, NEW c, NEW d, Piece(a), Piece(b), Piece(c), Piece(d)
    PROVE /\ Piece(((a \o b) \o c) \o d) /\ Objs(((a \o b) \o c) \o d) = Objs(a) \cup Objs(b) \cup Objs(c) \cup Objs(d)
          /\ \A S : Met(a, S) /\ Met(b, S \cup Objs(a)) /\ Met(c, S \cup Objs(a) \cup Objs(b))
                    /\ Met(d, S \cup Objs(a) \cup Objs(b) \cup Objs(c))
                       => Met(((a \o b) \o c) \o d, S)
<1> DEFINE e == (a \o b) \o c
<1>1. /\ Piece(e) /\ Objs(e) = Objs(a) \cup Objs(b) \cup Objs(c)
      /\ \A S : Met(a, S) /\ Met(b, S \cup Objs(a)) /\ Met(c, S \cup Objs(a) \cup Objs(b)) => Met(e, S)
  BY ConcatThree
<1> HIDE DEF e
<1>2. /\ Piece(e \o d) /\ Objs(e \o d) = Objs(e) \cup Objs(d)
      /\ \A S : Met(e, S) /\ Met(d, S \cup Objs(e)) => Met(e \o d, S)
  BY <1>1, PieceConcat
<1>3. \A S : S \cup Objs(e) = S \cup Objs(a) \cup Objs(b) \cup Objs(c)
  BY <1>1
<1>4. ((a \o b) \o c) \o d = e \o d
  BY DEF e
<1> QED
  BY <1>1, <1>2, <1>3, <1>4

-----------------------------------------------------------------------------
(***************************************************************************)
(* The steps: what they are to make, and what they need of what is there.  *)
(***************************************************************************)
LEMMA VcsaDeployFacts ==
    /\ Piece(VcsaDeploy) /\ Objs(VcsaDeploy) = {o("vcsa")} /\ \A S : Met(VcsaDeploy, S)
<1>1. o("vcsa") \in Object
  BY AreObjects DEF Singles
<1>2. Proper(Req("install", o("vcsa"), {}, "raise"))
  BY Tags, HandTags DEF Proper, Req, Quiet
<1>3. Row("install", o("vcsa"), {}, "raise")
  BY <1>1, <1>2 DEF Row
<1>4. o("vcsa")[1] # "vmk"
  BY Tags
<1> QED
  BY <1>3, <1>4, RowOne DEF VcsaDeploy

LEMMA ManagerFacts ==
    /\ Piece(Manager) /\ Objs(Manager) = {o("manager")} /\ \A S : Met(Manager, S)
<1>1. o("manager") \in Object
  BY AreObjects DEF Singles
<1>2. Proper(Req("install", o("manager"), {}, "raise"))
  BY Tags, HandTags DEF Proper, Req, Quiet
<1>3. Row("install", o("manager"), {}, "raise")
  BY <1>1, <1>2 DEF Row
<1>4. o("manager")[1] # "vmk"
  BY Tags
<1> QED
  BY <1>3, <1>4, RowOne DEF Manager

LEMMA ClusterFacts ==
    /\ Piece(Cluster) /\ Objs(Cluster) = {o("dc"), o("cluster")} \cup {host(h) : h \in Hosts}
    /\ \A S : o("vcsa") \in S => Met(Cluster, S)
<1> DEFINE a == One("ensure", o("dc"), {o("vcsa")}, "raise")
           b == One("ensure", o("cluster"), {o("dc")}, "raise")
           reqc == [h \in Hosts |-> Req("ensure", host(h), {o("cluster")}, "collect")]
           c == ForEach(reqc)
<1>1. {o("vcsa"), o("dc"), o("cluster")} \subseteq Object /\ \A h \in Hosts : host(h) \in Object
  BY AreObjects DEF Singles
<1>2. Piece(a) /\ Objs(a) = {o("dc")} /\ \A S : {o("vcsa")} \subseteq S => Met(a, S)
  <2>a. Proper(Req("ensure", o("dc"), {o("vcsa")}, "raise"))
    BY Tags, HandTags DEF Proper, Req, Quiet
  <2>1. Row("ensure", o("dc"), {o("vcsa")}, "raise")
    BY <1>1, <2>a DEF Row
  <2>2. o("dc")[1] # "vmk"
    BY Tags
  <2> QED
    BY <2>1, <2>2, RowOne
<1>3. Piece(b) /\ Objs(b) = {o("cluster")} /\ \A S : {o("dc")} \subseteq S => Met(b, S)
  <2>a. Proper(Req("ensure", o("cluster"), {o("dc")}, "raise"))
    BY Tags, HandTags DEF Proper, Req, Quiet
  <2>1. Row("ensure", o("cluster"), {o("dc")}, "raise")
    BY <1>1, <2>a DEF Row
  <2>2. o("cluster")[1] # "vmk"
    BY Tags
  <2> QED
    BY <2>1, <2>2, RowOne
<1>4. Piece(c) /\ Objs(c) = {host(h) : h \in Hosts}
      /\ \A S : {o("cluster")} \subseteq S => Met(c, S)
  <2>1. ASSUME NEW h \in Hosts
        PROVE reqc[h] \in Call /\ Proper(reqc[h]) /\ reqc[h].obj = host(h) /\ reqc[h].needs = {o("cluster")}
    <3>a. Proper(Req("ensure", host(h), {o("cluster")}, "collect"))
      BY Tags, HandTags DEF Proper, Req, Quiet
    <3>1. Row("ensure", host(h), {o("cluster")}, "collect")
      BY <1>1, <3>a DEF Row
    <3> DEFINE q == Req("ensure", host(h), {o("cluster")}, "collect")
    <3>2. reqc[h] = q
      OBVIOUS
    <3> HIDE DEF reqc
    <3>3. q \in Call /\ Proper(q) /\ q.obj = host(h) /\ q.needs = {o("cluster")}
      BY <3>1 DEF Row, Req, Call
    <3> HIDE DEF q
    <3> QED
      BY <3>2, <3>3
  <2>2. reqc \in [Hosts -> Call]
    BY <2>1
  <2> HIDE DEF reqc
  <2>3. \A h \in Hosts : Proper(reqc[h]) /\ reqc[h].obj[1] # "vmk"
    BY <2>1, Tags
  <2>4. IsFiniteSet(Hosts)
    BY VinfraAssumption
  <2>5. /\ Piece(c) /\ Objs(c) = {reqc[x].obj : x \in Hosts}
        /\ \A S : (\A x \in Hosts : reqc[x].needs \subseteq S) => Met(c, S)
    BY <2>2, <2>3, <2>4, EachFacts
  <2>6. {reqc[x].obj : x \in Hosts} = {host(h) : h \in Hosts}
    BY <2>1
  <2> QED
    BY <2>1, <2>5, <2>6
<1> HIDE DEF a, b, c
<1>5. /\ Piece((a \o b) \o c) /\ Objs((a \o b) \o c) = Objs(a) \cup Objs(b) \cup Objs(c)
      /\ \A S : Met(a, S) /\ Met(b, S \cup Objs(a)) /\ Met(c, S \cup Objs(a) \cup Objs(b))
                   => Met((a \o b) \o c, S)
  BY <1>2, <1>3, <1>4, ConcatThree
<1>6. Cluster = (a \o b) \o c
  BY DEF Cluster, a, b, c
<1>7. ASSUME NEW S, o("vcsa") \in S PROVE Met(Cluster, S)
  <2>1. Met(a, S)
    BY <1>2, <1>7
  <2>2. Met(b, S \cup Objs(a))
    BY <1>2, <1>3, <1>7
  <2>3. Met(c, S \cup Objs(a) \cup Objs(b))
    BY <1>2, <1>3, <1>4, <1>7
  <2> QED
    BY <2>1, <2>2, <2>3, <1>5, <1>6
<1> QED
  BY <1>2, <1>3, <1>4, <1>5, <1>6, <1>7

LEMMA VdsEnds ==
    /\ Piece(One("ensure", o("vds"), {o("dc")}, "raise")) /\ Objs(One("ensure", o("vds"), {o("dc")}, "raise")) = {o("vds")}
    /\ \A S : {o("dc")} \subseteq S => Met(One("ensure", o("vds"), {o("dc")}, "raise"), S)
    /\ Piece(One("ensure", o("pg"), {o("vds")}, "ignore")) /\ Objs(One("ensure", o("pg"), {o("vds")}, "ignore")) = {o("pg")}
    /\ \A S : {o("vds")} \subseteq S => Met(One("ensure", o("pg"), {o("vds")}, "ignore"), S)
<1>1. {o("dc"), o("vds"), o("pg")} \subseteq Object
  BY AreObjects DEF Singles
<1>2. Row("ensure", o("vds"), {o("dc")}, "raise")
  BY <1>1, Tags, Plain
<1>3. Row("ensure", o("pg"), {o("vds")}, "ignore")
  <2>1. Quiet(o("pg"))
    BY Tags DEF Quiet
  <2> QED
    BY <1>1, <2>1, Tags, Plain
<1>4. o("vds")[1] # "vmk" /\ o("pg")[1] # "vmk"
  BY Tags
<1>5. /\ Piece(One("ensure", o("vds"), {o("dc")}, "raise"))
      /\ Objs(One("ensure", o("vds"), {o("dc")}, "raise")) = {o("vds")}
      /\ \A S : {o("dc")} \subseteq S => Met(One("ensure", o("vds"), {o("dc")}, "raise"), S)
  BY <1>2, <1>4, RowOne
<1>6. /\ Piece(One("ensure", o("pg"), {o("vds")}, "ignore"))
      /\ Objs(One("ensure", o("pg"), {o("vds")}, "ignore")) = {o("pg")}
      /\ \A S : {o("vds")} \subseteq S => Met(One("ensure", o("pg"), {o("vds")}, "ignore"), S)
  BY <1>3, <1>4, RowOne
<1> QED
  BY <1>5, <1>6

LEMMA VdsFacts ==
    ASSUME n \in 1 .. Len(Missions)
    PROVE
    /\ Piece(Vds) /\ Objs(Vds) = {o("vds"), o("pg")} \cup {member(h) : h \in Hosts}
                                  \cup {ports(x) : x \in {"mgmt"} \cup Mission(n)}
    /\ \A S : o("dc") \in S /\ (\A h \in Hosts : host(h) \in S) => Met(Vds, S)
<1> DEFINE a == One("ensure", o("vds"), {o("dc")}, "raise")
           reqb == [h \in Hosts |-> Req("ensure", member(h), {o("vds"), host(h)}, "ignore")]
           b == ForEach(reqb)
           c == One("ensure", o("pg"), {o("vds")}, "ignore")
           M == {"mgmt"} \cup Mission(n)
           reqd == [x \in M |-> Req("ensure", ports(x), {o("vds")}, "ignore")]
           d == ForEach(reqd)
<1>1. {o("dc"), o("vds"), o("pg")} \subseteq Object /\ \A h \in Hosts : host(h) \in Object /\ member(h) \in Object
  BY AreObjects DEF Singles
<1>2. Piece(a) /\ Objs(a) = {o("vds")} /\ \A S : {o("dc")} \subseteq S => Met(a, S)
  BY VdsEnds
<1>3. Piece(b) /\ Objs(b) = {member(h) : h \in Hosts}
      /\ \A S : o("vds") \in S /\ (\A h \in Hosts : host(h) \in S) => Met(b, S)
  <2>1. ASSUME NEW h \in Hosts
        PROVE reqb[h] \in Call /\ Proper(reqb[h]) /\ reqb[h].obj = member(h) /\ reqb[h].needs = {o("vds"), host(h)}
    <3>a. Proper(Req("ensure", member(h), {o("vds"), host(h)}, "ignore"))
      BY Tags, HandTags DEF Proper, Req, Quiet
    <3>1. Row("ensure", member(h), {o("vds"), host(h)}, "ignore")
      BY <1>1, <3>a DEF Row
    <3> DEFINE q == Req("ensure", member(h), {o("vds"), host(h)}, "ignore")
    <3>2. reqb[h] = q
      OBVIOUS
    <3> HIDE DEF reqb
    <3>3. q \in Call /\ Proper(q) /\ q.obj = member(h) /\ q.needs = {o("vds"), host(h)}
      BY <3>1 DEF Row, Req, Call
    <3> HIDE DEF q
    <3> QED
      BY <3>2, <3>3
  <2>2. reqb \in [Hosts -> Call]
    BY <2>1
  <2> HIDE DEF reqb
  <2>3. \A h \in Hosts : Proper(reqb[h]) /\ reqb[h].obj[1] # "vmk"
    BY <2>1, Tags
  <2>4. IsFiniteSet(Hosts)
    BY VinfraAssumption
  <2>5. /\ Piece(b) /\ Objs(b) = {reqb[x].obj : x \in Hosts}
        /\ \A S : (\A x \in Hosts : reqb[x].needs \subseteq S) => Met(b, S)
    BY <2>2, <2>3, <2>4, EachFacts
  <2>6. {reqb[x].obj : x \in Hosts} = {member(h) : h \in Hosts}
    BY <2>1
  <2> QED
    BY <2>1, <2>5, <2>6
<1>4. Piece(c) /\ Objs(c) = {o("pg")} /\ \A S : {o("vds")} \subseteq S => Met(c, S)
  BY VdsEnds
<1>8. Piece(d) /\ Objs(d) = {ports(x) : x \in M} /\ \A S : {o("vds")} \subseteq S => Met(d, S)
  <2>1. ASSUME NEW x \in M
        PROVE reqd[x] \in Call /\ Proper(reqd[x]) /\ reqd[x].obj = ports(x) /\ reqd[x].needs = {o("vds")}
    <3>1. ports(x) \in Object
      BY AreObjects, MissionFacts
    <3>2. Row("ensure", ports(x), {o("vds")}, "ignore")
      <4>1. Quiet(ports(x))
        BY Tags DEF Quiet
      <4> QED
        BY <1>1, <3>1, <4>1, Tags, Plain
    <3>3. reqd[x] = Req("ensure", ports(x), {o("vds")}, "ignore")
      OBVIOUS
    <3> DEFINE q == Req("ensure", ports(x), {o("vds")}, "ignore")
    <3>4. reqd[x] = q
      BY <3>3
    <3>5. q \in Call /\ Proper(q) /\ q.obj = ports(x) /\ q.needs = {o("vds")}
      BY <3>2 DEF Row, Req, Call
    <3> HIDE DEF reqd, q
    <3> QED
      BY <3>4, <3>5
  <2>2. reqd \in [M -> Call]
    BY <2>1
  <2> HIDE DEF reqd
  <2>3. \A x \in M : Proper(reqd[x]) /\ reqd[x].obj[1] # "vmk"
    BY <2>1, Tags
  <2>4. IsFiniteSet(M)
    BY MissionFacts
  <2> HIDE DEF M
  <2>5. /\ Piece(d) /\ Objs(d) = {reqd[x].obj : x \in M}
        /\ \A S : (\A x \in M : reqd[x].needs \subseteq S) => Met(d, S)
    BY <2>2, <2>3, <2>4, EachFacts
  <2>6. {reqd[x].obj : x \in M} = {ports(x) : x \in M}
    BY <2>1
  <2> QED
    BY <2>1, <2>5, <2>6
<1> HIDE DEF a, b, c, d
<1>5. /\ Piece(((a \o b) \o c) \o d) /\ Objs(((a \o b) \o c) \o d) = Objs(a) \cup Objs(b) \cup Objs(c) \cup Objs(d)
      /\ \A S : Met(a, S) /\ Met(b, S \cup Objs(a)) /\ Met(c, S \cup Objs(a) \cup Objs(b))
                /\ Met(d, S \cup Objs(a) \cup Objs(b) \cup Objs(c))
                   => Met(((a \o b) \o c) \o d, S)
  BY <1>2, <1>3, <1>4, <1>8, ConcatFour
<1>6. Vds = ((a \o b) \o c) \o d
  BY DEF Vds, a, b, c, d
<1>7. ASSUME NEW S, o("dc") \in S /\ (\A h \in Hosts : host(h) \in S) PROVE Met(Vds, S)
  <2>1. Met(a, S)
    BY <1>2, <1>7
  <2>2. Met(b, S \cup Objs(a))
    BY <1>2, <1>3, <1>7
  <2>3. Met(c, S \cup Objs(a) \cup Objs(b))
    BY <1>2, <1>3, <1>4, <1>7
  <2>4. Met(d, S \cup Objs(a) \cup Objs(b) \cup Objs(c))
    BY <1>2, <1>8
  <2> QED
    BY <2>1, <2>2, <2>3, <2>4, <1>5, <1>6
<1>9. Objs(Vds) = {o("vds"), o("pg")} \cup {member(h) : h \in Hosts} \cup {ports(x) : x \in {"mgmt"} \cup Mission(n)}
  BY <1>2, <1>3, <1>4, <1>5, <1>6, <1>8
<1> QED
  BY <1>5, <1>6, <1>7, <1>9

LEMMA StorageFacts ==
    /\ Piece(Storage) /\ Objs(Storage) = {o("vsan")} \cup {disks(h) : h \in {x \in Hosts \ Flash : host(x) \in objs}}
    /\ \A S : o("cluster") \in S => Met(Storage, S)
<1> DEFINE a == One("ensure", o("vsan"), {o("cluster")}, "raise")
           reqb == [h \in {x \in Hosts \ Flash : host(x) \in objs} |-> Req("ensure", disks(h), {}, "collect")]
           b == ForEach(reqb)
<1>1. {o("cluster"), o("vsan")} \subseteq Object /\ \A h \in Hosts : disks(h) \in Object
  BY AreObjects DEF Singles
<1>2. Piece(a) /\ Objs(a) = {o("vsan")} /\ \A S : {o("cluster")} \subseteq S => Met(a, S)
  <2>1. Row("ensure", o("vsan"), {o("cluster")}, "raise")
    BY <1>1, Tags, Plain
  <2>2. o("vsan")[1] # "vmk"
    BY Tags
  <2> QED
    BY <2>1, <2>2, RowOne
<1>3. Piece(b) /\ Objs(b) = {disks(h) : h \in {x \in Hosts \ Flash : host(x) \in objs}}
      /\ \A S : Met(b, S)
  <2>1. ASSUME NEW h \in {x \in Hosts \ Flash : host(x) \in objs}
        PROVE reqb[h] \in Call /\ Proper(reqb[h]) /\ reqb[h].obj = disks(h) /\ reqb[h].needs = {}
    <3>1. Row("ensure", disks(h), {}, "collect")
      BY <1>1, Tags, Plain
    <3> DEFINE q == Req("ensure", disks(h), {}, "collect")
    <3>2. reqb[h] = q
      OBVIOUS
    <3> HIDE DEF reqb
    <3>3. q \in Call /\ Proper(q) /\ q.obj = disks(h) /\ q.needs = {}
      BY <3>1 DEF Row, Req, Call
    <3> HIDE DEF q
    <3> QED
      BY <3>2, <3>3
  <2>2. reqb \in [{x \in Hosts \ Flash : host(x) \in objs} -> Call]
    BY <2>1
  <2> HIDE DEF reqb
  <2>3. \A h \in {x \in Hosts \ Flash : host(x) \in objs} : Proper(reqb[h]) /\ reqb[h].obj[1] # "vmk"
    BY <2>1, Tags
  <2>4. IsFiniteSet({x \in Hosts \ Flash : host(x) \in objs})
    BY VinfraAssumption, FS_Subset
  <2>5. /\ Piece(b) /\ Objs(b) = {reqb[x].obj : x \in {x \in Hosts \ Flash : host(x) \in objs}}
        /\ \A S : (\A x \in {x \in Hosts \ Flash : host(x) \in objs} : reqb[x].needs \subseteq S) => Met(b, S)
    BY <2>2, <2>3, <2>4, EachFacts
  <2>6. {reqb[x].obj : x \in {x \in Hosts \ Flash : host(x) \in objs}} = {disks(h) : h \in {x \in Hosts \ Flash : host(x) \in objs}}
    BY <2>1
  <2> QED
    BY <2>1, <2>5, <2>6
<1> HIDE DEF a, b
<1>4. /\ Piece(a \o b) /\ Objs(a \o b) = Objs(a) \cup Objs(b)
      /\ \A S : Met(a, S) /\ Met(b, S \cup Objs(a)) => Met(a \o b, S)
  BY <1>2, <1>3, PieceConcat
<1>5. Storage = a \o b
  BY DEF Storage, a, b
<1>6. ASSUME NEW S, o("cluster") \in S PROVE Met(Storage, S)
  <2>1. Met(a, S)
    BY <1>2, <1>6
  <2>2. Met(b, S \cup Objs(a))
    BY <1>2, <1>3, <1>6
  <2> QED
    BY <2>1, <2>2, <1>4, <1>5
<1> QED
  BY <1>2, <1>3, <1>4, <1>5, <1>6

LEMMA HaDrsFacts ==
    /\ Piece(HaDrs) /\ Objs(HaDrs) = {o("ha"), o("drs")} \cup {vmk(h) : h \in Hosts} \cup {vmotion(h) : h \in Hosts}
    /\ \A S : o("cluster") \in S /\ (\A h \in Hosts : {host(h), member(h), o("pg")} \subseteq S) => Met(HaDrs, S)
<1> DEFINE a == One("put", o("ha"), {o("cluster")}, IF o("cluster") \in objs THEN "collect" ELSE "raise")
           b == One("put", o("drs"), {o("cluster")}, "collect")
           req == [h \in Hosts |->
                       Req("ensure", vmk(h), {host(h), member(h), o("pg")},
                           IF host(h) \in objs /\ ~({member(h), o("pg")} \subseteq objs) THEN "raise"
                           ELSE "collect")]
           next == [h \in Hosts |-> Req("put", vmotion(h), {vmk(h)}, "collect")]
           c == ForEachTwo(req, next)
<1>1. {o("cluster"), o("ha"), o("drs"), o("pg")} \subseteq Object /\ \A h \in Hosts : host(h) \in Object /\ member(h) \in Object
                                                /\ vmk(h) \in Object /\ vmotion(h) \in Object
  BY AreObjects DEF Singles
<1>2. Piece(a) /\ Objs(a) = {o("ha")} /\ \A S : {o("cluster")} \subseteq S => Met(a, S)
  <2> DEFINE on == IF o("cluster") \in objs THEN "collect" ELSE "raise"
  <2>1. Row("put", o("ha"), {o("cluster")}, on)
    <3>1. on \in {"raise", "collect"}
      OBVIOUS
    <3> HIDE DEF on
    <3> QED
      BY <1>1, <3>1, Tags, Plain
  <2>2. o("ha")[1] # "vmk"
    BY Tags
  <2> QED
    BY <2>1, <2>2, RowOne
<1>3. Piece(b) /\ Objs(b) = {o("drs")} /\ \A S : {o("cluster")} \subseteq S => Met(b, S)
  <2>1. Row("put", o("drs"), {o("cluster")}, "collect")
    BY <1>1, Tags, Plain
  <2>2. o("drs")[1] # "vmk"
    BY Tags
  <2> QED
    BY <2>1, <2>2, RowOne
<1>4. Piece(c) /\ Objs(c) = {vmk(h) : h \in Hosts} \cup {vmotion(h) : h \in Hosts}
      /\ \A S : (\A h \in Hosts : {host(h), member(h), o("pg")} \subseteq S) => Met(c, S)
  <2>1. ASSUME NEW h \in Hosts
        PROVE req[h] \in Call /\ Proper(req[h]) /\ req[h].obj = vmk(h) /\ req[h].needs = {host(h), member(h), o("pg")}
    <3>1. PICK on \in {"raise", "collect"} : req[h] = Req("ensure", vmk(h), {host(h), member(h), o("pg")}, on)
      OBVIOUS
    <3>2. Proper(Req("ensure", vmk(h), {host(h), member(h), o("pg")}, on))
      BY Tags, HandTags DEF Proper, Req, Quiet
    <3>3. Row("ensure", vmk(h), {host(h), member(h), o("pg")}, on)
      BY <1>1, <3>2 DEF Row
    <3> QED
      BY <3>1, <3>3, RowFacts
  <2>2. ASSUME NEW h \in Hosts
        PROVE next[h] \in Call /\ Proper(next[h]) /\ next[h].obj = vmotion(h) /\ next[h].needs = {vmk(h)}
    <3>1. next[h] = Req("put", vmotion(h), {vmk(h)}, "collect")
      OBVIOUS
    <3>2. Proper(Req("put", vmotion(h), {vmk(h)}, "collect"))
      BY Tags, HandTags DEF Proper, Req, Quiet
    <3>3. Row("put", vmotion(h), {vmk(h)}, "collect")
      BY <1>1, <3>2 DEF Row
    <3> QED
      BY <3>1, <3>3, RowFacts
  <2>3. req \in [Hosts -> Call] /\ next \in [Hosts -> Call]
    BY <2>1, <2>2
  <2> HIDE DEF req, next
  <2>4. /\ Piece(c) /\ Objs(c) = {req[x].obj : x \in Hosts} \cup {next[x].obj : x \in Hosts}
        /\ \A S : (\A x \in Hosts : req[x].needs \subseteq S /\ next[x].needs \subseteq S \cup {req[x].obj})
                   => Met(c, S)
    BY <2>1, <2>2, <2>3, TwoFacts, VinfraAssumption
  <2>5. {req[x].obj : x \in Hosts} = {vmk(h) : h \in Hosts} /\ {next[x].obj : x \in Hosts} = {vmotion(h) : h \in Hosts}
    BY <2>1, <2>2
  <2>6. ASSUME NEW S, \A h \in Hosts : {host(h), member(h), o("pg")} \subseteq S
        PROVE \A x \in Hosts : req[x].needs \subseteq S /\ next[x].needs \subseteq S \cup {req[x].obj}
    BY <2>1, <2>2, <2>6
  <2> QED
    BY <2>4, <2>5, <2>6
<1> HIDE DEF a, b, c
<1>5. /\ Piece((a \o b) \o c) /\ Objs((a \o b) \o c) = Objs(a) \cup Objs(b) \cup Objs(c)
      /\ \A S : Met(a, S) /\ Met(b, S \cup Objs(a)) /\ Met(c, S \cup Objs(a) \cup Objs(b))
                   => Met((a \o b) \o c, S)
  BY <1>2, <1>3, <1>4, ConcatThree
<1>6. HaDrs = (a \o b) \o c
  BY DEF HaDrs, a, b, c
<1>7. ASSUME NEW S, o("cluster") \in S /\ (\A h \in Hosts : {host(h), member(h), o("pg")} \subseteq S) PROVE Met(HaDrs, S)
  <2>1. Met(a, S)
    BY <1>2, <1>7
  <2>2. Met(b, S \cup Objs(a))
    BY <1>2, <1>3, <1>7
  <2>3. Met(c, S \cup Objs(a) \cup Objs(b))
    BY <1>2, <1>3, <1>4, <1>7
  <2> QED
    BY <2>1, <2>2, <2>3, <1>5, <1>6
<1> QED
  BY <1>2, <1>3, <1>4, <1>5, <1>6, <1>7

LEMMA ContentLibraryFacts ==
    /\ Piece(ContentLibrary) /\ Objs(ContentLibrary) = {o("library"), item, content, published}
    /\ \A S : o("vsan") \in S => Met(ContentLibrary, S)
<1> DEFINE a == One("ensure", o("library"), {o("vsan")}, "raise")
           b == One("create", item, {o("library")}, "collect")
           c == One("put", content, {item}, "collect")
           d == One("put", published, {item}, "ignore")
<1>1. {o("vsan"), o("library")} \subseteq Object /\ {item, content, published} \subseteq Object
  BY AreObjects, Tags DEF Singles
<1>2. Piece(a) /\ Objs(a) = {o("library")} /\ \A S : {o("vsan")} \subseteq S => Met(a, S)
  <2>1. Row("ensure", o("library"), {o("vsan")}, "raise")
    BY <1>1, Tags, Plain
  <2>2. o("library")[1] # "vmk"
    BY Tags
  <2> QED
    BY <2>1, <2>2, RowOne
<1>3. Piece(b) /\ Objs(b) = {item} /\ \A S : {o("library")} \subseteq S => Met(b, S)
  <2>a. Proper(Req("create", item, {o("library")}, "collect"))
    BY Tags, HandTags DEF Proper, Req, Quiet
  <2>1. Row("create", item, {o("library")}, "collect")
    BY <1>1, <2>a DEF Row
  <2>2. item[1] # "vmk"
    BY Tags
  <2> QED
    BY <2>1, <2>2, RowOne
<1>4. Piece(c) /\ Objs(c) = {content} /\ \A S : {item} \subseteq S => Met(c, S)
  <2>a. Proper(Req("put", content, {item}, "collect"))
    BY Tags, HandTags DEF Proper, Req, Quiet
  <2>1. Row("put", content, {item}, "collect")
    BY <1>1, <2>a DEF Row
  <2>2. content[1] # "vmk"
    BY Tags
  <2> QED
    BY <2>1, <2>2, RowOne
<1>8. Piece(d) /\ Objs(d) = {published} /\ \A S : {item} \subseteq S => Met(d, S)
  <2>1. Quiet(published)
    BY Tags DEF Quiet
  <2>2. Row("put", published, {item}, "ignore")
    BY <1>1, <2>1, Tags, Plain
  <2>3. published[1] # "vmk"
    BY Tags
  <2> QED
    BY <2>2, <2>3, RowOne
<1> HIDE DEF a, b, c, d
<1>5. /\ Piece(((a \o b) \o c) \o d) /\ Objs(((a \o b) \o c) \o d) = Objs(a) \cup Objs(b) \cup Objs(c) \cup Objs(d)
      /\ \A S : Met(a, S) /\ Met(b, S \cup Objs(a)) /\ Met(c, S \cup Objs(a) \cup Objs(b))
                /\ Met(d, S \cup Objs(a) \cup Objs(b) \cup Objs(c))
                   => Met(((a \o b) \o c) \o d, S)
  BY <1>2, <1>3, <1>4, <1>8, ConcatFour
<1>6. ContentLibrary = ((a \o b) \o c) \o d
  BY DEF ContentLibrary, a, b, c, d
<1>7. ASSUME NEW S, o("vsan") \in S PROVE Met(ContentLibrary, S)
  <2>1. Met(a, S)
    BY <1>2, <1>7
  <2>2. Met(b, S \cup Objs(a))
    BY <1>2, <1>3, <1>7
  <2>3. Met(c, S \cup Objs(a) \cup Objs(b))
    BY <1>2, <1>3, <1>4, <1>7
  <2>4. Met(d, S \cup Objs(a) \cup Objs(b) \cup Objs(c))
    BY <1>3, <1>8
  <2> QED
    BY <2>1, <2>2, <2>3, <2>4, <1>5, <1>6
<1>9. Objs(ContentLibrary) = {o("library"), item, content, published}
  BY <1>2, <1>3, <1>4, <1>5, <1>6, <1>8
<1> QED
  BY <1>5, <1>6, <1>7, <1>9

LEMMA FourFinite == IsFiniteSet({o("overlay"), o("vlan"), o("pool"), o("profile")})
<1>1. IsFiniteSet({o("overlay")})
  BY FS_Singleton
<1>2. IsFiniteSet({o("overlay")} \cup {o("vlan")})
  BY <1>1, FS_AddElement
<1>3. IsFiniteSet({o("overlay"), o("vlan")} \cup {o("pool")})
  <2>1. {o("overlay")} \cup {o("vlan")} = {o("overlay"), o("vlan")}
    OBVIOUS
  <2> QED
    BY <1>2, <2>1, FS_AddElement
<1>4. IsFiniteSet({o("overlay"), o("vlan"), o("pool")} \cup {o("profile")})
  <2>1. {o("overlay"), o("vlan")} \cup {o("pool")} = {o("overlay"), o("vlan"), o("pool")}
    OBVIOUS
  <2> QED
    BY <1>3, <2>1, FS_AddElement
<1>5. {o("overlay"), o("vlan"), o("pool")} \cup {o("profile")} = {o("overlay"), o("vlan"), o("pool"), o("profile")}
  OBVIOUS
<1> QED
  BY <1>4, <1>5

LEMMA TransportFacts ==
    /\ Piece(Transport) /\ Objs(Transport) = {o("overlay"), o("vlan"), o("pool"), o("profile")}
    /\ \A S : o("manager") \in S => Met(Transport, S)
<1> DEFINE reqa == [x \in {o("overlay"), o("vlan"), o("pool"), o("profile")} |-> Req("ensure", x, {o("manager")}, "collect")]
           a == ForEach(reqa)
<1>1. {o("manager"), o("overlay"), o("vlan"), o("pool"), o("profile")} \subseteq Object
  BY AreObjects DEF Singles
<1>2. Piece(a) /\ Objs(a) = {x : x \in {o("overlay"), o("vlan"), o("pool"), o("profile")}}
      /\ \A S : {o("manager")} \subseteq S => Met(a, S)
  <2>1. ASSUME NEW x \in {o("overlay"), o("vlan"), o("pool"), o("profile")}
        PROVE reqa[x] \in Call /\ Proper(reqa[x]) /\ reqa[x].obj = x /\ reqa[x].needs = {o("manager")}
    <3>1. Row("ensure", x, {o("manager")}, "collect")
      BY <1>1, Tags, Plain
    <3> DEFINE q == Req("ensure", x, {o("manager")}, "collect")
    <3>2. reqa[x] = q
      OBVIOUS
    <3> HIDE DEF reqa
    <3>3. q \in Call /\ Proper(q) /\ q.obj = x /\ q.needs = {o("manager")}
      BY <3>1 DEF Row, Req, Call
    <3> HIDE DEF q
    <3> QED
      BY <3>2, <3>3
  <2>2. reqa \in [{o("overlay"), o("vlan"), o("pool"), o("profile")} -> Call]
    BY <2>1
  <2> HIDE DEF reqa
  <2>3. \A x \in {o("overlay"), o("vlan"), o("pool"), o("profile")} : Proper(reqa[x]) /\ reqa[x].obj[1] # "vmk"
    BY <2>1, Tags
  <2>4. IsFiniteSet({o("overlay"), o("vlan"), o("pool"), o("profile")})
    BY FourFinite
  <2>5. /\ Piece(a) /\ Objs(a) = {reqa[x].obj : x \in {o("overlay"), o("vlan"), o("pool"), o("profile")}}
        /\ \A S : (\A x \in {o("overlay"), o("vlan"), o("pool"), o("profile")} : reqa[x].needs \subseteq S) => Met(a, S)
    BY <2>2, <2>3, <2>4, EachFacts
  <2>6. {reqa[x].obj : x \in {o("overlay"), o("vlan"), o("pool"), o("profile")}} = {x : x \in {o("overlay"), o("vlan"), o("pool"), o("profile")}}
    BY <2>1
  <2> QED
    BY <2>1, <2>5, <2>6
<1> HIDE DEF a
<1>3. Transport = a
  BY DEF Transport, a
<1> QED
  BY <1>2, <1>3

LEMMA HostTnpFacts ==
    /\ Piece(HostTnp) /\ Objs(HostTnp) = {o("tnp"), o("applied")}
    /\ \A S : {o("overlay"), o("pool"), o("profile"), o("registered")} \subseteq S => Met(HostTnp, S)
<1> DEFINE a == One("put", o("tnp"), {o("overlay"), o("pool"), o("profile")}, "raise")
           b == One("put", o("applied"), {o("tnp"), o("registered")}, "raise")
<1>1. {o("registered"), o("tnp"), o("applied"), o("overlay"), o("pool"), o("profile")} \subseteq Object
  BY AreObjects DEF Singles
<1>2. Piece(a) /\ Objs(a) = {o("tnp")} /\ \A S : {o("overlay"), o("pool"), o("profile")} \subseteq S => Met(a, S)
  <2>1. Row("put", o("tnp"), {o("overlay"), o("pool"), o("profile")}, "raise")
    BY <1>1, Tags, Plain
  <2>2. o("tnp")[1] # "vmk"
    BY Tags
  <2> QED
    BY <2>1, <2>2, RowOne
<1>3. Piece(b) /\ Objs(b) = {o("applied")} /\ \A S : {o("tnp"), o("registered")} \subseteq S => Met(b, S)
  <2>1. Row("put", o("applied"), {o("tnp"), o("registered")}, "raise")
    <3>1. o("applied") \in HandUsers
      BY DEF HandUsers
    <3> QED
      BY <1>1, <3>1, Tags, Handed
  <2>2. o("applied")[1] # "vmk"
    BY Tags
  <2> QED
    BY <2>1, <2>2, RowOne
<1> HIDE DEF a, b
<1>4. /\ Piece(a \o b) /\ Objs(a \o b) = Objs(a) \cup Objs(b)
      /\ \A S : Met(a, S) /\ Met(b, S \cup Objs(a)) => Met(a \o b, S)
  BY <1>2, <1>3, PieceConcat
<1>5. HostTnp = a \o b
  BY DEF HostTnp, a, b
<1>6. ASSUME NEW S, {o("overlay"), o("pool"), o("profile"), o("registered")} \subseteq S PROVE Met(HostTnp, S)
  <2>1. Met(a, S)
    BY <1>2, <1>6
  <2>2. Met(b, S \cup Objs(a))
    BY <1>2, <1>3, <1>6
  <2> QED
    BY <2>1, <2>2, <1>4, <1>5
<1> QED
  BY <1>2, <1>3, <1>4, <1>5, <1>6

LEMMA EdgeFacts ==
    ASSUME n \in 1 .. Len(Missions)
    PROVE /\ Piece(Edge) /\ Objs(Edge) = {edge(m) : m \in Mission(n)} \cup {o("edge_cluster")}
          /\ \A S : {o("overlay"), o("vlan"), o("profile"), o("registered")} \subseteq S => Met(Edge, S)
<1> DEFINE reqa == [m \in Mission(n) |-> Req("ensure", edge(m), {o("overlay"), o("vlan"), o("profile"), o("registered")}, "raise")]
           a == ForEach(reqa)
           b == One("ensure", o("edge_cluster"), {edge(m) : m \in Mission(n)}, "collect")
<1>1. {o("registered"), o("overlay"), o("vlan"), o("profile"), o("edge_cluster")} \subseteq Object /\ \A m \in Mission(n) : edge(m) \in Object
  BY AreObjects, MissionFacts DEF Singles
<1>2. Piece(a) /\ Objs(a) = {edge(m) : m \in Mission(n)}
      /\ \A S : {o("overlay"), o("vlan"), o("profile"), o("registered")} \subseteq S => Met(a, S)
  <2>1. ASSUME NEW m \in Mission(n)
        PROVE reqa[m] \in Call /\ Proper(reqa[m]) /\ reqa[m].obj = edge(m) /\ reqa[m].needs = {o("overlay"), o("vlan"), o("profile"), o("registered")}
    <3>1. Row("ensure", edge(m), {o("overlay"), o("vlan"), o("profile"), o("registered")}, "raise")
      <4>1. edge(m) \in HandUsers
        BY DEF HandUsers, Mission
      <4> QED
        BY <1>1, <4>1, Tags, Handed
    <3> DEFINE q == Req("ensure", edge(m), {o("overlay"), o("vlan"), o("profile"), o("registered")}, "raise")
    <3>2. reqa[m] = q
      OBVIOUS
    <3> HIDE DEF reqa
    <3>3. q \in Call /\ Proper(q) /\ q.obj = edge(m) /\ q.needs = {o("overlay"), o("vlan"), o("profile"), o("registered")}
      BY <3>1 DEF Row, Req, Call
    <3> HIDE DEF q
    <3> QED
      BY <3>2, <3>3
  <2>2. reqa \in [Mission(n) -> Call]
    BY <2>1
  <2> HIDE DEF reqa
  <2>3. \A m \in Mission(n) : Proper(reqa[m]) /\ reqa[m].obj[1] # "vmk"
    BY <2>1, Tags
  <2>4. IsFiniteSet(Mission(n))
    BY MissionFacts
  <2>5. /\ Piece(a) /\ Objs(a) = {reqa[x].obj : x \in Mission(n)}
        /\ \A S : (\A x \in Mission(n) : reqa[x].needs \subseteq S) => Met(a, S)
    BY <2>2, <2>3, <2>4, EachFacts
  <2>6. {reqa[x].obj : x \in Mission(n)} = {edge(m) : m \in Mission(n)}
    BY <2>1
  <2> QED
    BY <2>1, <2>5, <2>6
<1>3. Piece(b) /\ Objs(b) = {o("edge_cluster")} /\ \A S : {edge(m) : m \in Mission(n)} \subseteq S => Met(b, S)
  <2>1. Row("ensure", o("edge_cluster"), {edge(m) : m \in Mission(n)}, "collect")
    BY <1>1, Tags, Plain
  <2>2. o("edge_cluster")[1] # "vmk"
    BY Tags
  <2> QED
    BY <2>1, <2>2, RowOne
<1> HIDE DEF a, b
<1>4. /\ Piece(a \o b) /\ Objs(a \o b) = Objs(a) \cup Objs(b)
      /\ \A S : Met(a, S) /\ Met(b, S \cup Objs(a)) => Met(a \o b, S)
  BY <1>2, <1>3, PieceConcat
<1>5. Edge = a \o b
  BY DEF Edge, a, b
<1>6. ASSUME NEW S, {o("overlay"), o("vlan"), o("profile"), o("registered")} \subseteq S PROVE Met(Edge, S)
  <2>1. Met(a, S)
    BY <1>2, <1>6
  <2>2. Met(b, S \cup Objs(a))
    BY <1>2, <1>3, <1>6
  <2> QED
    BY <2>1, <2>2, <1>4, <1>5
<1> QED
  BY <1>2, <1>3, <1>4, <1>5, <1>6

LEMMA Tier0Facts ==
    /\ Piece(Tier0) /\ Objs(Tier0) = {o("tier0"), o("locale")} \cup (IF linked THEN {o("uplink")} ELSE {})
    /\ \A S : o("manager") \in S /\ o("uplink_segment") \in S => Met(Tier0, S)
<1> DEFINE a == One("ensure", o("tier0"), {o("manager")}, "raise")
           b == One("ensure", o("locale"), {o("tier0")}, "raise")
           c == IF linked THEN One("ensure", o("uplink"), {o("locale"), o("uplink_segment")}, "collect") ELSE <<>>
<1>1. {o("uplink_segment"), o("manager"), o("tier0"), o("locale"), o("uplink")} \subseteq Object
  BY AreObjects DEF Singles
<1>2. Piece(a) /\ Objs(a) = {o("tier0")} /\ \A S : {o("manager")} \subseteq S => Met(a, S)
  <2>1. Row("ensure", o("tier0"), {o("manager")}, "raise")
    BY <1>1, Tags, Plain
  <2>2. o("tier0")[1] # "vmk"
    BY Tags
  <2> QED
    BY <2>1, <2>2, RowOne
<1>3. Piece(b) /\ Objs(b) = {o("locale")} /\ \A S : {o("tier0")} \subseteq S => Met(b, S)
  <2>1. Row("ensure", o("locale"), {o("tier0")}, "raise")
    BY <1>1, Tags, Plain
  <2>2. o("locale")[1] # "vmk"
    BY Tags
  <2> QED
    BY <2>1, <2>2, RowOne
<1>4. Piece(c) /\ Objs(c) = (IF linked THEN {o("uplink")} ELSE {})
      /\ \A S : {o("locale"), o("uplink_segment")} \subseteq S => Met(c, S)
  <2>1. Row("ensure", o("uplink"), {o("locale"), o("uplink_segment")}, "collect")
    <3>1. o("uplink") \in HandUsers
      BY DEF HandUsers
    <3> QED
      BY <1>1, <3>1, Tags, Handed
  <2>2. o("uplink")[1] # "vmk"
    BY Tags
  <2>3. CASE linked
    <3>1. c = One("ensure", o("uplink"), {o("locale"), o("uplink_segment")}, "collect")
      BY <2>3
    <3> HIDE DEF c
    <3> QED
      BY <2>1, <2>2, <2>3, <3>1, RowOne
  <2>4. CASE ~linked
    BY <2>4, EmptyFacts
  <2> QED
    BY <2>3, <2>4
<1> HIDE DEF a, b, c
<1>5. /\ Piece((a \o b) \o c) /\ Objs((a \o b) \o c) = Objs(a) \cup Objs(b) \cup Objs(c)
      /\ \A S : Met(a, S) /\ Met(b, S \cup Objs(a)) /\ Met(c, S \cup Objs(a) \cup Objs(b))
                   => Met((a \o b) \o c, S)
  BY <1>2, <1>3, <1>4, ConcatThree
<1>6. Tier0 = (a \o b) \o c
  BY DEF Tier0, a, b, c
<1>7. ASSUME NEW S, o("manager") \in S, o("uplink_segment") \in S PROVE Met(Tier0, S)
  <2>1. Met(a, S)
    BY <1>2, <1>7
  <2>2. Met(b, S \cup Objs(a))
    BY <1>2, <1>3, <1>7
  <2>3. Met(c, S \cup Objs(a) \cup Objs(b))
    BY <1>2, <1>3, <1>4, <1>7
  <2> QED
    BY <2>1, <2>2, <2>3, <1>5, <1>6
<1> QED
  BY <1>2, <1>3, <1>4, <1>5, <1>6, <1>7

LEMMA Tier1Facts ==
    ASSUME n \in 1 .. Len(Missions)
    PROVE /\ Piece(Tier1) /\ Objs(Tier1) = {t1(m) : m \in {"mgmt"} \cup Mission(n)}
          /\ \A S : o("tier0") \in S => Met(Tier1, S)
<1> DEFINE reqa == [m \in {"mgmt"} \cup Mission(n) |-> Req("ensure", t1(m), {o("tier0")}, "collect")]
           a == ForEach(reqa)
<1>1. {o("tier0")} \subseteq Object /\ \A m \in {"mgmt"} \cup Mission(n) : t1(m) \in Object
  BY AreObjects, MissionFacts DEF Singles
<1>2. Piece(a) /\ Objs(a) = {t1(m) : m \in {"mgmt"} \cup Mission(n)}
      /\ \A S : {o("tier0")} \subseteq S => Met(a, S)
  <2>1. ASSUME NEW m \in {"mgmt"} \cup Mission(n)
        PROVE reqa[m] \in Call /\ Proper(reqa[m]) /\ reqa[m].obj = t1(m) /\ reqa[m].needs = {o("tier0")}
    <3>1. Row("ensure", t1(m), {o("tier0")}, "collect")
      BY <1>1, Tags, Plain
    <3> DEFINE q == Req("ensure", t1(m), {o("tier0")}, "collect")
    <3>2. reqa[m] = q
      OBVIOUS
    <3> HIDE DEF reqa
    <3>3. q \in Call /\ Proper(q) /\ q.obj = t1(m) /\ q.needs = {o("tier0")}
      BY <3>1 DEF Row, Req, Call
    <3> HIDE DEF q
    <3> QED
      BY <3>2, <3>3
  <2>2. reqa \in [{"mgmt"} \cup Mission(n) -> Call]
    BY <2>1
  <2> HIDE DEF reqa
  <2>3. \A m \in {"mgmt"} \cup Mission(n) : Proper(reqa[m]) /\ reqa[m].obj[1] # "vmk"
    BY <2>1, Tags
  <2>4. IsFiniteSet({"mgmt"} \cup Mission(n))
    BY MissionFacts
  <2>5. /\ Piece(a) /\ Objs(a) = {reqa[x].obj : x \in {"mgmt"} \cup Mission(n)}
        /\ \A S : (\A x \in {"mgmt"} \cup Mission(n) : reqa[x].needs \subseteq S) => Met(a, S)
    BY <2>2, <2>3, <2>4, EachFacts
  <2>6. {reqa[x].obj : x \in {"mgmt"} \cup Mission(n)} = {t1(m) : m \in {"mgmt"} \cup Mission(n)}
    BY <2>1
  <2> QED
    BY <2>1, <2>5, <2>6
<1> HIDE DEF a
<1>3. Tier1 = a
  BY DEF Tier1, a
<1> QED
  BY <1>2, <1>3

LEMMA SegmentsFacts ==
    ASSUME n \in 1 .. Len(Missions), o("overlay") \in objs
    PROVE /\ Piece(Segments) /\ Objs(Segments) = {segment(m) : m \in {"mgmt"} \cup Mission(n)}
          /\ \A S : (\A m \in {"mgmt"} \cup Mission(n) : t1(m) \in S) => Met(Segments, S)
<1> DEFINE reqa == [m \in {"mgmt"} \cup Mission(n) |-> Req("ensure", segment(m), {t1(m)}, "collect")]
           a == ForEach(reqa)
<1>1. \A m \in {"mgmt"} \cup Mission(n) : t1(m) \in Object /\ segment(m) \in Object
  BY AreObjects, MissionFacts DEF Singles
<1>2. Piece(a) /\ Objs(a) = {segment(m) : m \in {"mgmt"} \cup Mission(n)}
      /\ \A S : (\A m \in {"mgmt"} \cup Mission(n) : t1(m) \in S) => Met(a, S)
  <2>1. ASSUME NEW m \in {"mgmt"} \cup Mission(n)
        PROVE reqa[m] \in Call /\ Proper(reqa[m]) /\ reqa[m].obj = segment(m) /\ reqa[m].needs = {t1(m)}
    <3>1. Row("ensure", segment(m), {t1(m)}, "collect")
      BY <1>1, Tags, Plain
    <3> DEFINE q == Req("ensure", segment(m), {t1(m)}, "collect")
    <3>2. reqa[m] = q
      OBVIOUS
    <3> HIDE DEF reqa
    <3>3. q \in Call /\ Proper(q) /\ q.obj = segment(m) /\ q.needs = {t1(m)}
      BY <3>1 DEF Row, Req, Call
    <3> HIDE DEF q
    <3> QED
      BY <3>2, <3>3
  <2>2. reqa \in [{"mgmt"} \cup Mission(n) -> Call]
    BY <2>1
  <2> HIDE DEF reqa
  <2>3. \A m \in {"mgmt"} \cup Mission(n) : Proper(reqa[m]) /\ reqa[m].obj[1] # "vmk"
    BY <2>1, Tags
  <2>4. IsFiniteSet({"mgmt"} \cup Mission(n))
    BY MissionFacts
  <2>5. /\ Piece(a) /\ Objs(a) = {reqa[x].obj : x \in {"mgmt"} \cup Mission(n)}
        /\ \A S : (\A x \in {"mgmt"} \cup Mission(n) : reqa[x].needs \subseteq S) => Met(a, S)
    BY <2>2, <2>3, <2>4, EachFacts
  <2>6. {reqa[x].obj : x \in {"mgmt"} \cup Mission(n)} = {segment(m) : m \in {"mgmt"} \cup Mission(n)}
    BY <2>1
  <2> QED
    BY <2>1, <2>5, <2>6
<1> HIDE DEF a
<1>3. Segments = a
  BY DEF Segments, a
<1> QED
  BY <1>2, <1>3

LEMMA NoSegments ==
    ASSUME o("overlay") \notin objs
    PROVE /\ Piece(Segments) /\ Objs(Segments) = {segment("mgmt")}
          /\ \A S : {o("overlay")} \subseteq S => Met(Segments, S)
<1> DEFINE a == One("ensure", segment("mgmt"), {o("overlay")}, "raise")
<1>1. {o("overlay")} \subseteq Object /\ segment("mgmt") \in Object
  BY AreObjects DEF Singles
<1>2. Piece(a) /\ Objs(a) = {segment("mgmt")} /\ \A S : {o("overlay")} \subseteq S => Met(a, S)
  <2>1. Row("ensure", segment("mgmt"), {o("overlay")}, "raise")
    BY <1>1, Tags, Plain
  <2>2. segment("mgmt")[1] # "vmk"
    BY Tags
  <2> QED
    BY <2>1, <2>2, RowOne
<1> HIDE DEF a
<1>3. Segments = a
  BY DEF Segments, a
<1> QED
  BY <1>2, <1>3

LEMMA FirewallFacts ==
    ASSUME n \in 1 .. Len(Missions)
    PROVE /\ Piece(Firewall)
          /\ {Group(m) : m \in {"mgmt"} \cup Mission(n)} \cup {policy(p) : p \in PolicyNames} \subseteq Objs(Firewall)
          /\ \A x \in Objs(Firewall) : x \notin {o("vcsa"), o("manager")} /\ ~Gateway(x)
          /\ \A S : o("manager") \in S => Met(Firewall, S)
<1> DEFINE reqa == [m \in {"mgmt"} \cup Mission(n) |-> Req("ensure", Group(m), {o("manager")}, "collect")]
           a == ForEach(reqa)
           b == IF policy("shared") \in objs THEN <<>> ELSE One("ensure", service, {o("manager")}, "ignore")
           c == [i \in DOMAIN Policies |->
                    Req("ensure", policy(Policies[i]), {Group(m) : m \in {"mgmt"} \cup Mission(n)}, "collect")]
<1>1. {service, o("manager")} \subseteq Object /\ \A m \in {"mgmt"} \cup Mission(n) : Group(m) \in Object
  BY AreObjects, MissionFacts, Tags DEF Singles
<1>2. Piece(a) /\ Objs(a) = {Group(m) : m \in {"mgmt"} \cup Mission(n)}
      /\ \A S : {o("manager")} \subseteq S => Met(a, S)
  <2>1. ASSUME NEW m \in {"mgmt"} \cup Mission(n)
        PROVE reqa[m] \in Call /\ Proper(reqa[m]) /\ reqa[m].obj = Group(m) /\ reqa[m].needs = {o("manager")}
    <3>1. Row("ensure", Group(m), {o("manager")}, "collect")
      BY <1>1, Tags, Plain
    <3> DEFINE q == Req("ensure", Group(m), {o("manager")}, "collect")
    <3>2. reqa[m] = q
      OBVIOUS
    <3> HIDE DEF reqa
    <3>3. q \in Call /\ Proper(q) /\ q.obj = Group(m) /\ q.needs = {o("manager")}
      BY <3>1 DEF Row, Req, Call
    <3> HIDE DEF q
    <3> QED
      BY <3>2, <3>3
  <2>2. reqa \in [{"mgmt"} \cup Mission(n) -> Call]
    BY <2>1
  <2> HIDE DEF reqa
  <2>3. \A m \in {"mgmt"} \cup Mission(n) : Proper(reqa[m]) /\ reqa[m].obj[1] # "vmk"
    BY <2>1, Tags
  <2>4. IsFiniteSet({"mgmt"} \cup Mission(n))
    BY MissionFacts
  <2>5. /\ Piece(a) /\ Objs(a) = {reqa[x].obj : x \in {"mgmt"} \cup Mission(n)}
        /\ \A S : (\A x \in {"mgmt"} \cup Mission(n) : reqa[x].needs \subseteq S) => Met(a, S)
    BY <2>2, <2>3, <2>4, EachFacts
  <2>6. {reqa[x].obj : x \in {"mgmt"} \cup Mission(n)} = {Group(m) : m \in {"mgmt"} \cup Mission(n)}
    BY <2>1
  <2> QED
    BY <2>1, <2>5, <2>6
<1>3. Piece(b) /\ Objs(b) \subseteq {service} /\ \A S : o("manager") \in S => Met(b, S)
  <2>1. Proper(Req("ensure", service, {o("manager")}, "ignore"))
    BY Tags, HandTags DEF Proper, Req, Quiet
  <2>2. Row("ensure", service, {o("manager")}, "ignore")
    BY <1>1, <2>1 DEF Row
  <2>3. service[1] # "vmk"
    BY Tags
  <2>4. CASE policy("shared") \in objs
    BY <2>4, EmptyFacts
  <2>5. CASE policy("shared") \notin objs
    <3>1. b = One("ensure", service, {o("manager")}, "ignore")
      BY <2>5
    <3> HIDE DEF b
    <3> QED
      BY <2>2, <2>3, <3>1, RowOne
  <2> QED
    BY <2>4, <2>5
<1>4. Piece(c) /\ Objs(c) = {policy(p) : p \in PolicyNames}
      /\ \A S : {Group(m) : m \in {"mgmt"} \cup Mission(n)} \subseteq S => Met(c, S)
  <2> DEFINE G == {Group(m) : m \in {"mgmt"} \cup Mission(n)}
  <2>1. DOMAIN Policies = 1 .. 5 /\ \A i \in 1 .. 5 : Policies[i] \in PolicyNames
    BY DEF Policies, PolicyNames
  <2>2. \A p \in PolicyNames : \E i \in 1 .. 5 : Policies[i] = p
    BY DEF Policies, PolicyNames
  <2>3. ASSUME NEW p \in PolicyNames PROVE Row("ensure", policy(p), G, "collect")
    <3>1. /\ {content, published, o("uplink")} \cap G = {} /\ (\A h \in Hosts : vmotion(h) \notin G)
          /\ G \cap ByHand = {}
      BY Tags, HandTags
    <3> HIDE DEF G
    <3>2. Proper(Req("ensure", policy(p), G, "collect"))
      BY <3>1, Tags, HandTags DEF Proper, Req, Quiet
    <3>3. G \subseteq Object /\ policy(p) \in Object
      BY <1>1, AreObjects DEF G
    <3> QED
      BY <3>2, <3>3 DEF Row
  <2> HIDE DEF G
  <2>4. \A i \in 1 .. 5 : c[i] = Req("ensure", policy(Policies[i]), G, "collect")
    BY <2>1 DEF G
  <2>5. DOMAIN c = 1 .. 5
    BY <2>1
  <2>6. ASSUME NEW i \in 1 .. 5
        PROVE c[i] \in Call /\ Proper(c[i]) /\ c[i].obj = policy(Policies[i]) /\ c[i].needs = G
    BY <2>1, <2>3, <2>4, RowFacts
  <2>7. c \in Seq(Call)
    <3>1. c = [i \in 1 .. 5 |-> c[i]]
      BY <2>1
    <3>2. c \in [1 .. 5 -> Call]
      BY <2>6, <3>1
    <3> QED
      BY <3>2
  <2> HIDE DEF c
  <2>8. Calls(c) = {c[i] : i \in 1 .. 5}
    BY <2>5 DEF Calls
  <2>9. Objs(c) = {policy(p) : p \in PolicyNames}
    <3>1. Objs(c) = {c[i].obj : i \in 1 .. 5}
      BY <2>8 DEF Objs
    <3>2. \A i \in 1 .. 5 : c[i].obj \in {policy(p) : p \in PolicyNames}
      BY <2>1, <2>6
    <3>3. \A p \in PolicyNames : policy(p) \in {c[i].obj : i \in 1 .. 5}
      BY <2>2, <2>6
    <3> QED
      BY <3>1, <3>2, <3>3
  <2>10. Pairs(c)
    BY <2>5, <2>6, Tags DEF Pairs
  <2>11. ASSUME NEW S, G \subseteq S PROVE Met(c, S)
    BY <2>5, <2>6, <2>11 DEF Met
  <2> QED
    BY <2>6, <2>7, <2>8, <2>9, <2>10, <2>11 DEF Piece, G
<1> HIDE DEF a, b, c
<1>5. /\ Piece((a \o b) \o c) /\ Objs((a \o b) \o c) = Objs(a) \cup Objs(b) \cup Objs(c)
      /\ \A S : Met(a, S) /\ Met(b, S \cup Objs(a)) /\ Met(c, S \cup Objs(a) \cup Objs(b))
                   => Met((a \o b) \o c, S)
  BY <1>2, <1>3, <1>4, ConcatThree
<1>6. Firewall = (a \o b) \o c
  BY DEF Firewall, a, b, c
<1>7. ASSUME NEW S, o("manager") \in S PROVE Met(Firewall, S)
  <2>1. Met(a, S)
    BY <1>2, <1>7
  <2>2. Met(b, S \cup Objs(a))
    BY <1>2, <1>3, <1>7
  <2>3. Met(c, S \cup Objs(a) \cup Objs(b))
    BY <1>2, <1>3, <1>4, <1>7
  <2> QED
    BY <2>1, <2>2, <2>3, <1>5, <1>6
<1> QED
  <2>1. \A x \in Objs(a) \cup Objs(b) \cup Objs(c) : x[1] \in {"group", "service", "policy"}
    BY <1>2, <1>3, <1>4, Tags
  <2>2. \A x : x[1] \in {"group", "service", "policy"} => x \notin {o("vcsa"), o("manager")} /\ ~Gateway(x)
    BY Tags DEF Gateway
  <2>3. \A x \in Objs(Firewall) : x \notin {o("vcsa"), o("manager")} /\ ~Gateway(x)
    BY <1>5, <1>6, <2>1, <2>2
  <2> QED
    BY <1>2, <1>4, <1>5, <1>6, <1>7, <2>3

-----------------------------------------------------------------------------
(***************************************************************************)
(* The steps of a command, one after the other.                            *)
(***************************************************************************)
StepNames == {"vcsa_deploy", "cluster", "vds", "storage", "ha_drs", "content_library",
              "manager", "transport", "host_tnp", "edge", "tier0", "tier1", "segments", "firewall"}

LEMMA StepsOf ==
    /\ \A c \in {"vcenter", "vnet"} : Steps[c] \in Seq(StepNames) /\ Len(Steps[c]) \in {6, 8}
    /\ Len(Steps["vcenter"]) = 6 /\ Len(Steps["vnet"]) = 8
    /\ DOMAIN Steps = {"vcenter", "vnet"}
    /\ Steps["vcenter"][1] = "vcsa_deploy" /\ Steps["vcenter"][2] = "cluster" /\ Steps["vcenter"][3] = "vds"
    /\ Steps["vcenter"][4] = "storage" /\ Steps["vcenter"][5] = "ha_drs" /\ Steps["vcenter"][6] = "content_library"
    /\ Steps["vnet"][1] = "manager" /\ Steps["vnet"][2] = "transport" /\ Steps["vnet"][3] = "host_tnp"
    /\ Steps["vnet"][4] = "edge" /\ Steps["vnet"][5] = "tier0" /\ Steps["vnet"][6] = "tier1"
    /\ Steps["vnet"][7] = "segments" /\ Steps["vnet"][8] = "firewall"
<1>1. /\ Steps["vcenter"] = <<"vcsa_deploy", "cluster", "vds", "storage", "ha_drs", "content_library">>
      /\ DOMAIN Steps = {"vcenter", "vnet"}
  BY DEF Steps
<1>2. Steps["vnet"] = <<"manager", "transport", "host_tnp", "edge", "tier0", "tier1", "segments", "firewall">>
  BY DEF Steps
<1> DEFINE a == <<"vcsa_deploy", "cluster", "vds", "storage", "ha_drs", "content_library">>
           b == <<"manager", "transport", "host_tnp", "edge", "tier0", "tier1", "segments", "firewall">>
<1>3. a \in Seq(StepNames) /\ Len(a) = 6
  BY DEF StepNames
<1>4. b \in Seq(StepNames) /\ Len(b) = 8
  BY DEF StepNames
<1>5. /\ a[1] = "vcsa_deploy" /\ a[2] = "cluster" /\ a[3] = "vds" /\ a[4] = "storage" /\ a[5] = "ha_drs"
      /\ a[6] = "content_library"
  OBVIOUS
<1>6. /\ b[1] = "manager" /\ b[2] = "transport" /\ b[3] = "host_tnp" /\ b[4] = "edge" /\ b[5] = "tier0"
      /\ b[6] = "tier1" /\ b[7] = "segments" /\ b[8] = "firewall"
  OBVIOUS
<1>7. Steps["vcenter"] = a /\ Steps["vnet"] = b
  BY <1>1, <1>2
<1> HIDE DEF a, b
<1> QED
  BY <1>1, <1>3, <1>4, <1>5, <1>6, <1>7

LEMMA SuffixFacts ==
    ASSUME NEW s \in Seq(StepNames), NEW i \in 1 .. Len(s) + 1
    PROVE /\ Len(SubSeq(s, i, Len(s))) = Len(s) + 1 - i
          /\ SubSeq(s, i, Len(s)) = <<>> => i = Len(s) + 1
          /\ SubSeq(s, i, Len(s)) # <<>> =>
                 /\ i \in 1 .. Len(s) /\ Head(SubSeq(s, i, Len(s))) = s[i] /\ i + 1 \in 1 .. Len(s) + 1
                 /\ Tail(SubSeq(s, i, Len(s))) = SubSeq(s, i + 1, Len(s))
<1> DEFINE t == SubSeq(s, i, Len(s))
<1>1. Len(s) \in Nat /\ i \in Nat /\ 1 <= i /\ i <= Len(s) + 1
  OBVIOUS
<1>2. t \in Seq(StepNames) /\ Len(t) = Len(s) + 1 - i
  BY <1>1
<1>3. t = <<>> => i = Len(s) + 1
  BY <1>1, <1>2
<1>4. ASSUME t # <<>>
      PROVE /\ i \in 1 .. Len(s) /\ Head(t) = s[i] /\ i + 1 \in 1 .. Len(s) + 1
            /\ Tail(t) = SubSeq(s, i + 1, Len(s))
  <2>1. Len(t) # 0
    BY <1>2, <1>4
  <2>2. i \in 1 .. Len(s) /\ i + 1 \in 1 .. Len(s) + 1
    BY <1>1, <1>2, <2>1
  <2>3. \A j \in 1 .. Len(s) + 1 - i : t[j] = s[i + j - 1]
    BY <1>1
  <2>4. Head(t) = s[i]
    BY <1>1, <1>4, <2>2, <2>3
  <2>5. Tail(t) = SubSeq(s, i + 1, Len(s))
    BY <1>1, <2>2
  <2> QED
    BY <2>2, <2>4, <2>5
<1> QED
  BY <1>2, <1>3, <1>4

\* Where a command is.
LEMMA Position ==
    ASSUME InfraType, StepsInv, command # "none", start > 0
    PROVE /\ start \in 1 .. Len(Steps[command]) /\ At \in start - 1 .. Len(Steps[command])
          /\ steps = <<>> => At = Len(Steps[command])
          /\ steps # <<>> => /\ At + 1 \in start .. Len(Steps[command]) /\ Head(steps) = Steps[command][At + 1]
                             /\ Len(Tail(steps)) = Len(steps) - 1
                             /\ Tail(steps) = SubSeq(Steps[command], At + 2, Len(Steps[command]))
<1> DEFINE s == Steps[command]
<1>1. s \in Seq(StepNames) /\ Len(s) \in {6, 8}
  BY StepsOf DEF InfraType
<1> HIDE DEF s
<1>2. PICK i \in start .. Len(s) + 1 : steps = SubSeq(s, i, Len(s))
  BY DEF StepsInv, s
<1>3. start \in 1 .. Len(s) /\ i \in 1 .. Len(s) + 1
  BY <1>1 DEF StepsInv, s
<1>4. /\ Len(steps) = Len(s) + 1 - i
      /\ steps = <<>> => i = Len(s) + 1
      /\ steps # <<>> => /\ i \in 1 .. Len(s) /\ Head(steps) = s[i] /\ i + 1 \in 1 .. Len(s) + 1
                         /\ Tail(steps) = SubSeq(s, i + 1, Len(s))
  <2>1. /\ Len(SubSeq(s, i, Len(s))) = Len(s) + 1 - i
        /\ SubSeq(s, i, Len(s)) = <<>> => i = Len(s) + 1
        /\ SubSeq(s, i, Len(s)) # <<>> =>
               /\ i \in 1 .. Len(s) /\ Head(SubSeq(s, i, Len(s))) = s[i] /\ i + 1 \in 1 .. Len(s) + 1
               /\ Tail(SubSeq(s, i, Len(s))) = SubSeq(s, i + 1, Len(s))
    BY <1>1, <1>3, SuffixFacts
  <2> QED
    BY <1>2, <2>1
<1>5. At = i - 1
  BY <1>1, <1>3, <1>4 DEF At, s
<1>6. i + 1 = At + 2 /\ i = At + 1
  BY <1>3, <1>5
<1>7. steps # <<>> => Len(Tail(steps)) = Len(steps) - 1
  <2>1. steps # <<>> => Len(SubSeq(s, i + 1, Len(s))) = Len(s) + 1 - (i + 1)
    BY <1>1, <1>4, SuffixFacts
  <2> QED
    BY <1>1, <1>3, <1>4, <2>1
<1> QED
  BY <1>1, <1>3, <1>4, <1>5, <1>6, <1>7 DEF s

\* What the steps before have made or logged, when nothing has failed; all of it, when nothing was lost.
Kept ==
    \A i \in start .. At :
        /\ \A x \in Promise(Steps[command][i]) : x \in objs \/ (x \in failed /\ Quiet(x))
        /\ Lossless => Promise(Steps[command][i]) \subseteq objs

\* What a step that begins is to make and what it can rely on.
Ready(s) ==
    /\ Piece(Requests(s))
    /\ {o("vcsa"), o("manager")} \cap Objs(Requests(s)) # {} => s \in {"vcsa_deploy", "manager"}
    /\ Full /\ (\E x \in Objs(Requests(s)) : Gateway(x)) => o("edge_cluster") \in objs
    /\ Promise(s) \subseteq objs \cup Objs(Requests(s))
    /\ Lossless => Met(Requests(s), objs \cup ByHand)

LEMMA KeptAt ==
    ASSUME Kept, Full, NEW i \in 2 .. At
    PROVE /\ \A x \in Promise(Steps[command][i]) : x \in objs \/ Quiet(x)
          /\ Lossless => Promise(Steps[command][i]) \subseteq objs
<1>1. i \in start .. At
  BY DEF Full
<1> QED
  BY <1>1 DEF Kept

LEMMA ApplianceThere ==
    ASSUME InfraType, Kept, Lossless, command # "none", At \in Nat, At > 0
    PROVE Appliance \in objs
<1>1. start = 1 \/ (start = 2 /\ Appliance \in objs)
  BY DEF Lossless, Full
<1>2. CASE start = 1
  <2>1. Promise(Steps[command][1]) \subseteq objs
    BY <1>2 DEF Kept
  <2> QED
    BY <2>1, StepsOf DEF Promise, PromiseOf, Appliance, InfraType
<1> QED
  BY <1>1, <1>2

LEMMA OtherTags ==
    ASSUME NEW s, \A x \in s : x[1] \notin {"vcsa", "manager", "tier0", "locale", "tier1"}
    PROVE {o("vcsa"), o("manager")} \cap s = {} /\ ~ \E x \in s : Gateway(x)
BY Tags DEF Gateway

LEMMA ReadyVcsaDeploy ==
    ASSUME InfraType, StepsInv, command = "vcenter", start > 0, At = 0, Kept
    PROVE Ready("vcsa_deploy")
<1>1. Requests("vcsa_deploy") = VcsaDeploy
  BY DEF Requests
<1>2. n \in 1 .. Len(Missions)
  BY DEF StepsInv
<1>3. Piece(VcsaDeploy) /\ Objs(VcsaDeploy) = {o("vcsa")}
  BY <1>2, VcsaDeployFacts
<1>4. Promise("vcsa_deploy") \subseteq Objs(VcsaDeploy)
  BY <1>3 DEF Promise, PromiseOf
<1>5. ~ \E x \in Objs(VcsaDeploy) : Gateway(x)
  BY <1>3, Tags DEF Gateway
<1>6. ASSUME Lossless PROVE Met(VcsaDeploy, objs \cup ByHand)
  BY VcsaDeployFacts
<1> QED
  BY <1>1, <1>3, <1>4, <1>5, <1>6 DEF Ready

LEMMA ReadyCluster ==
    ASSUME InfraType, StepsInv, command = "vcenter", start > 0, At = 1, Kept
    PROVE Ready("cluster")
<1>1. Requests("cluster") = Cluster
  BY DEF Requests
<1>2. n \in 1 .. Len(Missions)
  BY DEF StepsInv
<1>3. Piece(Cluster) /\ Objs(Cluster) = {o("dc"), o("cluster")} \cup {host(h) : h \in Hosts}
  BY <1>2, ClusterFacts
<1>4. Promise("cluster") \subseteq Objs(Cluster)
  BY <1>3 DEF Promise, PromiseOf
<1>5. {o("vcsa"), o("manager")} \cap Objs(Cluster) = {} /\ ~ \E x \in Objs(Cluster) : Gateway(x)
  <2>1. \A x \in Objs(Cluster) : x[1] \notin {"vcsa", "manager", "tier0", "locale", "tier1"}
    BY <1>3, Tags
  <2> QED
    BY <2>1, OtherTags
<1>6. ASSUME Lossless PROVE Met(Cluster, objs \cup ByHand)
  <2>1. Appliance \in objs
    BY <1>6, ApplianceThere
  <2> QED
    BY <1>2, <2>1, ClusterFacts DEF Appliance
<1> QED
  BY <1>1, <1>3, <1>4, <1>5, <1>6 DEF Ready

LEMMA ReadyVds ==
    ASSUME InfraType, StepsInv, command = "vcenter", start > 0, At = 2, Kept
    PROVE Ready("vds")
<1>1. Requests("vds") = Vds
  BY DEF Requests
<1>2. n \in 1 .. Len(Missions)
  BY DEF StepsInv
<1>3. Piece(Vds) /\ Objs(Vds) = {o("vds"), o("pg")} \cup {member(h) : h \in Hosts}
                                        \cup {ports(x) : x \in {"mgmt"} \cup Mission(n)}
  BY <1>2, VdsFacts
<1>4. Promise("vds") \subseteq Objs(Vds)
  BY <1>3 DEF Promise, PromiseOf
<1>5. {o("vcsa"), o("manager")} \cap Objs(Vds) = {} /\ ~ \E x \in Objs(Vds) : Gateway(x)
  <2>1. \A x \in Objs(Vds) : x[1] \notin {"vcsa", "manager", "tier0", "locale", "tier1"}
    BY <1>3, Tags
  <2> QED
    BY <2>1, OtherTags
<1>6. ASSUME Lossless PROVE Met(Vds, objs \cup ByHand)
  <2>0. Full
    BY <1>6 DEF Lossless
  <2>1. Promise("cluster") \subseteq objs
    <3>1. Promise(Steps[command][2]) \subseteq objs
      BY <1>6, <2>0, KeptAt
    <3> QED
      BY <3>1, StepsOf
  <2>2. o("dc") \in objs /\ \A h \in Hosts : host(h) \in objs
    BY <2>1 DEF Promise, PromiseOf
  <2> QED
    BY <1>2, <2>2, VdsFacts
<1> QED
  BY <1>1, <1>3, <1>4, <1>5, <1>6 DEF Ready

LEMMA ReadyStorage ==
    ASSUME InfraType, StepsInv, command = "vcenter", start > 0, At = 3, Kept
    PROVE Ready("storage")
<1>1. Requests("storage") = Storage
  BY DEF Requests
<1>3. /\ Piece(Storage) /\ Objs(Storage) = {o("vsan")} \cup {disks(h) : h \in {x \in Hosts \ Flash : host(x) \in objs}}
      /\ o("cluster") \in objs => Met(Storage, objs \cup ByHand)
  BY StorageFacts
<1>4. ASSUME Full PROVE o("cluster") \in objs /\ \A h \in Hosts : host(h) \in objs
  <2>1. \A x \in Promise(Steps[command][2]) : x \in objs \/ Quiet(x)
    BY <1>4, KeptAt
  <2>2. Promise(Steps[command][2]) = {o("dc"), o("cluster")} \cup {host(h) : h \in Hosts}
    BY StepsOf DEF Promise, PromiseOf
  <2>3. \A x : x[1] \in {"cluster", "host"} => ~Quiet(x)
    BY DEF Quiet
  <2> QED
    BY <2>1, <2>2, <2>3, Tags
<1>5. Promise("storage") \subseteq Objs(Storage)
  <2>1. Promise("storage") = {o("vsan")} \cup (IF Full THEN {disks(h) : h \in Hosts \ Flash} ELSE {})
    BY DEF Promise, PromiseOf
  <2>2. Full => {disks(h) : h \in Hosts \ Flash} \subseteq Objs(Storage)
    BY <1>3, <1>4
  <2> QED
    BY <1>3, <2>1, <2>2
<1>6. {o("vcsa"), o("manager")} \cap Objs(Storage) = {} /\ ~ \E x \in Objs(Storage) : Gateway(x)
  <2>1. \A x \in Objs(Storage) : x[1] \notin {"vcsa", "manager", "tier0", "locale", "tier1"}
    BY <1>3, Tags
  <2> QED
    BY <2>1, OtherTags
<1> QED
  BY <1>1, <1>3, <1>4, <1>5, <1>6 DEF Ready, Lossless

LEMMA ReadyHaDrs ==
    ASSUME InfraType, StepsInv, command = "vcenter", start > 0, At = 4, Kept
    PROVE Ready("ha_drs")
<1>1. Requests("ha_drs") = HaDrs
  BY DEF Requests
<1>2. n \in 1 .. Len(Missions)
  BY DEF StepsInv
<1>3. Piece(HaDrs) /\ Objs(HaDrs) = {o("ha"), o("drs")} \cup {vmk(h) : h \in Hosts} \cup {vmotion(h) : h \in Hosts}
  BY <1>2, HaDrsFacts
<1>4. Promise("ha_drs") \subseteq Objs(HaDrs)
  BY <1>3 DEF Promise, PromiseOf
<1>5. {o("vcsa"), o("manager")} \cap Objs(HaDrs) = {} /\ ~ \E x \in Objs(HaDrs) : Gateway(x)
  <2>1. \A x \in Objs(HaDrs) : x[1] \notin {"vcsa", "manager", "tier0", "locale", "tier1"}
    BY <1>3, Tags
  <2> QED
    BY <2>1, OtherTags
<1>6. ASSUME Lossless PROVE Met(HaDrs, objs \cup ByHand)
  <2>0. Full
    BY <1>6 DEF Lossless
  <2>1. Promise("cluster") \subseteq objs
    <3>1. Promise(Steps[command][2]) \subseteq objs
      BY <1>6, <2>0, KeptAt
    <3> QED
      BY <3>1, StepsOf
  <2>2. Promise("vds") \subseteq objs
    <3>1. Promise(Steps[command][3]) \subseteq objs
      BY <1>6, <2>0, KeptAt
    <3> QED
      BY <3>1, StepsOf
  <2>3. o("cluster") \in objs /\ (\A h \in Hosts : {host(h), member(h), o("pg")} \subseteq objs)
    BY <2>1, <2>2 DEF Promise, PromiseOf
  <2> QED
    BY <1>2, <2>3, HaDrsFacts
<1> QED
  BY <1>1, <1>3, <1>4, <1>5, <1>6 DEF Ready

LEMMA ReadyContentLibrary ==
    ASSUME InfraType, StepsInv, command = "vcenter", start > 0, At = 5, Kept
    PROVE Ready("content_library")
<1>1. Requests("content_library") = ContentLibrary
  BY DEF Requests
<1>2. n \in 1 .. Len(Missions)
  BY DEF StepsInv
<1>3. Piece(ContentLibrary) /\ Objs(ContentLibrary) = {o("library"), item, content, published}
  BY <1>2, ContentLibraryFacts
<1>4. Promise("content_library") \subseteq Objs(ContentLibrary)
  BY <1>3 DEF Promise, PromiseOf
<1>5. {o("vcsa"), o("manager")} \cap Objs(ContentLibrary) = {} /\ ~ \E x \in Objs(ContentLibrary) : Gateway(x)
  <2>1. \A x \in Objs(ContentLibrary) : x[1] \notin {"vcsa", "manager", "tier0", "locale", "tier1"}
    BY <1>3, Tags
  <2> QED
    BY <2>1, OtherTags
<1>6. ASSUME Lossless PROVE Met(ContentLibrary, objs \cup ByHand)
  <2>0. Full
    BY <1>6 DEF Lossless
  <2>1. Promise("storage") \subseteq objs
    <3>1. Promise(Steps[command][4]) \subseteq objs
      BY <1>6, <2>0, KeptAt
    <3> QED
      BY <3>1, StepsOf
  <2>2. o("vsan") \in objs
    BY <2>1 DEF Promise, PromiseOf
  <2> QED
    BY <1>2, <2>2, ContentLibraryFacts
<1> QED
  BY <1>1, <1>3, <1>4, <1>5, <1>6 DEF Ready

LEMMA ReadyManager ==
    ASSUME InfraType, StepsInv, command = "vnet", start > 0, At = 0, Kept
    PROVE Ready("manager")
<1>1. Requests("manager") = Manager
  BY DEF Requests
<1>2. n \in 1 .. Len(Missions)
  BY DEF StepsInv
<1>3. Piece(Manager) /\ Objs(Manager) = {o("manager")}
  BY <1>2, ManagerFacts
<1>4. Promise("manager") \subseteq Objs(Manager)
  BY <1>3 DEF Promise, PromiseOf
<1>5. ~ \E x \in Objs(Manager) : Gateway(x)
  BY <1>3, Tags DEF Gateway
<1>6. ASSUME Lossless PROVE Met(Manager, objs \cup ByHand)
  BY ManagerFacts
<1> QED
  BY <1>1, <1>3, <1>4, <1>5, <1>6 DEF Ready

LEMMA ReadyTransport ==
    ASSUME InfraType, StepsInv, command = "vnet", start > 0, At = 1, Kept
    PROVE Ready("transport")
<1>1. Requests("transport") = Transport
  BY DEF Requests
<1>2. n \in 1 .. Len(Missions)
  BY DEF StepsInv
<1>3. Piece(Transport) /\ Objs(Transport) = {o("overlay"), o("vlan"), o("pool"), o("profile")}
  BY <1>2, TransportFacts
<1>4. Promise("transport") \subseteq Objs(Transport)
  BY <1>3 DEF Promise, PromiseOf
<1>5. {o("vcsa"), o("manager")} \cap Objs(Transport) = {} /\ ~ \E x \in Objs(Transport) : Gateway(x)
  <2>1. \A x \in Objs(Transport) : x[1] \notin {"vcsa", "manager", "tier0", "locale", "tier1"}
    BY <1>3, Tags
  <2> QED
    BY <2>1, OtherTags
<1>6. ASSUME Lossless PROVE Met(Transport, objs \cup ByHand)
  <2>1. Appliance \in objs
    BY <1>6, ApplianceThere
  <2> QED
    BY <1>2, <2>1, TransportFacts DEF Appliance
<1> QED
  BY <1>1, <1>3, <1>4, <1>5, <1>6 DEF Ready

LEMMA ReadyHostTnp ==
    ASSUME InfraType, StepsInv, command = "vnet", start > 0, At = 2, Kept
    PROVE Ready("host_tnp")
<1>1. Requests("host_tnp") = HostTnp
  BY DEF Requests
<1>2. n \in 1 .. Len(Missions)
  BY DEF StepsInv
<1>3. Piece(HostTnp) /\ Objs(HostTnp) = {o("tnp"), o("applied")}
  BY <1>2, HostTnpFacts
<1>4. Promise("host_tnp") \subseteq Objs(HostTnp)
  BY <1>3 DEF Promise, PromiseOf
<1>5. {o("vcsa"), o("manager")} \cap Objs(HostTnp) = {} /\ ~ \E x \in Objs(HostTnp) : Gateway(x)
  <2>1. \A x \in Objs(HostTnp) : x[1] \notin {"vcsa", "manager", "tier0", "locale", "tier1"}
    BY <1>3, Tags
  <2> QED
    BY <2>1, OtherTags
<1>6. ASSUME Lossless PROVE Met(HostTnp, objs \cup ByHand)
  <2>0. Full
    BY <1>6 DEF Lossless
  <2>1. Promise("transport") \subseteq objs
    <3>1. Promise(Steps[command][2]) \subseteq objs
      BY <1>6, <2>0, KeptAt
    <3> QED
      BY <3>1, StepsOf
  <2>2. {o("overlay"), o("pool"), o("profile")} \subseteq objs
    BY <2>1 DEF Promise, PromiseOf
  <2> QED
    BY <1>2, <2>2, HostTnpFacts DEF ByHand
<1> QED
  BY <1>1, <1>3, <1>4, <1>5, <1>6 DEF Ready

LEMMA ReadyEdge ==
    ASSUME InfraType, StepsInv, command = "vnet", start > 0, At = 3, Kept
    PROVE Ready("edge")
<1>1. Requests("edge") = Edge
  BY DEF Requests
<1>2. n \in 1 .. Len(Missions)
  BY DEF StepsInv
<1>3. Piece(Edge) /\ Objs(Edge) = {edge(m) : m \in Mission(n)} \cup {o("edge_cluster")}
  BY <1>2, EdgeFacts
<1>4. Promise("edge") \subseteq Objs(Edge)
  BY <1>3 DEF Promise, PromiseOf
<1>5. {o("vcsa"), o("manager")} \cap Objs(Edge) = {} /\ ~ \E x \in Objs(Edge) : Gateway(x)
  <2>1. \A x \in Objs(Edge) : x[1] \notin {"vcsa", "manager", "tier0", "locale", "tier1"}
    BY <1>3, Tags
  <2> QED
    BY <2>1, OtherTags
<1>6. ASSUME Lossless PROVE Met(Edge, objs \cup ByHand)
  <2>0. Full
    BY <1>6 DEF Lossless
  <2>1. Promise("transport") \subseteq objs
    <3>1. Promise(Steps[command][2]) \subseteq objs
      BY <1>6, <2>0, KeptAt
    <3> QED
      BY <3>1, StepsOf
  <2>2. {o("overlay"), o("vlan"), o("profile")} \subseteq objs
    BY <2>1 DEF Promise, PromiseOf
  <2> QED
    BY <1>2, <2>2, EdgeFacts DEF ByHand
<1> QED
  BY <1>1, <1>3, <1>4, <1>5, <1>6 DEF Ready

LEMMA ReadyTier0 ==
    ASSUME InfraType, StepsInv, command = "vnet", start > 0, At = 4, Kept
    PROVE Ready("tier0")
<1>1. Requests("tier0") = Tier0
  BY DEF Requests
<1>2. n \in 1 .. Len(Missions)
  BY DEF StepsInv
<1>3. Piece(Tier0) /\ Objs(Tier0) = {o("tier0"), o("locale")} \cup (IF linked THEN {o("uplink")} ELSE {})
  BY <1>2, Tier0Facts
<1>4. Promise("tier0") \subseteq Objs(Tier0)
  BY <1>3 DEF Promise, PromiseOf
<1>5. /\ {o("vcsa"), o("manager")} \cap Objs(Tier0) = {}
      /\ Full => o("edge_cluster") \in objs
  <2>1. {o("vcsa"), o("manager")} \cap Objs(Tier0) = {}
    BY <1>3, Tags
  <2>2. ASSUME Full PROVE o("edge_cluster") \in objs
    <3>1. \A x \in Promise(Steps[command][4]) : x \in objs \/ Quiet(x)
      BY <2>2, KeptAt
    <3>2. o("edge_cluster") \in Promise(Steps[command][4])
      BY StepsOf DEF Promise, PromiseOf
    <3> QED
      BY <3>1, <3>2, Tags DEF Quiet
  <2> QED
    BY <2>1, <2>2
<1>6. ASSUME Lossless PROVE Met(Tier0, objs \cup ByHand)
  <2>1. Appliance \in objs
    BY <1>6, ApplianceThere
  <2> QED
    BY <1>2, <2>1, Tier0Facts DEF Appliance, ByHand
<1> QED
  BY <1>1, <1>3, <1>4, <1>5, <1>6 DEF Ready

LEMMA ReadyTier1 ==
    ASSUME InfraType, StepsInv, command = "vnet", start > 0, At = 5, Kept
    PROVE Ready("tier1")
<1>1. Requests("tier1") = Tier1
  BY DEF Requests
<1>2. n \in 1 .. Len(Missions)
  BY DEF StepsInv
<1>3. Piece(Tier1) /\ Objs(Tier1) = {t1(m) : m \in {"mgmt"} \cup Mission(n)}
  BY <1>2, Tier1Facts
<1>4. Promise("tier1") \subseteq Objs(Tier1)
  BY <1>3 DEF Promise, PromiseOf
<1>5. /\ {o("vcsa"), o("manager")} \cap Objs(Tier1) = {}
      /\ Full => o("edge_cluster") \in objs
  <2>1. {o("vcsa"), o("manager")} \cap Objs(Tier1) = {}
    BY <1>3, Tags
  <2>2. ASSUME Full PROVE o("edge_cluster") \in objs
    <3>1. \A x \in Promise(Steps[command][4]) : x \in objs \/ Quiet(x)
      BY <2>2, KeptAt
    <3>2. o("edge_cluster") \in Promise(Steps[command][4])
      BY StepsOf DEF Promise, PromiseOf
    <3> QED
      BY <3>1, <3>2, Tags DEF Quiet
  <2> QED
    BY <2>1, <2>2
<1>6. ASSUME Lossless PROVE Met(Tier1, objs \cup ByHand)
  <2>0. Full
    BY <1>6 DEF Lossless
  <2>1. Promise("tier0") \subseteq objs
    <3>1. Promise(Steps[command][5]) \subseteq objs
      BY <1>6, <2>0, KeptAt
    <3> QED
      BY <3>1, StepsOf
  <2>2. o("tier0") \in objs
    BY <2>1 DEF Promise, PromiseOf
  <2> QED
    BY <1>2, <2>2, Tier1Facts
<1> QED
  BY <1>1, <1>3, <1>4, <1>5, <1>6 DEF Ready

LEMMA ReadySegments ==
    ASSUME InfraType, StepsInv, command = "vnet", start > 0, At = 6, Kept
    PROVE Ready("segments")
<1>1. Requests("segments") = Segments
  BY DEF Requests
<1>2. n \in 1 .. Len(Missions)
  BY DEF StepsInv
<1>3. ASSUME Full PROVE o("overlay") \in objs /\ \A m \in {"mgmt"} \cup Mission(n) : t1(m) \in objs
  <2>1. (\A x \in Promise(Steps[command][2]) : x \in objs \/ Quiet(x))
        /\ \A x \in Promise(Steps[command][6]) : x \in objs \/ Quiet(x)
    BY <1>3, KeptAt
  <2>2. /\ o("overlay") \in Promise(Steps[command][2])
        /\ \A m \in {"mgmt"} \cup Mission(n) : t1(m) \in Promise(Steps[command][6])
    BY StepsOf DEF Promise, PromiseOf
  <2>3. \A x : x[1] \in {"overlay", "tier1"} => ~Quiet(x)
    BY DEF Quiet
  <2> QED
    BY <2>1, <2>2, <2>3, Tags
<1>4. Promise("segments") = IF Full THEN {segment(m) : m \in {"mgmt"} \cup Mission(n)} ELSE {}
  BY DEF Promise, PromiseOf
<1>5. CASE o("overlay") \in objs
  <2>1. /\ Piece(Segments) /\ Objs(Segments) = {segment(m) : m \in {"mgmt"} \cup Mission(n)}
        /\ (\A m \in {"mgmt"} \cup Mission(n) : t1(m) \in objs) => Met(Segments, objs \cup ByHand)
    BY <1>2, <1>5, SegmentsFacts
  <2>2. {o("vcsa"), o("manager")} \cap Objs(Segments) = {} /\ ~ \E x \in Objs(Segments) : Gateway(x)
    <3>1. \A x \in Objs(Segments) : x[1] \notin {"vcsa", "manager", "tier0", "locale", "tier1"}
      BY <2>1, Tags
    <3> QED
      BY <3>1, OtherTags
  <2>3. Promise("segments") \subseteq Objs(Segments)
    BY <1>4, <2>1
  <2> QED
    BY <1>1, <1>3, <2>1, <2>2, <2>3 DEF Ready, Lossless
<1>6. CASE o("overlay") \notin objs
  <2>1. Piece(Segments) /\ Objs(Segments) = {segment("mgmt")}
    BY <1>6, NoSegments
  <2>2. {o("vcsa"), o("manager")} \cap Objs(Segments) = {} /\ ~ \E x \in Objs(Segments) : Gateway(x)
    <3>1. \A x \in Objs(Segments) : x[1] \notin {"vcsa", "manager", "tier0", "locale", "tier1"}
      BY <2>1, Tags
    <3> QED
      BY <3>1, OtherTags
  <2>3. ~ Full /\ Promise("segments") = {}
    BY <1>3, <1>4, <1>6
  <2> QED
    BY <1>1, <2>1, <2>2, <2>3 DEF Ready, Lossless
<1> QED
  BY <1>5, <1>6

LEMMA ReadyFirewall ==
    ASSUME InfraType, StepsInv, command = "vnet", start > 0, At = 7, Kept
    PROVE Ready("firewall")
<1>1. Requests("firewall") = Firewall
  BY DEF Requests
<1>2. n \in 1 .. Len(Missions)
  BY DEF StepsInv
<1>3. /\ Piece(Firewall)
      /\ {Group(m) : m \in {"mgmt"} \cup Mission(n)} \cup {policy(p) : p \in PolicyNames} \subseteq Objs(Firewall)
      /\ \A x \in Objs(Firewall) : x \notin {o("vcsa"), o("manager")} /\ ~Gateway(x)
      /\ \A S : o("manager") \in S => Met(Firewall, S)
  BY <1>2, FirewallFacts
<1>4. Promise("firewall") \subseteq Objs(Firewall)
  BY <1>3 DEF Promise, PromiseOf
<1>5. ASSUME Lossless PROVE Met(Firewall, objs \cup ByHand)
  <2>1. Appliance \in objs
    BY <1>5, ApplianceThere
  <2> QED
    BY <1>3, <2>1 DEF Appliance
<1> QED
  BY <1>1, <1>3, <1>4, <1>5 DEF Ready

\* Every step that begins is ready.
LEMMA ReadyNext ==
    ASSUME InfraType, StepsInv, command # "none", start > 0, steps # <<>>, Kept
    PROVE Ready(Head(steps)) /\ (Head(steps) \in {"vcsa_deploy", "manager"} => start = 1)
<1>1. /\ start \in 1 .. Len(Steps[command]) /\ At + 1 \in start .. Len(Steps[command])
      /\ Head(steps) = Steps[command][At + 1] /\ At \in start - 1 .. Len(Steps[command])
  BY Position
<1>2. CASE command = "vcenter"
  <2>1. At \in {0, 1, 2, 3, 4, 5}
    <3>1. Len(Steps[command]) = 6
      BY <1>2, StepsOf
    <3>2. start \in 1 .. 6 /\ At + 1 \in start .. 6 /\ At \in start - 1 .. 6
      BY <1>1, <3>1
    <3>3. At \in 0 .. 5
      BY <3>2
    <3> QED
      BY <3>3
  <2>2. CASE At = 0
    BY <1>1, <1>2, <2>2, StepsOf, ReadyVcsaDeploy
  <2>3. CASE At = 1
    BY <1>1, <1>2, <2>3, StepsOf, ReadyCluster
  <2>4. CASE At = 2
    BY <1>1, <1>2, <2>4, StepsOf, ReadyVds
  <2>5. CASE At = 3
    BY <1>1, <1>2, <2>5, StepsOf, ReadyStorage
  <2>6. CASE At = 4
    BY <1>1, <1>2, <2>6, StepsOf, ReadyHaDrs
  <2>7. CASE At = 5
    BY <1>1, <1>2, <2>7, StepsOf, ReadyContentLibrary
  <2> QED
    BY <2>1, <2>2, <2>3, <2>4, <2>5, <2>6, <2>7
<1>3. CASE command = "vnet"
  <2>1. At \in {0, 1, 2, 3, 4, 5, 6, 7}
    <3>1. Len(Steps[command]) = 8
      BY <1>3, StepsOf
    <3>2. start \in 1 .. 8 /\ At + 1 \in start .. 8 /\ At \in start - 1 .. 8
      BY <1>1, <3>1
    <3>3. At \in 0 .. 7
      BY <3>2
    <3> QED
      BY <3>3
  <2>2. CASE At = 0
    BY <1>1, <1>3, <2>2, StepsOf, ReadyManager
  <2>3. CASE At = 1
    BY <1>1, <1>3, <2>3, StepsOf, ReadyTransport
  <2>4. CASE At = 2
    BY <1>1, <1>3, <2>4, StepsOf, ReadyHostTnp
  <2>5. CASE At = 3
    BY <1>1, <1>3, <2>5, StepsOf, ReadyEdge
  <2>6. CASE At = 4
    BY <1>1, <1>3, <2>6, StepsOf, ReadyTier0
  <2>7. CASE At = 5
    BY <1>1, <1>3, <2>7, StepsOf, ReadyTier1
  <2>8. CASE At = 6
    BY <1>1, <1>3, <2>8, StepsOf, ReadySegments
  <2>9. CASE At = 7
    BY <1>1, <1>3, <2>9, StepsOf, ReadyFirewall
  <2> QED
    BY <2>1, <2>2, <2>3, <2>4, <2>5, <2>6, <2>7, <2>8, <2>9
<1> QED
  BY <1>2, <1>3 DEF InfraType

-----------------------------------------------------------------------------
(***************************************************************************)
(* A request.                                                              *)
(***************************************************************************)
LEMMA NotEmpty == ASSUME NEW t, 1 \in DOMAIN t PROVE t # <<>>
<1>1. DOMAIN <<>> = {}
  OBVIOUS
<1> QED
  BY <1>1

\* What is left when the first request is done.
LEMMA TailFacts ==
    ASSUME NEW s, Piece(s), s # <<>>
    PROVE /\ s[1] \in Call /\ Proper(s[1]) /\ Piece(Tail(s)) /\ Len(s) \in Nat
          /\ Objs(s) = {s[1].obj} \cup Objs(Tail(s))
          /\ \A h \in Hosts : s[1].obj = vmk(h) => Tail(s) # <<>> /\ Tail(s)[1].obj = vmotion(h)
          /\ Len(s) > 1 => Tail(s) # <<>> /\ Tail(s)[1] = s[2]
          /\ \A S, T : Met(s, S) /\ S \cup {s[1].obj} \subseteq T => s[1].needs \subseteq S /\ Met(Tail(s), T)
<1>1. /\ Tail(s) \in Seq(Call) /\ Len(s) \in Nat \ {0} /\ DOMAIN s = 1 .. Len(s)
      /\ DOMAIN Tail(s) = 1 .. Len(s) - 1 /\ \A i \in 1 .. Len(s) - 1 : Tail(s)[i] = s[i + 1]
      /\ s[1] \in Call /\ 1 \in DOMAIN s
  BY DEF Piece
<1>2. s[1] \in Calls(s)
  BY <1>1 DEF Calls
<1>3. ASSUME NEW i \in DOMAIN s PROVE s[i] \in {s[1]} \cup Calls(Tail(s))
  <2>1. CASE i = 1
    BY <2>1
  <2>2. CASE i # 1
    <3>1. i - 1 \in DOMAIN Tail(s) /\ Tail(s)[i - 1] = s[i]
      BY <1>1, <2>2
    <3> QED
      BY <3>1 DEF Calls
  <2> QED
    BY <2>1, <2>2
<1>4. Calls(Tail(s)) \subseteq Calls(s)
  BY <1>1 DEF Calls
<1>5. Calls(s) = {s[1]} \cup Calls(Tail(s))
  BY <1>2, <1>3, <1>4 DEF Calls
<1>6. Objs(s) = {s[1].obj} \cup Objs(Tail(s))
  BY <1>5 DEF Objs
<1>7. Pairs(Tail(s))
  <2> SUFFICES ASSUME NEW i \in DOMAIN Tail(s), NEW h \in Hosts, Tail(s)[i].obj = vmk(h)
               PROVE i + 1 \in DOMAIN Tail(s) /\ Tail(s)[i + 1].obj = vmotion(h)
    BY DEF Pairs
  <2>1. i + 1 \in DOMAIN s /\ s[i + 1].obj = vmk(h)
    BY <1>1
  <2>2. (i + 1) + 1 \in DOMAIN s /\ s[(i + 1) + 1].obj = vmotion(h)
    BY <2>1 DEF Piece, Pairs
  <2> QED
    BY <1>1, <2>2
<1>8. ASSUME NEW h \in Hosts, s[1].obj = vmk(h) PROVE Tail(s) # <<>> /\ Tail(s)[1].obj = vmotion(h)
  <2>1. 1 + 1 \in DOMAIN s /\ s[1 + 1].obj = vmotion(h)
    BY <1>1, <1>8 DEF Piece, Pairs
  <2>2. 1 \in DOMAIN Tail(s) /\ Tail(s)[1] = s[1 + 1]
    BY <1>1, <2>1
  <2> QED
    BY <2>1, <2>2, NotEmpty
<1>9. Len(s) > 1 => Tail(s) # <<>> /\ Tail(s)[1] = s[2]
  <2> SUFFICES ASSUME Len(s) > 1 PROVE Tail(s) # <<>> /\ Tail(s)[1] = s[2]
    OBVIOUS
  <2>1. 1 \in DOMAIN Tail(s) /\ Tail(s)[1] = s[2]
    BY <1>1
  <2> QED
    BY <2>1, NotEmpty
<1>10. ASSUME NEW S, NEW T, Met(s, S), S \cup {s[1].obj} \subseteq T
       PROVE s[1].needs \subseteq S /\ Met(Tail(s), T)
  <2>1. s[1].needs \subseteq S
    BY <1>1, <1>10 DEF Met
  <2>2. ASSUME NEW i \in DOMAIN Tail(s) PROVE Tail(s)[i].needs \subseteq T \cup {Tail(s)[j].obj : j \in 1 .. i - 1}
    <3>1. i + 1 \in DOMAIN s /\ Tail(s)[i] = s[i + 1] /\ i \in Nat
      BY <1>1
    <3>2. s[i + 1].needs \subseteq S \cup {s[j].obj : j \in 1 .. (i + 1) - 1}
      BY <1>10, <3>1 DEF Met
    <3>3. ASSUME NEW j \in 1 .. (i + 1) - 1 PROVE s[j].obj \in T \cup {Tail(s)[m].obj : m \in 1 .. i - 1}
      <4>1. CASE j = 1
        BY <1>10, <4>1
      <4>2. CASE j # 1
        <5>1. j - 1 \in 1 .. i - 1 /\ Tail(s)[j - 1] = s[j]
          BY <1>1, <3>1, <4>2
        <5> QED
          BY <5>1
      <4> QED
        BY <4>1, <4>2
    <3>4. {s[j].obj : j \in 1 .. (i + 1) - 1} \subseteq T \cup {Tail(s)[m].obj : m \in 1 .. i - 1}
      BY <3>3
    <3>5. S \subseteq T
      BY <1>10
    <3> QED
      BY <3>1, <3>2, <3>4, <3>5
  <2> QED
    BY <2>1, <2>2 DEF Met
<1> QED
  BY <1>1, <1>2, <1>4, <1>6, <1>7, <1>8, <1>9, <1>10 DEF Piece

\* Nothing needs what is left out.
LEMMA MetLess ==
    ASSUME NEW s, Piece(s), NEW S, NEW x, Met(s, S \cup {x}), \A q \in Calls(s) : x \notin q.needs
    PROVE Met(s, S)
<1> SUFFICES ASSUME NEW i \in DOMAIN s PROVE s[i].needs \subseteq S \cup {s[j].obj : j \in 1 .. i - 1}
  BY DEF Met
<1>1. s[i].needs \subseteq (S \cup {x}) \cup {s[j].obj : j \in 1 .. i - 1}
  BY DEF Met
<1>2. x \notin s[i].needs
  BY DEF Calls
<1> QED
  BY <1>1, <1>2

LEMMA DependsFacts ==
    ASSUME NEW q \in Call, Proper(q), NEW x \in Depends(q.obj)
    PROVE /\ \/ q.obj \in {item, content}
             \/ \E h \in Hosts : q.obj = vmk(h) /\ x = vmotion(h)
          /\ x \in {content, published} \/ \E h \in Hosts : x = vmotion(h)
<1>0. /\ item # content /\ item[1] # "vmk" /\ content[1] # "vmk"
  BY Tags
<1>1. CASE q.obj = item
  <2>1. x \in {content, published}
    BY <1>0, <1>1 DEF Depends
  <2> QED
    BY <1>1, <2>1
<1>2. CASE q.obj = content
  <2>1. x \in {published}
    BY <1>0, <1>2 DEF Depends
  <2> QED
    BY <1>2, <2>1
<1>3. CASE q.obj \notin {item, content} /\ q.obj[1] = "vmk"
  <2>1. PICK h \in Hosts : q.obj = vmk(h)
    BY <1>3 DEF Proper
  <2>2. x = vmotion(q.obj[2])
    BY <1>3 DEF Depends
  <2>3. q.obj[2] = h
    BY <2>1, Tags
  <2> QED
    BY <2>1, <2>2, <2>3
<1>4. CASE q.obj \notin {item, content} /\ q.obj[1] # "vmk"
  BY <1>4 DEF Depends
<1> QED
  BY <1>1, <1>2, <1>3, <1>4

\* What is left when the next request is left out.
LEMMA WithoutFacts ==
    ASSUME NEW s, Piece(s), NEW left, \A x \in left : x \in {content, published} \/ \E h \in Hosts : x = vmotion(h)
    PROVE /\ Piece(Without(s, left)) /\ Objs(Without(s, left)) \subseteq Objs(s)
          /\ Objs(s) \subseteq Objs(Without(s, left)) \cup left
          /\ \A S : Met(s, S) => Met(Without(s, left), S)
<1>1. CASE s # <<>> /\ s[1].obj \in left
  <2>1. Without(s, left) = Tail(s)
    BY <1>1 DEF Without
  <2>2. /\ Piece(Tail(s)) /\ Objs(s) = {s[1].obj} \cup Objs(Tail(s))
        /\ \A S, T : Met(s, S) /\ S \cup {s[1].obj} \subseteq T => s[1].needs \subseteq S /\ Met(Tail(s), T)
    BY <1>1, TailFacts
  <2>3. \A q \in Calls(Tail(s)) : s[1].obj \notin q.needs
    BY <1>1, <2>2 DEF Piece, Proper
  <2>4. ASSUME NEW S, Met(s, S) PROVE Met(Tail(s), S)
    <3>1. Met(Tail(s), S \cup {s[1].obj})
      BY <2>2, <2>4
    <3> QED
      BY <2>2, <2>3, <3>1, MetLess
  <2> QED
    BY <1>1, <2>1, <2>2, <2>4
<1>2. CASE ~ (s # <<>> /\ s[1].obj \in left)
  <2>1. Without(s, left) = s
    BY <1>2 DEF Without
  <2> QED
    BY <2>1
<1> QED
  BY <1>1, <1>2

LEMMA RestFacts ==
    ASSUME Piece(todo), todo # <<>>
    PROVE /\ Piece(Rest) /\ Objs(Rest) \subseteq Objs(todo)
          /\ \A x \in Objs(todo) : x = R.obj \/ x \in Depends(R.obj) \/ x \in Objs(Rest)
          /\ \A S, T : Met(todo, S) /\ S \cup {R.obj} \subseteq T => Met(Rest, T)
<1> DEFINE t == Tail(todo)
           left == Depends(R.obj)
           u == Without(t, left)
<1>1. /\ R \in Call /\ Proper(R) /\ Piece(t) /\ Objs(todo) = {R.obj} \cup Objs(t)
      /\ \A S, T : Met(todo, S) /\ S \cup {R.obj} \subseteq T => R.needs \subseteq S /\ Met(t, T)
  BY TailFacts DEF R
<1>2. \A x \in left : x \in {content, published} \/ \E h \in Hosts : x = vmotion(h)
  BY <1>1, DependsFacts
<1> HIDE DEF left, t
<1>3. /\ Piece(u) /\ Objs(u) \subseteq Objs(t) /\ Objs(t) \subseteq Objs(u) \cup left
      /\ \A S : Met(t, S) => Met(u, S)
  BY <1>1, <1>2, WithoutFacts
<1> HIDE DEF u
<1>4. /\ Piece(Without(u, left)) /\ Objs(Without(u, left)) \subseteq Objs(u)
      /\ Objs(u) \subseteq Objs(Without(u, left)) \cup left
      /\ \A S : Met(u, S) => Met(Without(u, left), S)
  BY <1>2, <1>3, WithoutFacts
<1>5. Rest = Without(u, left)
  BY DEF Rest, u, t, left
<1>6. \A x \in Objs(todo) : x = R.obj \/ x \in left \/ x \in Objs(Rest)
  BY <1>1, <1>3, <1>4, <1>5
<1>7. Piece(Rest) /\ Objs(Rest) \subseteq Objs(todo)
  BY <1>1, <1>3, <1>4, <1>5
<1>8. \A S, T : Met(todo, S) /\ S \cup {R.obj} \subseteq T => Met(Rest, T)
  BY <1>1, <1>3, <1>4, <1>5
<1> QED
  BY <1>6, <1>7, <1>8 DEF left

Ask == Request \/ RequestFails \/ LookupFails

\* What a request can come to.
LEMMA Outcome ==
    ASSUME InfraType, Piece(todo), todo # <<>>, Ask
    PROVE /\ R \in Call /\ Proper(R)
          /\ \/ objs' = objs /\ scope' = scope /\ edgeless' = edgeless
             \/ \E found \in BOOLEAN : Make(found) /\ R.needs \subseteq objs /\ (R.obj \notin objs \/ R.op = "put")
          /\ todo' \in {<<>>, Tail(todo), Rest}
          /\ okay' => /\ okay
                      /\ \/ R.obj \in objs' /\ failed' = failed
                         \/ R.on = "ignore" /\ failed' = failed \cup {R.obj}
                      /\ \/ todo' = Tail(todo)
                         \/ todo' = Rest /\ ((R.op = "ensure" /\ R.obj \in objs) \/ R.on = "ignore")
          /\ okay' \in BOOLEAN /\ wide' \in BOOLEAN /\ failed' \in {failed, failed \cup {R.obj}}
          /\ UNCHANGED <<phase, command, start, n, runs, empty, known, linked, steps>>
          /\ \/ Request /\ faults' = faults /\ accident' = accident
             \/ faults' = faults + 1 /\ accident' = TRUE
<1>1. R \in Call /\ Proper(R)
  BY TailFacts DEF R
<1>2. R.op \in {"ensure", "install", "create", "put"}
  BY <1>1 DEF Call
<1>3. okay \in BOOLEAN /\ wide \in BOOLEAN
  BY DEF InfraType
<1>4. ASSUME NEW on \in {R.on, "raise"}, NEW rest \in {Tail(todo), Rest}, Fail(on, rest)
      PROVE /\ todo' \in {<<>>, Tail(todo), Rest} /\ failed' = failed \cup {R.obj}
            /\ okay' => okay /\ R.on = "ignore" /\ todo' = rest
            /\ okay' \in BOOLEAN /\ wide' \in BOOLEAN
  <2>1. okay' = (okay /\ on = "ignore") /\ wide' = (wide \/ R.obj = service)
    BY <1>4 DEF Fail
  <2>2. okay' \in BOOLEAN /\ wide' \in BOOLEAN
    BY <1>3, <2>1, Zenon
  <2>3. okay' => okay /\ on = "ignore"
    BY <2>1, Zenon
  <2>4. todo' = (IF on = "raise" THEN <<>> ELSE rest) /\ failed' = failed \cup {R.obj}
    BY <1>4 DEF Fail
  <2>5. on = "ignore" => on # "raise" /\ on = R.on
    BY <1>4
  <2> QED
    BY <2>2, <2>3, <2>4, <2>5, Zenon
<1>5. ASSUME CanDo, ~Present
      PROVE R.needs \subseteq objs /\ (R.obj \notin objs \/ R.op = "put")
  BY <1>2, <1>5 DEF CanDo, Present
<1>6. \A found : Make(found) => R.obj \in objs'
  BY DEF Make
<1>7. ASSUME NEW found \in BOOLEAN, Sent(found)
      PROVE /\ Make(found) /\ R.needs \subseteq objs /\ (R.obj \notin objs \/ R.op = "put")
            /\ todo' \in {<<>>, Tail(todo), Rest}
            /\ okay' => /\ okay
                        /\ \/ R.obj \in objs' /\ failed' = failed
                           \/ R.on = "ignore" /\ failed' = failed \cup {R.obj}
                        /\ todo' = Tail(todo)
            /\ okay' \in BOOLEAN /\ wide' \in BOOLEAN /\ failed' \in {failed, failed \cup {R.obj}}
  <2>1. Make(found) /\ R.needs \subseteq objs /\ (R.obj \notin objs \/ R.op = "put") /\ R.obj \in objs'
    BY <1>5, <1>6, <1>7 DEF Sent
  <2>2. CASE Acknowledged
    <3>1. todo' = Tail(todo) /\ okay' = okay /\ wide' = wide /\ failed' = failed
      BY <1>7, <2>2 DEF Sent
    <3> QED
      BY <1>3, <2>1, <3>1
  <2>3. CASE ~Acknowledged
    <3>1. Fail(R.on, Tail(todo))
      BY <1>7, <2>3 DEF Sent
    <3> QED
      BY <1>4, <2>1, <3>1
  <2> QED
    BY <2>2, <2>3
<1>8. (o("edge_cluster") \in objs) \in BOOLEAN
  OBVIOUS
<1>9. CASE Request
  <2>1. /\ UNCHANGED <<phase, command, start, n, runs, empty, known, linked, steps>>
        /\ faults' = faults /\ accident' = accident
    BY <1>9 DEF Request, setting, config
  <2>2. CASE Present /\ todo' = Rest /\ UNCHANGED <<objs, scope, okay, wide, failed, edgeless>>
    <3>1. R.op = "ensure" /\ R.obj \in objs'
      BY <2>2 DEF Present
    <3> QED
      BY <1>1, <1>3, <1>9, <2>1, <2>2, <3>1 DEF Present
  <2>3. CASE Sent(o("edge_cluster") \in objs)
    BY <1>1, <1>7, <1>8, <1>9, <2>1, <2>3
  <2>4. CASE ~Present /\ ~CanDo /\ Fail(R.on, Rest) /\ UNCHANGED <<objs, scope, edgeless>>
    BY <1>1, <1>4, <1>9, <2>1, <2>4, Zenon
  <2> QED
    BY <1>9, <2>2, <2>3, <2>4 DEF Request
<1>10. CASE RequestFails
  <2>1. UNCHANGED <<phase, command, start, n, runs, empty, known, linked, steps>> /\ faults' = faults + 1 /\ accident' = TRUE
    BY <1>10 DEF RequestFails, setting, config
  <2>2. PICK on \in {R.on, "raise"} : Fail(on, Rest)
    BY <1>10 DEF RequestFails
  <2>3. (~Present /\ CanDo /\ Make(o("edge_cluster") \in objs)) \/ UNCHANGED <<objs, scope, edgeless>>
    BY <1>10 DEF RequestFails
  <2>4. /\ todo' \in {<<>>, Tail(todo), Rest} /\ failed' = failed \cup {R.obj}
        /\ okay' => okay /\ R.on = "ignore" /\ todo' = Rest
        /\ okay' \in BOOLEAN /\ wide' \in BOOLEAN
    BY <1>4, <2>2, Zenon
  <2> QED
    BY <1>1, <1>5, <1>8, <2>1, <2>3, <2>4, Zenon
<1>11. CASE LookupFails
  <2>1. UNCHANGED <<phase, command, start, n, runs, empty, known, linked, steps>> /\ faults' = faults + 1 /\ accident' = TRUE
    BY <1>11 DEF LookupFails, setting, config
  <2>2. Sent(FALSE)
    BY <1>11 DEF LookupFails
  <2> QED
    BY <1>1, <1>7, <2>1, <2>2
<1> QED
  BY <1>9, <1>10, <1>11 DEF Ask

\* What the proofs about a request assume.
Asking == VinfraInv /\ todo # <<>> /\ Ask

LEMMA AskingFacts ==
    ASSUME Asking
    PROVE /\ R \in Call /\ Proper(R) /\ Piece(todo) /\ Piece(todo') /\ Objs(todo') \subseteq Objs(todo)
          /\ objs \subseteq objs' /\ objs' \subseteq objs \cup {R.obj} /\ R.obj \in Objs(todo)
          /\ failed \subseteq failed' /\ edgeless' \subseteq edgeless \cup {R.obj}
          /\ command # "none" /\ start # 0
          /\ Full' = Full /\ At' = At
<1>1. InfraType /\ Piece(todo) /\ todo # <<>> /\ Ask
  BY DEF Asking, VinfraInv, TodoInv
<1>2. /\ R \in Call /\ Proper(R)
      /\ \/ objs' = objs /\ scope' = scope /\ edgeless' = edgeless
         \/ \E found \in BOOLEAN : Make(found)
      /\ todo' \in {<<>>, Tail(todo), Rest} /\ failed' \in {failed, failed \cup {R.obj}}
      /\ UNCHANGED <<phase, command, start, n, runs, empty, known, linked, steps>>
  BY <1>1, Outcome
<1>3. Piece(Rest) /\ Objs(Rest) \subseteq Objs(todo)
  BY <1>1, RestFacts
<1>4. Piece(Tail(todo)) /\ Objs(todo) = {todo[1].obj} \cup Objs(Tail(todo))
  BY <1>1, TailFacts
<1>5. Piece(todo') /\ Objs(todo') \subseteq Objs(todo)
  BY <1>2, <1>3, <1>4, EmptyFacts
<1>6. objs \subseteq objs' /\ objs' \subseteq objs \cup {R.obj} /\ edgeless' \subseteq edgeless \cup {R.obj}
  BY <1>2 DEF Make
<1>7. command # "none" /\ start # 0
  BY <1>1 DEF Asking, VinfraInv, StepsInv
<1>8. Full' = Full /\ At' = At
  BY <1>2 DEF Full, At
<1> QED
  BY <1>1, <1>2, <1>4, <1>5, <1>6, <1>7, <1>8 DEF R

LEMMA AskingType ==
    ASSUME Asking
    PROVE InfraType' /\ StepsInv' /\ TodoInv'
<1>1. InfraType /\ StepsInv /\ TodoInv /\ Piece(todo) /\ todo # <<>> /\ Ask
  BY DEF Asking, VinfraInv, TodoInv
<1>2. /\ okay' \in BOOLEAN /\ wide' \in BOOLEAN /\ failed' \in {failed, failed \cup {R.obj}}
      /\ UNCHANGED <<phase, command, start, n, runs, empty, known, linked, steps>>
      /\ \/ Request /\ faults' = faults /\ accident' = accident
         \/ faults' = faults + 1 /\ accident' = TRUE
  BY <1>1, Outcome
<1>3. /\ R \in Call /\ Piece(todo') /\ Objs(todo') \subseteq Objs(todo) /\ objs' \subseteq objs \cup {R.obj}
      /\ edgeless' \subseteq edgeless \cup {R.obj} /\ objs \subseteq objs'
      /\ command # "none" /\ start # 0 /\ Full' = Full
  BY AskingFacts
<1>4. R.obj \in Object
  BY <1>3 DEF Call
<1>5. InfraType'
  <2>1. accident' = accident \/ accident' = TRUE
    BY <1>2, Zenon
  <2>2. accident' \in BOOLEAN /\ empty' \in BOOLEAN /\ known' \in BOOLEAN /\ linked' \in BOOLEAN
    BY <1>1, <1>2, <2>1, Zenon DEF InfraType
  <2>3. objs' \subseteq Object /\ failed' \subseteq Object /\ edgeless' \subseteq Object
    BY <1>1, <1>2, <1>3, <1>4 DEF InfraType
  <2>4. faults' \in Nat /\ command' \in {"none", "vcenter", "vnet"}
    <3>1. (faults' = faults \/ faults' = faults + 1) /\ command' = command
      BY <1>2
    <3> QED
      BY <1>1, <3>1 DEF InfraType
  <2> QED
    BY <1>2, <2>2, <2>3, <2>4, Zenon DEF InfraType
<1>6. StepsInv'
  BY <1>1, <1>2, <1>3 DEF StepsInv
<1>7. TodoInv'
  <2>1. {o("vcsa"), o("manager")} \cap Objs(todo') # {} => start = 1
    BY <1>1, <1>3 DEF TodoInv
  <2>2. Full /\ (\E x \in Objs(todo') : Gateway(x)) => o("edge_cluster") \in objs'
    BY <1>1, <1>3 DEF TodoInv
  <2> QED
    BY <1>2, <1>3, <2>1, <2>2 DEF TodoInv
<1> QED
  BY <1>5, <1>6, <1>7

LEMMA AskingClosed ==
    ASSUME Asking
    PROVE Closed' /\ ScopeInv'
<1>1. InfraType /\ Piece(todo) /\ todo # <<>> /\ Ask /\ Closed /\ ScopeInv /\ StepsInv
  BY DEF Asking, VinfraInv, TodoInv
<1>2. /\ \/ objs' = objs /\ scope' = scope
         \/ \E found \in BOOLEAN : Make(found) /\ R.needs \subseteq objs
      /\ n' = n
  BY <1>1, Outcome
<1>3. R \in Call /\ Proper(R) /\ command # "none"
  BY AskingFacts
<1>4. CASE objs' = objs /\ scope' = scope
  BY <1>1, <1>4 DEF Closed, ScopeInv
<1>5. CASE \E found \in BOOLEAN : Make(found) /\ R.needs \subseteq objs
  <2>1. objs' = objs \cup {R.obj}
    BY <1>5 DEF Make
  <2>2. Closed'
    <3>1. o("dc") \in objs' => o("vcsa") \in objs'
      BY <1>1, <1>3, <1>5, <2>1 DEF Closed, Proper
    <3>2. o("cluster") \in objs' => o("dc") \in objs'
      BY <1>1, <1>3, <1>5, <2>1 DEF Closed, Proper
    <3>3. ASSUME NEW h \in Hosts
          PROVE /\ host(h) \in objs' => o("cluster") \in objs'
                /\ vmk(h) \in objs' => {host(h), member(h), o("pg")} \subseteq objs'
      <4>1. host(h) \in objs' => o("cluster") \in objs'
        BY <1>1, <1>3, <1>5, <2>1 DEF Closed, Proper
      <4>2. vmk(h) \in objs => {host(h), member(h), o("pg")} \subseteq objs
        BY <1>1 DEF Closed
      <4>3. R.obj = vmk(h) => {host(h), member(h), o("pg")} \subseteq objs
        BY <1>3, <1>5 DEF Proper
      <4> QED
        BY <2>1, <4>1, <4>2, <4>3
    <3> QED
      BY <3>1, <3>2, <3>3 DEF Closed
  <2>3. ScopeInv'
    <3>1. CASE R.obj[1] # "policy"
      <4>1. scope' = scope
        BY <1>5, <3>1 DEF Make
      <4>2. \A p : policy(p) \in objs' <=> policy(p) \in objs
        BY <2>1, <3>1, Tags
      <4> QED
        BY <1>1, <4>1, <4>2 DEF ScopeInv
    <3>2. CASE R.obj[1] = "policy"
      <4>1. PICK q \in PolicyNames : R.obj = policy(q)
        BY <1>3, <3>2 DEF Proper
      <4>2. R.obj[2] = q
        BY <4>1, Tags
      <4>3. scope' = [p \in DOMAIN scope \cup {q} |-> IF p = q THEN [n |-> n, wide |-> wide] ELSE scope[p]]
        BY <1>5, <3>2, <4>2 DEF Make
      <4>4. \A p : policy(p) \in objs' <=> policy(p) \in objs \/ p = q
        BY <2>1, <4>1, Tags
      <4>5. DOMAIN scope' = {p \in PolicyNames : policy(p) \in objs'}
        BY <1>1, <4>3, <4>4 DEF ScopeInv
      <4>6. n \in 1 .. Len(Missions) /\ wide \in BOOLEAN
        BY <1>1, <1>3 DEF StepsInv, InfraType
      <4>7. [n |-> n, wide |-> wide].n = n /\ [n |-> n, wide |-> wide].wide = wide
        OBVIOUS
      <4>8. ASSUME NEW p \in DOMAIN scope'
            PROVE scope'[p].n \in 1 .. Len(Missions) /\ scope'[p].wide \in BOOLEAN
        <5>1. CASE p = q
          <6>1. scope'[p] = [n |-> n, wide |-> wide]
            BY <4>3, <5>1
          <6>2. scope'[p].n = n /\ scope'[p].wide = wide
            BY <4>7, <6>1
          <6> QED
            BY <4>6, <6>2, Zenon
        <5>2. CASE p # q
          <6>1. p \in DOMAIN scope /\ scope'[p] = scope[p]
            BY <4>3, <5>2
          <6> QED
            BY <1>1, <6>1, Zenon DEF ScopeInv
        <5> QED
          BY <5>1, <5>2
      <4> QED
        BY <4>5, <4>8, Zenon DEF ScopeInv
    <3> QED
      BY <3>1, <3>2
  <2> QED
    BY <2>2, <2>3
<1> QED
  BY <1>2, <1>4, <1>5

\* No step promises vMotion.
LEMMA PromiseTags ==
    ASSUME NEW s \in StepNames, NEW k \in 1 .. Len(Missions), NEW full, NEW x \in PromiseOf(s, k, full)
    PROVE x[1] # "vmotion"
<1> DEFINE P(t) == PromiseOf(t, k, full)
<1>1. CASE s \in {"vcsa_deploy", "cluster", "vds"}
  BY <1>1, Tags DEF PromiseOf
<1>2. CASE s = "storage"
  <2>1. P(s) \subseteq {o("vsan")} \cup {disks(h) : h \in Hosts \ Flash}
    BY <1>2 DEF PromiseOf
  <2> QED
    BY <2>1, Tags
<1>3. CASE s \in {"ha_drs", "content_library", "manager", "transport", "host_tnp"}
  BY <1>3, Tags DEF PromiseOf
<1>4. CASE s = "tier0"
  <2>1. P(s) \subseteq {o("tier0"), o("locale"), o("uplink")}
    BY <1>4 DEF PromiseOf
  <2> QED
    BY <2>1, Tags
<1>5. CASE s = "segments"
  <2>1. P(s) \subseteq {segment(m) : m \in {"mgmt"} \cup Mission(k)}
    BY <1>5 DEF PromiseOf
  <2> QED
    BY <2>1, Tags
<1>6. CASE s \in {"edge", "tier1", "firewall"}
  BY <1>6, Tags DEF PromiseOf
<1> QED
  BY <1>1, <1>2, <1>3, <1>4, <1>5, <1>6 DEF StepNames

\* In a run without a loss, which can find the appliance, no request has been lost.
LEMMA LosslessBack ==
    ASSUME Asking, Lossless'
    PROVE Lossless /\ Request /\ R.needs \subseteq objs \cup ByHand /\ Met(todo, objs \cup ByHand)
<1>1. InfraType /\ TodoInv /\ RetryInv /\ todo # <<>> /\ Piece(todo) /\ Ask
  BY DEF Asking, VinfraInv, TodoInv
<1>2. /\ \/ Request /\ faults' = faults
         \/ faults' = faults + 1
      /\ start' = start /\ command' = command
  BY <1>1, Outcome
<1>3. /\ objs' \subseteq objs \cup {R.obj} /\ R.obj \in Objs(todo) /\ command # "none" /\ Full' = Full
  BY AskingFacts
<1>4. Full /\ faults' = 0 /\ (start = 2 => Appliance \in objs')
  BY <1>2, <1>3 DEF Lossless, Appliance
<1>5. faults = 0 /\ Request
  BY <1>1, <1>2, <1>4 DEF InfraType
<1>6. start = 2 => Appliance \in objs
  <2> SUFFICES ASSUME start = 2, Appliance \notin objs PROVE FALSE
    OBVIOUS
  <2>1. R.obj = Appliance
    BY <1>3, <1>4
  <2> QED
    BY <1>1, <1>3, <2>1 DEF TodoInv, Appliance
<1>7. Lossless
  BY <1>4, <1>5, <1>6 DEF Lossless
<1>8. Met(todo, objs \cup ByHand)
  BY <1>1, <1>3, <1>7 DEF RetryInv
<1>9. R.needs \subseteq objs \cup ByHand
  BY <1>1, <1>8, TailFacts DEF R
<1> QED
  BY <1>5, <1>7, <1>8, <1>9

LEMMA AskingPromise ==
    ASSUME Asking
    PROVE PromiseInv' /\ QuietInv'
<1>1. InfraType /\ StepsInv /\ TodoInv /\ PromiseInv /\ QuietInv /\ todo # <<>> /\ Piece(todo) /\ Ask
  BY DEF Asking, VinfraInv, TodoInv
<1>2. /\ okay' => /\ okay
                  /\ \/ R.obj \in objs' /\ failed' = failed
                     \/ R.on = "ignore" /\ failed' = failed \cup {R.obj}
                  /\ \/ todo' = Tail(todo)
                     \/ todo' = Rest /\ ((R.op = "ensure" /\ R.obj \in objs) \/ R.on = "ignore")
      /\ UNCHANGED <<command, start, n, linked>>
  BY <1>1, Outcome
<1>3. /\ R \in Call /\ Proper(R) /\ objs \subseteq objs' /\ R.obj \in Objs(todo) /\ failed \subseteq failed'
      /\ command # "none" /\ start # 0 /\ Full' = Full /\ At' = At
  BY AskingFacts
<1>4. PromiseInv'
  <2> SUFFICES ASSUME okay', start > 0, NEW i \in start .. At, NEW x \in PromiseOf(Steps[command][i], n, Full)
               PROVE x \in objs' \cup failed' \cup Objs(todo')
    <3>1. \A s : PromiseOf(s, n, Full)' = PromiseOf(s, n, Full)
      BY <1>2, <1>3 DEF PromiseOf, Mission
    <3> QED
      BY <1>2, <1>3, <3>1 DEF PromiseInv
  <2>1. Steps[command][i] \in StepNames /\ n \in 1 .. Len(Missions)
    <3>1. /\ start \in 1 .. Len(Steps[command]) /\ At \in start - 1 .. Len(Steps[command])
          /\ Steps[command] \in Seq(StepNames)
      BY <1>1, <1>3, Position, StepsOf DEF InfraType
    <3>2. i \in 1 .. Len(Steps[command])
      BY <3>1
    <3> QED
      BY <1>1, <1>3, <3>1, <3>2 DEF StepsInv
  <2>2. x \in objs \cup failed \cup Objs(todo)
    BY <1>1, <1>2, <1>3 DEF PromiseInv
  <2>3. x[1] # "vmotion"
    BY <2>1, PromiseTags
  <2>4. CASE x = R.obj
    BY <1>2, <2>4
  <2>5. CASE x # R.obj /\ x \in Objs(todo)
    <3>1. CASE todo' = Tail(todo)
      BY <1>1, <2>5, <3>1, TailFacts DEF R
    <3>2. CASE todo' = Rest /\ ((R.op = "ensure" /\ R.obj \in objs) \/ R.on = "ignore")
      <4>1. x \in Depends(R.obj) \/ x \in Objs(Rest)
        BY <1>1, <2>5, RestFacts
      <4>2. x \notin Depends(R.obj)
        <5> SUFFICES ASSUME x \in Depends(R.obj) PROVE FALSE
          OBVIOUS
        <5>1. R.obj \in {item, content}
          BY <1>3, <2>3, DependsFacts, Tags
        <5>2. R.op \in {"create", "put"} /\ R.on # "ignore"
          <6>1. ~Quiet(item) /\ ~Quiet(content)
            BY Tags DEF Quiet
          <6> QED
            BY <1>3, <5>1, <6>1 DEF Proper
        <5> QED
          BY <3>2, <5>2
      <4> QED
        BY <3>2, <4>1, <4>2
    <3> QED
      BY <1>2, <3>1, <3>2
  <2> QED
    BY <1>3, <2>2, <2>4, <2>5
<1>5. QuietInv'
  BY <1>1, <1>2, <1>3 DEF QuietInv, Proper
<1> QED
  BY <1>4, <1>5

LEMMA AskingRetry ==
    ASSUME Asking
    PROVE RetryInv'
<1> SUFFICES ASSUME Lossless' PROVE Met(todo', objs' \cup ByHand) /\ failed' \subseteq Excused'
  <2>1. ByHand' = ByHand /\ Met(todo, objs \cup ByHand)' <=> Met(todo', objs' \cup ByHand)
    BY DEF Met, ByHand
  <2> QED
    BY <2>1, Zenon DEF RetryInv
<1>1. Lossless /\ Request /\ R.needs \subseteq objs \cup ByHand /\ Met(todo, objs \cup ByHand)
  BY LosslessBack
<1>2. RetryInv /\ Piece(todo) /\ todo # <<>> /\ InfraType /\ Ask
  BY DEF Asking, VinfraInv, TodoInv
<1>3. R \in Call /\ Proper(R) /\ command # "none" /\ objs \subseteq objs' /\ objs' \subseteq objs \cup {R.obj}
  BY AskingFacts
<1>4. empty' = empty
  BY <1>2, Outcome
<1>5. Excused \subseteq Excused' /\ failed \subseteq Excused
  <2>1. ByHand \subseteq objs' => ByHand \subseteq objs
    BY <1>3 DEF Proper
  <2>2. failed \subseteq Excused
    BY <1>1, <1>2, <1>3 DEF RetryInv
  <2> QED
    BY <1>3, <1>4, <2>1, <2>2 DEF Excused
<1>6. /\ \A T : objs \cup ByHand \cup {R.obj} \subseteq T => Met(Rest, T)
      /\ \A T : objs \cup ByHand \cup {R.obj} \subseteq T => Met(Tail(todo), T)
  BY <1>1, <1>2, RestFacts, TailFacts DEF R
<1>7. CASE Present /\ todo' = Rest /\ UNCHANGED <<objs, failed>>
  <2>1. objs \cup ByHand \cup {R.obj} \subseteq objs' \cup ByHand
    BY <1>7 DEF Present
  <2> QED
    BY <1>5, <1>6, <1>7, <2>1
<1>8. CASE Sent(o("edge_cluster") \in objs)
  <2>1. objs' = objs \cup {R.obj}
    BY <1>8 DEF Sent, Make
  <2>2. CASE Acknowledged
    <3>1. todo' = Tail(todo) /\ failed' = failed
      BY <1>8, <2>2 DEF Sent
    <3> QED
      BY <1>5, <1>6, <2>1, <3>1
  <2>3. CASE ~Acknowledged
    <3>1. empty /\ Nsx(R.obj)
      BY <2>3 DEF Acknowledged
    <3>2. todo' \in {<<>>, Tail(todo)} /\ failed' = failed \cup {R.obj}
      BY <1>8, <2>3 DEF Sent, Fail
    <3>3. R.obj \in Excused'
      BY <1>4, <2>1, <3>1 DEF Excused
    <3> QED
      BY <1>5, <1>6, <2>1, <3>2, <3>3, EmptyFacts
  <2> QED
    BY <2>2, <2>3
<1>9. CASE ~Present /\ ~CanDo /\ Fail(R.on, Rest) /\ UNCHANGED objs
  <2>1. todo' = (IF R.on = "raise" THEN <<>> ELSE Rest) /\ failed' = failed \cup {R.obj} /\ objs' = objs
    BY <1>9 DEF Fail
  <2>2. CASE R.needs \subseteq objs
    <3>1. R.op \in {"install", "create"} /\ R.obj \in objs
      BY <1>9, <2>2 DEF CanDo
    <3>2. R.obj \in Excused'
      BY <1>3, <2>1, <3>1 DEF Proper, Excused
    <3>3. Met(Rest, objs' \cup ByHand)
      BY <1>6, <2>1, <3>1
    <3> QED
      BY <1>5, <2>1, <3>2, <3>3, EmptyFacts
  <2>3. CASE ~(R.needs \subseteq objs)
    <3>1. R.needs \cap ByHand # {} /\ ~(ByHand \subseteq objs)
      BY <1>1, <2>3
    <3>2. R.obj \in HandUsers /\ (R.on = "raise" \/ R.obj = o("uplink"))
      BY <1>3, <3>1 DEF Proper
    <3>3. R.obj \in Excused'
      BY <2>1, <3>1, <3>2 DEF Excused
    <3>4. R.obj = o("uplink") => Met(Rest, objs' \cup ByHand)
      <4> SUFFICES ASSUME R.obj = o("uplink") PROVE Met(Rest, objs \cup ByHand)
        BY <2>1
      <4>1. Met(Rest, objs \cup ByHand \cup {o("uplink")}) /\ Piece(Rest)
        BY <1>2, <1>6, RestFacts
      <4>2. \A q \in Calls(Rest) : o("uplink") \notin q.needs
        BY <4>1 DEF Piece, Proper
      <4> QED
        BY <4>1, <4>2, MetLess
    <3> QED
      BY <1>5, <2>1, <3>2, <3>3, <3>4, EmptyFacts
  <2> QED
    BY <2>2, <2>3
<1> QED
  BY <1>1, <1>7, <1>8, <1>9 DEF Request

LEMMA AskingMotion ==
    ASSUME Asking
    PROVE MotionInv' /\ EdgelessInv'
<1>1. /\ InfraType /\ TodoInv /\ MotionInv /\ EdgelessInv /\ todo # <<>> /\ Piece(todo) /\ Ask
  BY DEF Asking, VinfraInv, TodoInv
<1>2. /\ \/ Request /\ faults' = faults /\ accident' = accident
         \/ faults' = faults + 1 /\ accident' = TRUE
  BY <1>1, Outcome
<1>3. /\ R \in Call /\ Proper(R) /\ R.obj \in Objs(todo) /\ objs \subseteq objs' /\ objs' \subseteq objs \cup {R.obj}
      /\ Full' = Full
  BY AskingFacts
<1>4. MotionInv'
  <2> SUFFICES ASSUME ~accident', NEW h \in Hosts, vmk(h) \in objs'
               PROVE vmotion(h) \in objs' \/ (todo' # <<>> /\ todo'[1].obj = vmotion(h))
    BY DEF MotionInv, R
  <2>1. Request /\ ~accident
    BY <1>2
  <2>2. CASE R.obj = vmotion(h)
    <3>1. R.op = "put" /\ R.needs = {vmk(h)} /\ vmk(h) # vmotion(h)
      BY <1>3, <2>2, Tags DEF Proper
    <3>2. vmk(h) \in objs
      BY <1>3, <2>2, <3>1
    <3>3. ~Present /\ CanDo
      BY <3>1, <3>2 DEF Present, CanDo
    <3>4. Make(o("edge_cluster") \in objs)
      BY <2>1, <3>3 DEF Request, Sent
    <3> QED
      BY <2>2, <3>4 DEF Make
  <2>3. CASE R.obj # vmotion(h) /\ vmk(h) \in objs
    BY <1>1, <1>3, <2>1, <2>3 DEF MotionInv
  <2>4. CASE vmk(h) \notin objs
    <3>1. R.obj = vmk(h) /\ objs' # objs
      BY <1>3, <2>4
    <3>2. Sent(o("edge_cluster") \in objs)
      BY <2>1, <3>1 DEF Request
    <3>3. Acknowledged
      BY <3>1, Tags DEF Acknowledged, Nsx
    <3>4. todo' = Tail(todo)
      BY <3>2, <3>3 DEF Sent
    <3>5. Tail(todo) # <<>> /\ Tail(todo)[1].obj = vmotion(h)
      BY <1>1, <3>1, TailFacts DEF R
    <3> QED
      BY <3>4, <3>5
  <2> QED
    BY <2>2, <2>3, <2>4
<1>5. EdgelessInv'
  <2> SUFFICES ASSUME Full, faults' = 0 PROVE edgeless' = {}
    BY <1>3 DEF EdgelessInv
  <2>1. Request /\ faults = 0
    BY <1>1, <1>2 DEF InfraType
  <2>2. edgeless = {}
    BY <1>1, <2>1 DEF EdgelessInv
  <2>3. Gateway(R.obj) => o("edge_cluster") \in objs
    BY <1>1, <1>3 DEF TodoInv
  <2>4. Make(o("edge_cluster") \in objs) => edgeless' = {}
    BY <2>2, <2>3 DEF Make
  <2> QED
    BY <2>1, <2>2, <2>4 DEF Request, Sent
<1> QED
  BY <1>4, <1>5

LEMMA AskingStep == ASSUME Asking PROVE VinfraInv'
BY AskingType, AskingClosed, AskingPromise, AskingMotion, AskingRetry DEF VinfraInv
-----------------------------------------------------------------------------
(***************************************************************************)
(* The other actions, and the invariant.                                   *)
(***************************************************************************)
LEMMA RunStepKeeps ==
    ASSUME VinfraInv, RunStep
    PROVE VinfraInv'
<1>1. /\ InfraType /\ StepsInv /\ TodoInv /\ Closed /\ ScopeInv /\ PromiseInv /\ QuietInv /\ MotionInv
      /\ EdgelessInv /\ RetryInv /\ command # "none" /\ todo = <<>> /\ okay /\ steps # <<>>
  BY DEF VinfraInv, RunStep
<1>2. /\ todo' = Requests(Head(steps)) /\ steps' = Tail(steps) /\ wide' = FALSE
      /\ UNCHANGED <<objs, scope, command, start, n, runs, empty, known, linked, okay, failed, edgeless, faults, accident>>
  BY DEF RunStep, setting, config
<1>3. start > 0
  BY <1>1 DEF StepsInv, InfraType
<1>4. Kept
  <2> SUFFICES ASSUME NEW i \in start .. At, NEW x \in Promise(Steps[command][i])
               PROVE (x \in objs \/ (x \in failed /\ Quiet(x))) /\ (Lossless => x \in objs)
    BY DEF Kept
  <2>1. x \in objs \/ (x \in failed /\ Quiet(x))
    BY <1>1, <1>3, EmptyFacts DEF PromiseInv, QuietInv, Promise
  <2>2. ASSUME Lossless, Quiet(x), x \in failed PROVE x \in objs
    <3>1. x \notin HandUsers
      BY <2>2, Tags DEF HandUsers, Quiet
    <3>2. x \in Excused
      BY <1>1, <2>2 DEF RetryInv
    <3> QED
      BY <3>1, <3>2 DEF Excused
  <2> QED
    BY <2>1, <2>2
<1>5. Ready(Head(steps)) /\ (Head(steps) \in {"vcsa_deploy", "manager"} => start = 1)
  BY <1>1, <1>3, <1>4, ReadyNext
<1>6. /\ start \in 1 .. Len(Steps[command]) /\ At \in start - 1 .. Len(Steps[command])
      /\ At + 1 \in start .. Len(Steps[command]) /\ Head(steps) = Steps[command][At + 1]
      /\ Len(Tail(steps)) = Len(steps) - 1
      /\ Tail(steps) = SubSeq(Steps[command], At + 2, Len(Steps[command]))
  BY <1>1, <1>3, Position
<1>7. At' = At + 1 /\ Len(Steps[command]) \in Nat
  <2>1. Len(Steps[command]) \in Nat
    BY <1>1, StepsOf DEF InfraType
  <2>2. Len(steps) = Len(Steps[command]) - At
    <3>1. PICK i \in start .. Len(Steps[command]) + 1 : steps = SubSeq(Steps[command], i, Len(Steps[command]))
      BY <1>1, <1>3 DEF StepsInv
    <3>2. Len(steps) \in Nat
      BY <1>1, <1>3, <1>6, <2>1, <3>1, StepsOf, SuffixFacts DEF InfraType
    <3> QED
      BY <2>1, <3>2 DEF At
  <2>3. At' = Len(Steps[command]) - (Len(steps) - 1)
    BY <1>2, <1>6 DEF At
  <2>4. At \in Int
    <3>1. start \in Int
      BY <1>6
    <3> QED
      BY <1>6, <2>1, <3>1
  <2>5. \A a, b \in Int : a - ((a - b) - 1) = b + 1
    OBVIOUS
  <2>6. Len(Steps[command]) \in Int
    BY <2>1
  <2>7. Len(Steps[command]) - ((Len(Steps[command]) - At) - 1) = At + 1
    BY <2>4, <2>5, <2>6, Zenon
  <2> QED
    BY <2>1, <2>2, <2>3, <2>7, Zenon
<1>8. Full' = Full /\ Lossless' = Lossless
  BY <1>2 DEF Full, Lossless, Appliance
<1>9. InfraType'
  BY <1>1, <1>2 DEF InfraType
<1>10. StepsInv'
  <2>1. At + 2 \in start .. Len(Steps[command]) + 1
    BY <1>6, <1>7
  <2> QED
    BY <1>1, <1>2, <1>3, <1>6, <2>1 DEF StepsInv
<1>11. TodoInv'
  BY <1>2, <1>5, <1>8 DEF TodoInv, Ready
<1>12. Closed' /\ ScopeInv'
  BY <1>1, <1>2 DEF Closed, ScopeInv
<1>13. PromiseInv'
  <2>0. \A s : PromiseOf(s, n, Full)' = PromiseOf(s, n, Full)
    BY <1>2, <1>8 DEF PromiseOf, Mission
  <2> SUFFICES ASSUME NEW i \in start .. At + 1
               PROVE PromiseOf(Steps[command][i], n, Full) \subseteq objs \cup failed \cup Objs(todo')
    BY <1>2, <1>7, <2>0 DEF PromiseInv
  <2>1. CASE i = At + 1
    BY <1>2, <1>5, <1>6, <2>1 DEF Ready, Promise
  <2>2. CASE i # At + 1
    <3>1. i \in start .. At
      BY <1>6, <1>7, <2>2
    <3> QED
      BY <1>4, <3>1 DEF Kept, Promise
  <2> QED
    BY <2>1, <2>2
<1>14. QuietInv'
  BY <1>1, <1>2 DEF QuietInv
<1>15. MotionInv'
  BY <1>1, <1>2 DEF MotionInv
<1>16. EdgelessInv'
  BY <1>1, <1>2, <1>8 DEF EdgelessInv
<1>17. RetryInv'
  <2>1. Lossless => Met(todo', objs \cup ByHand) /\ failed \subseteq Excused
    BY <1>1, <1>2, <1>5 DEF Ready, RetryInv
  <2>2. Excused' = Excused
    BY <1>2 DEF Excused
  <2>3. Met(todo, objs \cup ByHand)' <=> Met(todo', objs \cup ByHand)
    BY <1>2 DEF Met, ByHand
  <2> QED
    BY <1>2, <1>8, <2>1, <2>2, <2>3 DEF RetryInv
<1> QED
  BY <1>9, <1>10, <1>11, <1>12, <1>13, <1>14, <1>15, <1>16, <1>17 DEF VinfraInv

LEMMA StartKeeps ==
    ASSUME VinfraInv, NEW c \in DOMAIN Steps, NEW i \in DOMAIN Steps[c], NEW k \in DOMAIN Missions,
           NEW dry \in BOOLEAN, Start(c, i, k, dry)
    PROVE VinfraInv'
<1>1. InfraType /\ Closed /\ ScopeInv /\ MotionInv /\ todo = <<>>
  BY DEF VinfraInv, StepsInv, Start
<1>2. /\ command' = c /\ start' = (IF dry THEN 0 ELSE i) /\ n' = k
      /\ steps' = IF dry THEN <<>> ELSE SubSeq(Steps[c], i, Len(Steps[c]))
      /\ todo' = <<>> /\ okay' = TRUE /\ wide' = FALSE /\ failed' = {} /\ edgeless' = {} /\ faults' = 0
      /\ UNCHANGED <<objs, scope, empty, known, linked, accident>>
  BY DEF Start, config
<1>3. /\ c \in {"vcenter", "vnet"} /\ Steps[c] \in Seq(StepNames) /\ Len(Steps[c]) \in {6, 8}
      /\ DOMAIN Steps[c] = 1 .. Len(Steps[c])
  BY StepsOf
<1>4. k \in 1 .. Len(Missions) /\ c # "none" /\ Len(Missions) \in Nat
  BY <1>3, VinfraAssumption
<1>5. At' = Len(Steps[c]) - Len(steps')
  BY <1>2 DEF At
<1>6. InfraType'
  BY <1>1, <1>2, <1>3 DEF InfraType
<1>7. StepsInv'
  <2>1. CASE dry
    <3>1. start' = 0 /\ steps' = <<>>
      BY <1>2, <2>1
    <3> QED
      BY <1>2, <1>3, <1>4, <3>1 DEF StepsInv
  <2>2. CASE ~dry
    <3>1. start' = i /\ steps' = SubSeq(Steps[c], i, Len(Steps[c]))
      BY <1>2, <2>2, Zenon
    <3>2. i \in 0 .. Len(Steps[c]) /\ i > 0 /\ i # 0 /\ i \in i .. Len(Steps[c]) + 1
      BY <1>3
    <3>3. \E j \in i .. Len(Steps[c]) + 1 : steps' = SubSeq(Steps[c], j, Len(Steps[c]))
      BY <3>1, <3>2, Zenon
    <3> QED
      BY <1>2, <1>4, <3>1, <3>2, <3>3, Zenon DEF StepsInv
  <2> QED
    BY <2>1, <2>2
<1>8. TodoInv'
  BY <1>2, EmptyFacts DEF TodoInv
<1>9. Closed' /\ ScopeInv'
  BY <1>1, <1>2 DEF Closed, ScopeInv
<1>10. start' > 0 => At' = start' - 1 /\ start' \in Nat
  <2> SUFFICES ASSUME start' > 0 PROVE At' = start' - 1 /\ start' \in Nat
    OBVIOUS
  <2>0. i \in 1 .. Len(Steps[c]) + 1
    BY <1>3
  <2>1. start' = i /\ steps' = SubSeq(Steps[c], i, Len(Steps[c]))
    <3>1. ~dry
      <4>1. dry => start' = 0
        BY <1>2, Zenon
      <4> QED
        BY <4>1
    <3> QED
      BY <1>2, <3>1, Zenon
  <2>2. Len(steps') = Len(Steps[c]) + 1 - i
    BY <1>3, <2>0, <2>1, SuffixFacts
  <2> QED
    BY <1>3, <1>5, <2>0, <2>1, <2>2
<1>11. PromiseInv'
  <2>1. start' > 0 => start' .. At' = {}
    BY <1>10
  <2> QED
    BY <2>1 DEF PromiseInv
<1>12. MotionInv'
  BY <1>1, <1>2 DEF MotionInv
<1>13. QuietInv' /\ EdgelessInv'
  BY <1>2 DEF QuietInv, EdgelessInv
<1>14. RetryInv'
  <2>1. Met(todo, objs \cup ByHand)'
    BY <1>2 DEF Met
  <2> QED
    BY <1>2, <2>1 DEF RetryInv
<1> QED
  BY <1>6, <1>7, <1>8, <1>9, <1>11, <1>12, <1>13, <1>14 DEF VinfraInv

LEMMA EndKeeps ==
    ASSUME VinfraInv, NEW p, End(p), accident' = TRUE \/ (todo = <<>> /\ accident' = accident)
    PROVE VinfraInv'
<1>1. InfraType /\ Closed /\ ScopeInv /\ MotionInv
  BY DEF VinfraInv
<1>2. /\ command' = "none" /\ todo' = <<>>
      /\ UNCHANGED <<objs, scope, start, n, okay, wide, failed, edgeless, runs, faults, empty, known, linked>>
  BY DEF End, config
<1>3. InfraType'
  <2>1. accident' \in BOOLEAN
    BY <1>1, Zenon DEF InfraType
  <2> QED
    BY <1>1, <1>2, <2>1 DEF InfraType
<1>4. TodoInv'
  BY <1>2, EmptyFacts DEF TodoInv
<1>5. Closed' /\ ScopeInv'
  BY <1>1, <1>2 DEF Closed, ScopeInv
<1>6. StepsInv'
  BY <1>2 DEF StepsInv
<1>7. PromiseInv' /\ QuietInv' /\ EdgelessInv' /\ RetryInv'
  BY <1>2 DEF PromiseInv, QuietInv, EdgelessInv, RetryInv, Full
<1>8. MotionInv'
  BY <1>1, <1>2 DEF MotionInv
<1> QED
  BY <1>3, <1>4, <1>5, <1>6, <1>7, <1>8 DEF VinfraInv

LEMMA MadeByHandKeeps ==
    ASSUME VinfraInv, MadeByHand
    PROVE VinfraInv'
<1>1. InfraType /\ Closed /\ ScopeInv /\ MotionInv /\ command = "none" /\ todo = <<>>
  BY DEF VinfraInv, StepsInv, MadeByHand
<1>2. /\ objs' = objs \cup ByHand
      /\ UNCHANGED <<scope, phase, command, start, n, steps, todo, okay, wide, failed, edgeless, runs, faults,
                     empty, known, linked, accident>>
  BY DEF MadeByHand, setting, config
<1>3. ByHand \subseteq Object /\ \A x : x[1] \notin {"registered", "uplink_segment"} => (x \in objs' <=> x \in objs)
  <2>1. {"registered", "uplink_segment"} \subseteq Singles
    BY DEF Singles
  <2> QED
    BY <1>2, <2>1, AreObjects, HandTags DEF ByHand
<1>4. InfraType'
  BY <1>1, <1>2, <1>3 DEF InfraType
<1>5. TodoInv'
  BY <1>1, <1>2, EmptyFacts DEF TodoInv
<1>6. Closed'
  <2>1. \A h \in Hosts : (host(h) \in objs' <=> host(h) \in objs) /\ (vmk(h) \in objs' <=> vmk(h) \in objs)
    BY <1>3, Tags
  <2>2. o("dc") \in objs' <=> o("dc") \in objs
    BY <1>3, Tags
  <2>3. o("cluster") \in objs' <=> o("cluster") \in objs
    BY <1>3, Tags
  <2>4. objs \subseteq objs'
    BY <1>2
  <2> QED
    BY <1>1, <2>1, <2>2, <2>3, <2>4 DEF Closed
<1>7. ScopeInv'
  <2>1. \A p : policy(p) \in objs' <=> policy(p) \in objs
    BY <1>3, Tags
  <2> QED
    BY <1>1, <1>2, <2>1 DEF ScopeInv
<1>8. StepsInv' /\ PromiseInv' /\ QuietInv' /\ EdgelessInv' /\ RetryInv'
  BY <1>1, <1>2 DEF StepsInv, PromiseInv, QuietInv, EdgelessInv, RetryInv, Full
<1>9. MotionInv'
  <2>1. \A h \in Hosts : vmk(h) \in objs' <=> vmk(h) \in objs
    BY <1>3, Tags
  <2> QED
    BY <1>1, <1>2, <2>1 DEF MotionInv
<1> QED
  BY <1>4, <1>5, <1>6, <1>7, <1>8, <1>9 DEF VinfraInv

\* Whatever is lost, refused or cut off, the steps that ended well have made what they were asked for or have
\* logged that they did not, what is there has what it stands on, and in a run that loses nothing each request
\* finds what it needs unless the operator has to make it.
THEOREM VinfraInvariant == Spec => []VinfraInv
<1>1. Init => VinfraInv
  <2> SUFFICES ASSUME Init PROVE VinfraInv
    OBVIOUS
  <2>1. /\ objs = {} /\ command = "none" /\ todo = <<>> /\ okay = TRUE /\ wide = FALSE /\ failed = {} /\ faults = 0
        /\ edgeless = {} /\ empty \in BOOLEAN /\ known \in BOOLEAN /\ linked \in BOOLEAN /\ accident = FALSE
    BY DEF Init
  <2>2. InfraType
    BY <2>1 DEF InfraType
  <2>3. TodoInv
    BY <2>1, EmptyFacts DEF TodoInv
  <2>4. DOMAIN scope = {}
    BY DEF Init
  <2>5. StepsInv /\ Closed /\ ScopeInv /\ PromiseInv /\ QuietInv /\ MotionInv /\ EdgelessInv /\ RetryInv
    BY <2>1, <2>4 DEF StepsInv, Closed, ScopeInv, PromiseInv, QuietInv, MotionInv, EdgelessInv, RetryInv
  <2> QED
    BY <2>2, <2>3, <2>5 DEF VinfraInv
<1>2. VinfraInv /\ [Next]_vars => VinfraInv'
  <2> SUFFICES ASSUME VinfraInv, [Next]_vars PROVE VinfraInv'
    OBVIOUS
  <2>1. CASE \E c \in DOMAIN Steps, k \in DOMAIN Missions, dry \in BOOLEAN :
                 \E i \in DOMAIN Steps[c] : Start(c, i, k, dry)
    <3>1. PICK c \in DOMAIN Steps, k \in DOMAIN Missions, dry \in BOOLEAN :
              \E i \in DOMAIN Steps[c] : Start(c, i, k, dry)
      BY <2>1
    <3>2. PICK i \in DOMAIN Steps[c] : Start(c, i, k, dry)
      BY <3>1
    <3> QED
      BY <3>2, StartKeeps
  <2>2. CASE RunStep
    BY <2>2, RunStepKeeps
  <2>3. CASE Ask
    <3>1. todo # <<>>
      BY <2>3 DEF Ask, Request, RequestFails, LookupFails
    <3> QED
      BY <2>3, <3>1, AskingStep DEF Asking
  <2>4. CASE MadeByHand
    BY <2>4, MadeByHandKeeps
  <2>5. CASE StepFails \/ Complete \/ Killed
    <3>1. PICK p : End(p) /\ (accident' = TRUE \/ (todo = <<>> /\ accident' = accident))
      BY <2>5 DEF StepFails, Complete, Done, Killed
    <3> QED
      BY <3>1, EndKeeps
  <2>6. CASE UNCHANGED vars
    <3>1. UNCHANGED <<objs, scope, phase, command, start, n, steps, todo, okay, wide, failed, edgeless, runs, faults,
                      empty, known, linked, accident>>
      BY <2>6 DEF vars, config
    <3>2. Full' = Full /\ At' = At /\ Lossless' = Lossless /\ Excused' = Excused
      BY <3>1 DEF Full, At, Lossless, Appliance, Excused
    <3>3. \A s : PromiseOf(s, n, Full)' = PromiseOf(s, n, Full)
      BY <3>1, <3>2 DEF PromiseOf, Mission
    <3>4. InfraType' /\ StepsInv' /\ TodoInv' /\ Closed' /\ ScopeInv'
      BY <3>1, <3>2 DEF VinfraInv, InfraType, StepsInv, TodoInv, Closed, ScopeInv
    <3>5. PromiseInv'
      BY <3>1, <3>2, <3>3 DEF VinfraInv, PromiseInv
    <3>6. QuietInv' /\ MotionInv' /\ EdgelessInv'
      BY <3>1, <3>2 DEF VinfraInv, QuietInv, MotionInv, EdgelessInv, R
    <3>7. Met(todo, objs \cup ByHand)' <=> Met(todo, objs \cup ByHand)
      BY <3>1 DEF Met
    <3>8. RetryInv'
      BY <3>1, <3>2, <3>7 DEF VinfraInv, RetryInv
    <3> QED
      BY <3>4, <3>5, <3>6, <3>8 DEF VinfraInv
  <2> QED
    BY <2>1, <2>2, <2>3, <2>4, <2>5, <2>6 DEF Next, Ask
<1> QED
  BY <1>1, <1>2, PTL DEF Spec
-----------------------------------------------------------------------------
(***************************************************************************)
(* A command that is complete, and one that is run again.                  *)
(***************************************************************************)
LEMMA DoneFacts ==
    ASSUME VinfraInv, Done, start > 0
    PROVE /\ command \in {"vcenter", "vnet"} /\ start \in 1 .. Len(Steps[command]) /\ At = Len(Steps[command])
          /\ \A i \in start .. Len(Steps[command]) : \A x \in Promise(Steps[command][i]) :
                 x \in objs \/ (x \in failed /\ Quiet(x))
          /\ n \in 1 .. Len(Missions)
<1>1. /\ InfraType /\ StepsInv /\ PromiseInv /\ QuietInv
      /\ command # "none" /\ todo = <<>> /\ okay /\ steps = <<>>
  BY DEF VinfraInv, Done
<1>2. start \in 1 .. Len(Steps[command]) /\ At = Len(Steps[command])
  BY <1>1, Position
<1>3. \A i \in start .. At : PromiseOf(Steps[command][i], n, Full) \subseteq objs \cup failed
  BY <1>1, EmptyFacts DEF PromiseInv
<1>4. \A x \in failed : Quiet(x)
  BY <1>1 DEF QuietInv
<1> QED
  BY <1>1, <1>2, <1>3, <1>4 DEF Promise, InfraType, StepsInv

LEMMA PolicyRange == Range(Policies) = PolicyNames
<1> DEFINE s == <<"shared", "intra", "cross", "m2m", "mgmt">>
<1>1. DOMAIN s = {1, 2, 3, 4, 5} /\ s[1] = "shared" /\ s[2] = "intra" /\ s[3] = "cross" /\ s[4] = "m2m" /\ s[5] = "mgmt"
  OBVIOUS
<1>2. Policies = s
  BY DEF Policies
<1> HIDE DEF s
<1>3. Range(Policies) = {s[i] : i \in DOMAIN s}
  BY <1>2 DEF Range
<1> QED
  BY <1>1, <1>3 DEF PolicyNames

LEMMA CompleteIsThere == ASSUME VinfraInv PROVE CompleteMeansThere
<1> DEFINE There(x) == x \in objs \/ (x \in failed /\ Quiet(x))
<1> SUFFICES ASSUME Done, Full
             PROVE /\ (IF command = "vcenter" THEN VcenterObjects ELSE VnetObjects)
                          \subseteq objs \cup (failed \cap Logged)
                   /\ faults = 0 => edgeless = {}
  BY DEF CompleteMeansThere
<1>1. start \in {1, 2}
  BY DEF Full
<1>2. /\ command \in {"vcenter", "vnet"} /\ At = Len(Steps[command])
      /\ \A i \in start .. Len(Steps[command]) : \A x \in Promise(Steps[command][i]) : There(x)
      /\ n \in 1 .. Len(Missions)
  BY <1>1, DoneFacts
<1>3. faults = 0 => edgeless = {}
  BY DEF VinfraInv, EdgelessInv
<1>4. CASE command = "vcenter"
  <2>1. /\ \A x \in Promise("cluster") \cup Promise("vds") \cup Promise("storage") : There(x)
        /\ \A x \in Promise("ha_drs") \cup Promise("content_library") : There(x)
    <3>1. \A i \in {2, 3, 4, 5, 6} : i \in start .. Len(Steps["vcenter"])
      BY <1>1, StepsOf
    <3>2. \A i \in {2, 3, 4, 5, 6} : \A x \in Promise(Steps["vcenter"][i]) : There(x)
      BY <1>2, <1>4, <3>1
    <3> QED
      BY <3>2, StepsOf
  <2>2. o("dc") \in objs /\ o("cluster") \in objs /\ o("vds") \in objs
    BY <2>1, Tags DEF Promise, PromiseOf, Quiet
  <2>3. o("vcsa") \in objs
    BY <2>2 DEF VinfraInv, Closed
  <2>4. o("vsan") \in objs /\ \A h \in Hosts \ Flash : disks(h) \in objs
    <3>1. Promise("storage") = {o("vsan")} \cup {disks(h) : h \in Hosts \ Flash}
      BY DEF Promise, PromiseOf
    <3> QED
      BY <2>1, <3>1, Tags DEF Quiet
  <2>5. o("ha") \in objs /\ o("drs") \in objs /\ \A h \in Hosts : vmk(h) \in objs
    BY <2>1, Tags DEF Promise, PromiseOf, Quiet
  <2>6. o("library") \in objs /\ item \in objs /\ content \in objs
    BY <2>1, Tags DEF Promise, PromiseOf, Quiet
  <2>7. published \in objs \cup (failed \cap Logged)
    BY <2>1 DEF Promise, PromiseOf, Logged
  <2>8. \A x \in {"mgmt"} \cup Mission(n) : ports(x) \in objs \cup (failed \cap Logged)
    BY <2>1 DEF Promise, PromiseOf, Logged
  <2>9. \A h \in Hosts : {host(h), member(h), o("pg"), vmk(h)} \subseteq objs
    BY <2>5 DEF VinfraInv, Closed
  <2>10. ~accident => \A h \in Hosts : vmotion(h) \in objs
    BY <2>5 DEF VinfraInv, MotionInv, Done
  <2>11. VcenterObjects \subseteq objs \cup (failed \cap Logged)
    <3> DEFINE all == objs \cup (failed \cap Logged)
    <3>1. objs \subseteq all
      OBVIOUS
    <3>2. published \in all /\ \A x \in {"mgmt"} \cup Mission(n) : ports(x) \in all
      BY <2>7, <2>8
    <3> HIDE DEF all
    <3>3. {o(x) : x \in {"vcsa", "dc", "cluster", "vds", "vsan", "ha", "drs", "library"}} \subseteq all
      BY <2>2, <2>3, <2>4, <2>5, <2>6, <3>1
    <3>4. UNION {{host(h), member(h), o("pg"), vmk(h)} : h \in Hosts} \subseteq all
      BY <2>9, <3>1
    <3>5. {disks(h) : h \in Hosts \ Flash} \subseteq all
      BY <2>4, <3>1
    <3>6. (IF accident THEN {} ELSE {vmotion(h) : h \in Hosts}) \subseteq all
      BY <2>10, <3>1
    <3>7. {item, content, published} \subseteq all
      BY <2>6, <3>1, <3>2
    <3>8. {ports(x) : x \in {"mgmt"} \cup Mission(n)} \subseteq all
      BY <3>2
    <3>9. VcenterObjects \subseteq all
      BY <3>3, <3>4, <3>5, <3>6, <3>7, <3>8, Zenon DEF VcenterObjects
    <3> QED
      BY <3>9 DEF all
  <2> QED
    BY <1>3, <1>4, <2>11
<1>5. CASE command = "vnet"
  <2>1. /\ \A x \in Promise("transport") \cup Promise("host_tnp") \cup Promise("edge") : There(x)
        /\ \A x \in Promise("tier0") \cup Promise("tier1") : There(x)
        /\ \A x \in Promise("segments") \cup Promise("firewall") : There(x)
    <3>1. \A i \in {2, 3, 4, 5, 6, 7, 8} : i \in start .. Len(Steps["vnet"])
      BY <1>1, StepsOf
    <3>2. \A i \in {2, 3, 4, 5, 6, 7, 8} : \A x \in Promise(Steps["vnet"][i]) : There(x)
      BY <1>2, <1>5, <3>1
    <3> QED
      BY <3>2, StepsOf
  <2>2. /\ o("overlay") \in objs /\ o("vlan") \in objs /\ o("pool") \in objs /\ o("profile") \in objs
        /\ o("tnp") \in objs /\ o("applied") \in objs
    BY <2>1, Tags DEF Promise, PromiseOf, Quiet
  <2>3. o("edge_cluster") \in objs /\ \A m \in Mission(n) : edge(m) \in objs
    BY <2>1, Tags DEF Promise, PromiseOf, Quiet
  <2>4. o("tier0") \in objs /\ o("locale") \in objs /\ (linked => o("uplink") \in objs)
    <3>1. Promise("tier0") = {o("tier0"), o("locale")} \cup (IF linked THEN {o("uplink")} ELSE {})
      BY DEF Promise, PromiseOf
    <3> QED
      BY <2>1, <3>1, Tags DEF Quiet
  <2>5. \A m \in Mission(n) : t1(m) \in objs
    BY <2>1, Tags DEF Promise, PromiseOf, Quiet
  <2>6. \A m \in Mission(n) : segment(m) \in objs
    <3>1. Promise("segments") = {segment(m) : m \in {"mgmt"} \cup Mission(n)}
      BY DEF Promise, PromiseOf
    <3> QED
      BY <2>1, <3>1, Tags DEF Quiet
  <2>7. (\A m \in Mission(n) : Group(m) \in objs) /\ (\A p \in PolicyNames : policy(p) \in objs)
    BY <2>1, Tags DEF Promise, PromiseOf, Quiet
  <2>8. {o(x) : x \in {"overlay", "vlan", "pool", "profile", "tnp", "applied", "edge_cluster", "tier0", "locale"}}
           \subseteq objs
    BY <2>2, <2>3, <2>4
  <2>9. UNION {{edge(m), t1(m), segment(m), Group(m)} : m \in Mission(n)} \subseteq objs
    BY <2>3, <2>5, <2>6, <2>7
  <2>10. {policy(p) : p \in Range(Policies)} \subseteq objs
    BY <2>7, PolicyRange
  <2>11. (IF linked THEN {o("uplink")} ELSE {}) \subseteq objs
    BY <2>4
  <2>12. VnetObjects \subseteq objs
    BY <2>8, <2>9, <2>10, <2>11, Zenon DEF VnetObjects
  <2> QED
    BY <1>3, <1>5, <2>12
<1> QED
  BY <1>2, <1>4, <1>5

\* A command that ran from its first or second step and is complete has made every object it was asked for, on
\* this attempt or an earlier one, but for the port groups and the publication whose failure it only logged
\* (vcenter/vds.py, vcenter/content_library.py): what else it only logs makes a later step fail.  And unless a
\* lookup was lost, no gateway it made lacks the edge cluster (nsx/routing.py).
THEOREM VinfraCompleteMeansThere == Spec => []CompleteMeansThere
BY VinfraInvariant, CompleteIsThere, PTL

LEMMA RetriedWell == ASSUME VinfraInv PROVE RetrySucceeds
<1> SUFFICES ASSUME Full, faults = 0, start = 2 => Appliance \in objs
             PROVE failed \subseteq {x \in objs : x \in {o("vcsa"), o("manager"), item} \/ (empty /\ Nsx(x))}
                                    \cup (IF ByHand \subseteq objs THEN {} ELSE HandUsers)
  BY DEF RetrySucceeds
<1>1. Lossless /\ command # "none"
  BY DEF Lossless, Full
<1>2. failed \subseteq Excused
  BY <1>1 DEF VinfraInv, RetryInv
<1> QED
  BY <1>2 DEF Excused

\* A run of either command, from its first step or the one behind the appliance, in which nothing is lost is
\* refused nothing but an appliance or a library item that exists already and what waits for the operator,
\* whatever earlier runs left behind: the lookups before each request (vcenter/, nsx/) make the commands
\* repeatable.
THEOREM VinfraRetrySucceeds == Spec => []RetrySucceeds
BY VinfraInvariant, RetriedWell, PTL
-----------------------------------------------------------------------------
(***************************************************************************)
(* The rules of the distributed firewall.                                  *)
(***************************************************************************)
Hits(q, src, dst, svc) == src \in q.src /\ dst \in q.dst /\ svc \in q.svc
Seqs == {100, 200, 300, 400, 500}

\* The least number among the rules that match decides: those up to a matching rule's agree.
Decided(r, src, dst, svc, action) ==
    /\ r \in Rules /\ Hits(r, src, dst, svc) /\ \A q \in Rules : q.seq \in Seqs
    /\ \A q \in Rules : Hits(q, src, dst, svc) /\ q.seq <= r.seq => q.action = action

LEMMA FirstRule ==
    ASSUME NEW r, NEW src, NEW dst, NEW svc, NEW action, Decided(r, src, dst, svc, action)
    PROVE Verdict(src, dst, svc) = action
<1> DEFINE hits == {q \in Rules : src \in q.src /\ dst \in q.dst /\ svc \in q.svc}
<1>1. r \in hits /\ \A q \in hits : q.seq \in Seqs /\ (q.seq <= r.seq => q.action = action)
  BY DEF Hits, Decided
<1>2. hits # {} /\ Verdict(src, dst, svc) = (IF hits = {} THEN "ALLOW" ELSE (CHOOSE x \in hits : \A q \in hits : x.seq <= q.seq).action)
  BY <1>1 DEF Verdict
<1> HIDE DEF hits
<1>3. \E x \in hits : \A q \in hits : x.seq <= q.seq
  <2>1. CASE \E x \in hits : x.seq = 100
    BY <1>1, <2>1 DEF Seqs
  <2>2. CASE (\A x \in hits : x.seq # 100) /\ \E x \in hits : x.seq = 200
    BY <1>1, <2>2 DEF Seqs
  <2>3. CASE (\A x \in hits : x.seq \notin {100, 200}) /\ \E x \in hits : x.seq = 300
    BY <1>1, <2>3 DEF Seqs
  <2>4. CASE (\A x \in hits : x.seq \notin {100, 200, 300}) /\ \E x \in hits : x.seq = 400
    BY <1>1, <2>4 DEF Seqs
  <2>5. CASE \A x \in hits : x.seq \notin {100, 200, 300, 400}
    BY <1>1, <2>5 DEF Seqs
  <2> QED
    BY <2>1, <2>2, <2>3, <2>4, <2>5
<1> DEFINE first == CHOOSE x \in hits : \A q \in hits : x.seq <= q.seq
<1>4. first \in hits /\ \A q \in hits : first.seq <= q.seq
  BY <1>3
<1> HIDE DEF first
<1>5. first.action = action
  BY <1>1, <1>4
<1> QED
  BY <1>2, <1>5 DEF first

LEMMA RuleFields ==
    ASSUME NEW seq, NEW src, NEW dst, NEW svc, NEW action
    PROVE /\ Rule(seq, src, dst, svc, action).seq = seq /\ Rule(seq, src, dst, svc, action).src = src
          /\ Rule(seq, src, dst, svc, action).dst = dst /\ Rule(seq, src, dst, svc, action).svc = svc
          /\ Rule(seq, src, dst, svc, action).action = action
BY DEF Rule

LEMMA FiveRules ==
    ASSUME DOMAIN scope = PolicyNames
    PROVE Rules = SharedRules(scope["shared"]) \cup IntraRules(scope["intra"]) \cup CrossRules(scope["cross"])
                  \cup ToMgmtRules(scope["m2m"]) \cup MgmtRules(scope["mgmt"])
<1> DEFINE F(p) == LET s == scope[p] IN
               CASE p = "shared" -> SharedRules(s) [] p = "intra" -> IntraRules(s) [] p = "cross" -> CrossRules(s)
                 [] p = "m2m" -> ToMgmtRules(s) [] p = "mgmt" -> MgmtRules(s)
<1>1. Rules = UNION {F(p) : p \in PolicyNames}
  BY DEF Rules
<1>2. /\ F("shared") = SharedRules(scope["shared"]) /\ F("intra") = IntraRules(scope["intra"])
      /\ F("cross") = CrossRules(scope["cross"]) /\ F("m2m") = ToMgmtRules(scope["m2m"])
      /\ F("mgmt") = MgmtRules(scope["mgmt"])
  OBVIOUS
<1> HIDE DEF F
<1>3. UNION {F(p) : p \in PolicyNames} = F("shared") \cup F("intra") \cup F("cross") \cup F("m2m") \cup F("mgmt")
  BY DEF PolicyNames
<1> QED
  BY <1>1, <1>2, <1>3

\* The firewall once its five policies are made for the missions of the configuration.
Walled ==
    /\ DOMAIN scope = PolicyNames /\ n \in 1 .. Len(Missions)
    /\ \A p \in DOMAIN scope : scope[p].n \in n .. Len(Missions)
    /\ scope["shared"].wide = FALSE

LEMMA RuleKinds ==
    ASSUME Walled, NEW q \in Rules
    PROVE \/ /\ q.seq = 100 /\ q.action = "ALLOW" /\ q.src \subseteq Range(Missions) /\ q.svc = {"known"}
             /\ known => q.dst = {"server"}
          \/ q.seq = 200 /\ q.action = "ALLOW" /\ \E m \in Range(Missions) : q.src = {m} /\ q.dst = {m}
          \/ q.seq = 300 /\ q.action = "DROP" /\ q.src \subseteq Range(Missions)
          \/ q.seq = 400 /\ q.action = "DROP" /\ q.src \subseteq Range(Missions)
          \/ q.seq = 500 /\ q.action = "ALLOW"
<1>1. \A p \in PolicyNames : Mission(scope[p].n) \subseteq Range(Missions)
  <2> SUFFICES ASSUME NEW p \in PolicyNames PROVE Mission(scope[p].n) \subseteq Range(Missions)
    OBVIOUS
  <2>1. scope[p].n \in n .. Len(Missions) /\ n \in 1 .. Len(Missions)
    BY DEF Walled
  <2>2. scope[p].n \in 1 .. Len(Missions)
    BY <2>1
  <2> QED
    BY <2>2, MissionFacts
<1>2. CASE q \in SharedRules(scope["shared"])
  <2> DEFINE dst == IF known THEN {"server"} ELSE {"server", "mgmt"} \cup Range(Missions)
             svc == IF scope["shared"].wide THEN Services ELSE {"known"}
  <2>1. q = Rule(100, Mission(scope["shared"].n), dst, svc, "ALLOW")
    BY <1>2 DEF SharedRules
  <2>2. svc = {"known"} /\ (known => dst = {"server"})
    BY DEF Walled
  <2> HIDE DEF dst, svc
  <2>3. q.seq = 100 /\ q.action = "ALLOW" /\ q.src = Mission(scope["shared"].n) /\ q.svc = svc /\ q.dst = dst
    BY <2>1, RuleFields
  <2> QED
    BY <1>1, <2>2, <2>3 DEF PolicyNames
<1>3. CASE q \in IntraRules(scope["intra"])
  <2>1. PICK m \in Mission(scope["intra"].n) : q = Rule(200, {m}, {m}, Services, "ALLOW")
    BY <1>3 DEF IntraRules
  <2>2. q.seq = 200 /\ q.action = "ALLOW" /\ q.src = {m} /\ q.dst = {m}
    BY <2>1, RuleFields
  <2>3. m \in Range(Missions)
    BY <1>1 DEF PolicyNames
  <2> QED
    BY <2>2, <2>3
<1>4. CASE q \in CrossRules(scope["cross"])
  <2>1. PICK p \in Mission(scope["cross"].n) \X Mission(scope["cross"].n) :
            q = Rule(300, {p[1]}, {p[2]}, Services, "DROP")
    BY <1>4 DEF CrossRules
  <2>2. q.seq = 300 /\ q.action = "DROP" /\ q.src = {p[1]}
    BY <2>1, RuleFields
  <2>3. p[1] \in Range(Missions)
    BY <1>1 DEF PolicyNames
  <2> QED
    BY <2>2, <2>3
<1>5. CASE q \in ToMgmtRules(scope["m2m"])
  <2>1. q = Rule(400, Mission(scope["m2m"].n), {"mgmt", "server"}, Services, "DROP")
    BY <1>5 DEF ToMgmtRules
  <2>2. q.seq = 400 /\ q.action = "DROP" /\ q.src = Mission(scope["m2m"].n)
    BY <2>1, RuleFields
  <2> QED
    BY <1>1, <2>2 DEF PolicyNames
<1>6. CASE q \in MgmtRules(scope["mgmt"])
  <2>1. q = Rule(500, {"mgmt", "server"}, {"mgmt", "server"} \cup Range(Missions), Services, "ALLOW")
    BY <1>6 DEF MgmtRules
  <2> QED
    BY <2>1, RuleFields
<1>7. DOMAIN scope = PolicyNames
  BY DEF Walled
<1> QED
  BY <1>2, <1>3, <1>4, <1>5, <1>6, <1>7, FiveRules

\* What each mission is covered by.
LEMMA RulesThere ==
    ASSUME Walled, NEW a \in Mission(n)
    PROVE /\ \E q \in Rules : q.seq = 100 /\ Hits(q, a, "server", "known")
          /\ \A s \in Services : \E q \in Rules : q.seq = 200 /\ Hits(q, a, a, s)
          /\ \A b \in Mission(n) \ {a}, s \in Services : \E q \in Rules : q.seq = 300 /\ Hits(q, a, b, s)
          /\ \A s \in Services : \E q \in Rules : q.seq = 400 /\ Hits(q, a, "mgmt", s)
          /\ \A s \in Services : \E q \in Rules : q.seq = 500 /\ Hits(q, "mgmt", a, s)
<1>1. DOMAIN scope = PolicyNames /\ n \in 1 .. Len(Missions)
  BY DEF Walled
<1>2. \A p \in PolicyNames : Mission(n) \subseteq Mission(scope[p].n)
  <2> SUFFICES ASSUME NEW p \in PolicyNames PROVE Mission(n) \subseteq Mission(scope[p].n)
    OBVIOUS
  <2>1. scope[p].n \in n .. Len(Missions)
    BY DEF Walled
  <2> QED
    BY <1>1, <2>1, MissionFacts
<1>3. /\ SharedRules(scope["shared"]) \subseteq Rules /\ IntraRules(scope["intra"]) \subseteq Rules
      /\ CrossRules(scope["cross"]) \subseteq Rules /\ ToMgmtRules(scope["m2m"]) \subseteq Rules
      /\ MgmtRules(scope["mgmt"]) \subseteq Rules
  BY <1>1, FiveRules
<1>4. \E q \in Rules : q.seq = 100 /\ Hits(q, a, "server", "known")
  <2> DEFINE dst == IF known THEN {"server"} ELSE {"server", "mgmt"} \cup Range(Missions)
             svc == IF scope["shared"].wide THEN Services ELSE {"known"}
             q == Rule(100, Mission(scope["shared"].n), dst, svc, "ALLOW")
  <2>1. q \in Rules
    BY <1>3 DEF SharedRules
  <2>2. "server" \in dst /\ "known" \in svc
    BY DEF Services
  <2>3. a \in Mission(scope["shared"].n)
    BY <1>2 DEF PolicyNames
  <2> HIDE DEF dst, svc
  <2>4. q.seq = 100 /\ q.src = Mission(scope["shared"].n) /\ q.dst = dst /\ q.svc = svc
    BY RuleFields
  <2>5. q.seq = 100 /\ Hits(q, a, "server", "known")
    BY <2>2, <2>3, <2>4 DEF Hits
  <2> HIDE DEF q
  <2> QED
    BY <2>1, <2>5
<1>5. ASSUME NEW s \in Services PROVE \E q \in Rules : q.seq = 200 /\ Hits(q, a, a, s)
  <2> DEFINE q == Rule(200, {a}, {a}, Services, "ALLOW")
  <2>1. a \in Mission(scope["intra"].n)
    BY <1>2 DEF PolicyNames
  <2>2. q \in Rules
    BY <1>3, <2>1 DEF IntraRules
  <2>3. q.seq = 200 /\ Hits(q, a, a, s)
    BY RuleFields DEF Hits
  <2> HIDE DEF q
  <2> QED
    BY <2>2, <2>3
<1>6. ASSUME NEW b \in Mission(n) \ {a}, NEW s \in Services
      PROVE \E q \in Rules : q.seq = 300 /\ Hits(q, a, b, s)
  <2> DEFINE p == <<a, b>>
             q == Rule(300, {p[1]}, {p[2]}, Services, "DROP")
  <2>1. Mission(n) \subseteq Mission(scope["cross"].n)
    BY <1>2 DEF PolicyNames
  <2>2. p \in Mission(scope["cross"].n) \X Mission(scope["cross"].n) /\ p[1] = a /\ p[2] = b /\ p[1] # p[2]
    BY <2>1
  <2> HIDE DEF p
  <2>3. q \in Rules
    BY <1>3, <2>2 DEF CrossRules
  <2>4. q.seq = 300 /\ q.src = {p[1]} /\ q.dst = {p[2]} /\ q.svc = Services
    BY RuleFields
  <2>5. q.seq = 300 /\ Hits(q, a, b, s)
    BY <2>2, <2>4 DEF Hits
  <2> HIDE DEF q
  <2> QED
    BY <2>3, <2>5
<1>7. ASSUME NEW s \in Services PROVE \E q \in Rules : q.seq = 400 /\ Hits(q, a, "mgmt", s)
  <2> DEFINE q == Rule(400, Mission(scope["m2m"].n), {"mgmt", "server"}, Services, "DROP")
  <2>1. a \in Mission(scope["m2m"].n)
    BY <1>2 DEF PolicyNames
  <2>2. q \in Rules
    BY <1>3 DEF ToMgmtRules
  <2>3. q.seq = 400 /\ Hits(q, a, "mgmt", s)
    BY <2>1, RuleFields DEF Hits
  <2> HIDE DEF q
  <2> QED
    BY <2>2, <2>3
<1>8. ASSUME NEW s \in Services PROVE \E q \in Rules : q.seq = 500 /\ Hits(q, "mgmt", a, s)
  <2> DEFINE q == Rule(500, {"mgmt", "server"}, {"mgmt", "server"} \cup Range(Missions), Services, "ALLOW")
  <2>1. a \in Range(Missions)
    BY <1>1, MissionFacts
  <2>2. q \in Rules
    BY <1>3 DEF MgmtRules
  <2>3. q.seq = 500 /\ Hits(q, "mgmt", a, s)
    BY <2>1, RuleFields DEF Hits
  <2> HIDE DEF q
  <2> QED
    BY <2>2, <2>3
<1> QED
  BY <1>4, <1>5, <1>6, <1>7, <1>8

LEMMA WalledOff ==
    ASSUME Walled, NEW a \in Mission(n)
    PROVE /\ \A s \in Services : Verdict(a, a, s) = "ALLOW" /\ Verdict("mgmt", a, s) = "ALLOW"
          /\ Verdict(a, "server", "known") = "ALLOW" /\ Verdict(a, "mgmt", "other") = "DROP"
          /\ \A b \in Mission(n) \ {a} :
                 Verdict(a, b, "other") = "DROP" /\ (known => Verdict(a, b, "known") = "DROP")
<1>1. Mission(n) \subseteq Range(Missions) /\ "mgmt" \notin Range(Missions) /\ "server" \notin Range(Missions)
  <2>1. Mission(n) \subseteq Range(Missions)
    BY MissionFacts DEF Walled
  <2>2. Missions \in Seq(Range(Missions) \ {"mgmt", "server"}) /\ Range(Missions) = {Missions[i] : i \in DOMAIN Missions}
    BY VinfraAssumption DEF Range
  <2>3. \A i \in DOMAIN Missions : Missions[i] \in Range(Missions) \ {"mgmt", "server"}
    BY <2>2
  <2> QED
    BY <2>1, <2>2, <2>3
<1>2. \A q \in Rules : q.seq \in Seqs
  BY RuleKinds DEF Seqs
<1>3. ASSUME NEW s \in Services PROVE Verdict(a, a, s) = "ALLOW"
  <2>1. PICK r \in Rules : r.seq = 200 /\ Hits(r, a, a, s)
    BY RulesThere
  <2>2. \A q \in Rules : Hits(q, a, a, s) /\ q.seq <= r.seq => q.action = "ALLOW"
    BY <2>1, RuleKinds
  <2>3. Decided(r, a, a, s, "ALLOW")
    BY <1>2, <2>1, <2>2 DEF Decided
  <2> QED
    BY <2>3, FirstRule
<1>4. ASSUME NEW s \in Services PROVE Verdict("mgmt", a, s) = "ALLOW"
  <2>1. PICK r \in Rules : r.seq = 500 /\ Hits(r, "mgmt", a, s)
    BY RulesThere
  <2>2. \A q \in Rules : Hits(q, "mgmt", a, s) /\ q.seq <= r.seq => q.action = "ALLOW"
    BY <1>1, <2>1, RuleKinds DEF Hits
  <2>3. Decided(r, "mgmt", a, s, "ALLOW")
    BY <1>2, <2>1, <2>2 DEF Decided
  <2> QED
    BY <2>3, FirstRule
<1>5. Verdict(a, "server", "known") = "ALLOW"
  <2>1. PICK r \in Rules : r.seq = 100 /\ Hits(r, a, "server", "known")
    BY RulesThere
  <2>2. \A q \in Rules : Hits(q, a, "server", "known") /\ q.seq <= r.seq => q.action = "ALLOW"
    BY <2>1, RuleKinds
  <2>3. Decided(r, a, "server", "known", "ALLOW")
    BY <1>2, <2>1, <2>2 DEF Decided
  <2> QED
    BY <2>3, FirstRule
<1>6. Verdict(a, "mgmt", "other") = "DROP"
  <2>1. PICK r \in Rules : r.seq = 400 /\ Hits(r, a, "mgmt", "other")
    BY RulesThere DEF Services
  <2>2. \A q \in Rules : Hits(q, a, "mgmt", "other") /\ q.seq <= r.seq => q.action = "DROP"
    BY <1>1, <2>1, RuleKinds DEF Hits
  <2>3. Decided(r, a, "mgmt", "other", "DROP")
    BY <1>2, <2>1, <2>2 DEF Decided
  <2> QED
    BY <2>3, FirstRule
<1>7. ASSUME NEW b \in Mission(n) \ {a}, NEW s \in Services, s = "other" \/ known
      PROVE Verdict(a, b, s) = "DROP"
  <2>1. PICK r \in Rules : r.seq = 300 /\ Hits(r, a, b, s)
    BY RulesThere
  <2>2. b # a /\ b # "server"
    BY <1>1
  <2>3. ASSUME NEW q \in Rules, Hits(q, a, b, s), q.seq <= r.seq PROVE q.action = "DROP"
    <3>1. q.seq # 100
      <4> SUFFICES ASSUME q.seq = 100 PROVE FALSE
        OBVIOUS
      <4>1. q.svc = {"known"} /\ (known => q.dst = {"server"})
        BY RuleKinds
      <4>2. s = "known" /\ b \in q.dst
        BY <2>3, <4>1 DEF Hits
      <4>3. known
        BY <1>7, <4>2
      <4> QED
        BY <2>2, <4>1, <4>2, <4>3
    <3>2. q.seq # 200
      <4> SUFFICES ASSUME q.seq = 200 PROVE FALSE
        OBVIOUS
      <4>1. PICK m \in Range(Missions) : q.src = {m} /\ q.dst = {m}
        BY RuleKinds
      <4> QED
        BY <2>2, <2>3, <4>1 DEF Hits
    <3>3. q.seq # 500
      BY <2>1, <2>3
    <3> QED
      BY <3>1, <3>2, <3>3, RuleKinds
  <2>4. Decided(r, a, b, s, "DROP")
    BY <1>2, <2>1, <2>3 DEF Decided
  <2> QED
    BY <2>4, FirstRule
<1>8. ASSUME NEW b \in Mission(n) \ {a}
      PROVE Verdict(a, b, "other") = "DROP" /\ (known => Verdict(a, b, "known") = "DROP")
  BY <1>7 DEF Services
<1> QED
  BY <1>3, <1>4, <1>5, <1>6, <1>8

LEMMA IsolatedWell == ASSUME VinfraInv PROVE MissionsIsolated
<1> SUFFICES ASSUME Done, command = "vnet", start > 0, \A p \in DOMAIN scope : scope[p].n >= n,
                    ~scope["shared"].wide
             PROVE \A a \in Mission(n) :
                       /\ \A s \in Services : Verdict(a, a, s) = "ALLOW" /\ Verdict("mgmt", a, s) = "ALLOW"
                       /\ Verdict(a, "server", "known") = "ALLOW" /\ Verdict(a, "mgmt", "other") = "DROP"
                       /\ \A b \in Mission(n) \ {a} :
                              Verdict(a, b, "other") = "DROP" /\ (known => Verdict(a, b, "known") = "DROP")
  BY DEF MissionsIsolated
<1>1. /\ start \in 1 .. Len(Steps[command])
      /\ \A i \in start .. Len(Steps[command]) : \A x \in Promise(Steps[command][i]) : x \in objs \/ Quiet(x)
      /\ n \in 1 .. Len(Missions)
  BY DoneFacts
<1>2. \A x \in Promise("firewall") : x \in objs \/ Quiet(x)
  BY <1>1, StepsOf
<1>3. \A p \in PolicyNames : policy(p) \in objs
  BY <1>2, Tags DEF Promise, PromiseOf, Quiet
<1>4. /\ DOMAIN scope = PolicyNames
      /\ \A p \in DOMAIN scope : scope[p].n \in 1 .. Len(Missions) /\ scope[p].wide \in BOOLEAN
  BY <1>3 DEF VinfraInv, ScopeInv
<1>5. \A p \in DOMAIN scope : scope[p].n \in n .. Len(Missions)
  BY <1>1, <1>4
<1>6. scope["shared"].wide = FALSE
  BY <1>4 DEF PolicyNames
<1>7. Walled
  BY <1>1, <1>4, <1>5, <1>6 DEF Walled
<1> QED
  BY <1>7, WalledOff

\* After the firewall step the missions are kept apart by the order of the five policies (nsx/firewall.py),
\* whatever was lost and repaired before.
THEOREM VinfraMissionsIsolated == Spec => []MissionsIsolated
BY VinfraInvariant, IsolatedWell, PTL
=============================================================================
