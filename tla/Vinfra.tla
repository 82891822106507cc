------------------------------- MODULE Vinfra -------------------------------
(***************************************************************************)
(* The virtual infrastructure of a site (vinfra/): the commands            *)
(* deploy_vcenter (phase 7) and configure_vnet (phase 8).  A command is a  *)
(* sequence of steps, a step a sequence of requests to vCenter or NSX;     *)
(* most of them look for an object first and make it if it is missing.  A  *)
(* command that fails is run again, from any step, with a configuration    *)
(* that may have grown.                                                    *)
(***************************************************************************)
EXTENDS Integers, Sequences, FiniteSets, SequencesExt

CONSTANTS
    Hosts, Flash,        \* ESXi hosts; those with SSDs only
    Missions,            \* a sequence; a configuration has the first n of them
    MaxRuns, MaxFaults   \* bounds: commands run, requests lost in one

(* No mission has the name of management's group or of the shared servers. *)
ASSUME VinfraAssumption ==
    /\ IsFiniteSet(Hosts) /\ Flash \subseteq Hosts
    /\ Missions \in Seq(Range(Missions) \ {"mgmt", "server"}) /\ Missions # <<>>
    /\ MaxRuns \in Nat \ {0} /\ MaxFaults \in Nat

Steps == [vcenter |-> <<"vcsa_deploy", "cluster", "vds", "storage", "ha_drs", "content_library">>,
          vnet |-> <<"manager", "transport", "host_tnp", "edge", "tier0", "tier1", "segments", "firewall">>]
Policies == <<"shared", "intra", "cross", "m2m", "mgmt">>

VARIABLES
    objs,           \* the objects in vCenter and NSX
    scope,          \* of each DFW policy made: its missions, and whether its services are ANY
    phase,          \* Deployment.phase
    command, start, n, steps, todo,   \* the command, its first step, its missions, what is left of it and of the step
    okay, wide,     \* of the step: no request failed so far; the service request did
    failed,         \* the objects whose requests failed in the run
    edgeless,       \* the gateways that the run has made without an edge cluster
    runs, faults,
    empty, known, linked, \* NSX answers a PATCH without a body; the shared services, the uplink are configured
    accident        \* history: a request lost or a command killed, in this run or an earlier one

config == <<empty, known, linked>>
vars == <<objs, scope, phase, command, start, n, steps, todo, okay, wide, failed, edgeless, runs, faults,
          config, accident>>
setting == <<command, start, n, runs, config>>

host(h) == <<"host", h>>
member(h) == <<"member", h>>
disks(h) == <<"disks", h>>
vmk(h) == <<"vmk", h>>
vmotion(h) == <<"vmotion", h>>
ports(x) == <<"ports", x>>   \* of a mission; "mgmt": the standard ones but PG-vmotion
item == <<"item">>
content == <<"content">>
published == <<"published">>
service == <<"service">>
edge(m) == <<"edge", m>>
t1(m) == <<"tier1", m>>
segment(m) == <<"segment", m>>
policy(p) == <<"policy", p>>
o(name) == <<name>>

(* What no step makes: the registration of vCenter in NSX, which the tool  *)
(* tries with the wrong user, and the segment of the uplink.               *)
ByHand == {o("registered"), o("uplink_segment")}

Init ==
    /\ objs = {} /\ scope = [p \in {} |-> [n |-> 0, wide |-> FALSE]] /\ phase = "none"
    /\ command = "none" /\ start = 0 /\ n = 0 /\ steps = <<>> /\ todo = <<>>
    /\ okay = TRUE /\ wide = FALSE /\ failed = {} /\ edgeless = {} /\ runs = 0 /\ faults = 0
    /\ empty \in BOOLEAN /\ known \in BOOLEAN /\ linked \in BOOLEAN /\ accident = FALSE
-----------------------------------------------------------------------------
(* The requests of each step.  "ensure" looks first; "install" and "create"*)
(* do not, and are refused where the object exists; "put" may be repeated. *)
(* A failure ends the step ("raise"), makes it fail at its end ("collect"),*)
(* or is logged ("ignore").                                                *)

Req(op, obj, needs, on) == [op |-> op, obj |-> obj, needs |-> needs, on |-> on]
One(op, obj, needs, on) == <<Req(op, obj, needs, on)>>

(* One request, or one and then another, for each element of a set.        *)
ForEach(req) == [i \in 1 .. Cardinality(DOMAIN req) |-> req[SetToSeq(DOMAIN req)[i]]]
ForEachTwo(req, next) ==
    [i \in 1 .. 2 * Cardinality(DOMAIN req) |->
        IF i % 2 = 1 THEN req[SetToSeq(DOMAIN req)[(i + 1) \div 2]] ELSE next[SetToSeq(DOMAIN req)[i \div 2]]]
Mission(k) == {Missions[i] : i \in 1 .. k}

VcsaDeploy == One("install", o("vcsa"), {}, "raise")

Cluster_NoLookup ==
    One("create", o("dc"), {o("vcsa")}, "raise") \o One("ensure", o("cluster"), {o("dc")}, "raise")
    \o ForEach([h \in Hosts |-> Req("ensure", host(h), {o("cluster")}, "collect")])

Cluster ==
    One("ensure", o("dc"), {o("vcsa")}, "raise") \o One("ensure", o("cluster"), {o("dc")}, "raise")
    \o ForEach([h \in Hosts |-> Req("ensure", host(h), {o("cluster")}, "collect")])

Vds ==
    One("ensure", o("vds"), {o("dc")}, "raise")
    \o ForEach([h \in Hosts |-> Req("ensure", member(h), {o("vds"), host(h)}, "ignore")])
    \o One("ensure", o("pg"), {o("vds")}, "ignore")
    \o ForEach([x \in {"mgmt"} \cup Mission(n) |-> Req("ensure", ports(x), {o("vds")}, "ignore")])

(* A host with SSDs only gets no disk group, and counts as configured: its *)
(* disks are all taken for cache disks.                                    *)
Storage ==
    One("ensure", o("vsan"), {o("cluster")}, "raise")
    \o ForEach([h \in {x \in Hosts \ Flash : host(x) \in objs} |-> Req("ensure", disks(h), {}, "collect")])

(* A host outside the cluster is one failure; a port group that the host   *)
(* does not see ends the step.                                             *)
HaDrs ==
    One("put", o("ha"), {o("cluster")}, IF o("cluster") \in objs THEN "collect" ELSE "raise")
    \o One("put", o("drs"), {o("cluster")}, "collect")
    \o ForEachTwo(
           [h \in Hosts |->
               Req("ensure", vmk(h), {host(h), member(h), o("pg")},
                   IF host(h) \in objs /\ ~({member(h), o("pg")} \subseteq objs) THEN "raise" ELSE "collect")],
           [h \in Hosts |-> Req("put", vmotion(h), {vmk(h)}, "collect")])

ContentLibrary ==
    One("ensure", o("library"), {o("vsan")}, "raise")
    \o One("create", item, {o("library")}, "collect") \o One("put", content, {item}, "collect")
    \o One("put", published, {item}, "ignore")

Manager == One("install", o("manager"), {}, "raise")

Transport ==
    ForEach([x \in {o("overlay"), o("vlan"), o("pool"), o("profile")} |->
                 Req("ensure", x, {o("manager")}, "collect")])

HostTnp ==
    One("put", o("tnp"), {o("overlay"), o("pool"), o("profile")}, "raise")
    \o One("put", o("applied"), {o("tnp"), o("registered")}, "raise")

Edge ==
    ForEach([m \in Mission(n) |-> Req("ensure", edge(m), {o("overlay"), o("vlan"), o("profile"), o("registered")}, "raise")])
    \o One("ensure", o("edge_cluster"), {edge(m) : m \in Mission(n)}, "collect")

Tier0 ==
    One("ensure", o("tier0"), {o("manager")}, "raise") \o One("ensure", o("locale"), {o("tier0")}, "raise")
    \o (IF linked THEN One("ensure", o("uplink"), {o("locale"), o("uplink_segment")}, "collect") ELSE <<>>)

Tier1 ==
    ForEach([m \in {"mgmt"} \cup Mission(n) |-> Req("ensure", t1(m), {o("tier0")}, "collect")])

Segments_Lenient ==
    IF o("overlay") \notin objs THEN One("ensure", segment("mgmt"), {o("overlay")}, "raise")
    ELSE ForEach([m \in {"mgmt"} \cup Mission(n) |-> Req("ensure", segment(m), {t1(m)}, "ignore")])

Segments ==
    IF o("overlay") \notin objs THEN One("ensure", segment("mgmt"), {o("overlay")}, "raise")
    ELSE ForEach([m \in {"mgmt"} \cup Mission(n) |-> Req("ensure", segment(m), {t1(m)}, "collect")])

Group(m) == <<"group", m>>

Firewall ==
    ForEach([m \in {"mgmt"} \cup Mission(n) |-> Req("ensure", Group(m), {o("manager")}, "collect")])
    \o (IF policy("shared") \in objs THEN <<>> ELSE One("ensure", service, {o("manager")}, "ignore"))
    \o [i \in DOMAIN Policies |->
            Req("ensure", policy(Policies[i]), {Group(m) : m \in {"mgmt"} \cup Mission(n)}, "collect")]

Requests(s) ==
    CASE s = "vcsa_deploy" -> VcsaDeploy [] s = "cluster" -> Cluster [] s = "vds" -> Vds
      [] s = "storage" -> Storage [] s = "ha_drs" -> HaDrs [] s = "content_library" -> ContentLibrary
      [] s = "manager" -> Manager [] s = "transport" -> Transport [] s = "host_tnp" -> HostTnp
      [] s = "edge" -> Edge [] s = "tier0" -> Tier0 [] s = "tier1" -> Tier1
      [] s = "segments" -> Segments [] s = "firewall" -> Firewall
-----------------------------------------------------------------------------
(* What a DFW policy was made with. *)
Rule(seq, src, dst, svc, action) == [seq |-> seq, src |-> src, dst |-> dst, svc |-> svc, action |-> action]
Services == {"known", "other"}

(* The fallback of the shared services allows their ports to any address.  *)
SharedRules(s) ==
    {Rule(100, Mission(s.n), IF known THEN {"server"} ELSE {"server", "mgmt"} \cup Range(Missions),
          IF s.wide THEN Services ELSE {"known"}, "ALLOW")}

IntraRules(s) == {Rule(200, {m}, {m}, Services, "ALLOW") : m \in Mission(s.n)}

CrossRules_OneWay(s) ==
    {Rule(300, {Missions[p[1]]}, {Missions[p[2]]}, Services, "DROP") :
        p \in {x \in (1 .. s.n) \X (1 .. s.n) : x[1] < x[2]}}

CrossRules(s) ==
    {Rule(300, {p[1]}, {p[2]}, Services, "DROP") : p \in {x \in Mission(s.n) \X Mission(s.n) : x[1] # x[2]}}

ToMgmtRules(s) == {Rule(400, Mission(s.n), {"mgmt", "server"}, Services, "DROP")}
MgmtRules(s) == {Rule(500, {"mgmt", "server"}, {"mgmt", "server"} \cup Range(Missions), Services, "ALLOW")}

Rules ==
    UNION {LET s == scope[p] IN
           CASE p = "shared" -> SharedRules(s) [] p = "intra" -> IntraRules(s) [] p = "cross" -> CrossRules(s)
             [] p = "m2m" -> ToMgmtRules(s) [] p = "mgmt" -> MgmtRules(s) : p \in DOMAIN scope}

(* The first rule that matches decides; without one NSX allows. *)
Verdict(src, dst, svc) ==
    LET hits == {r \in Rules : src \in r.src /\ dst \in r.dst /\ svc \in r.svc} IN
    IF hits = {} THEN "ALLOW" ELSE (CHOOSE r \in hits : \A q \in hits : r.seq <= q.seq).action
-----------------------------------------------------------------------------
(* A run of everything, or of everything behind the appliance.             *)
Full == command # "none" /\ start \in {1, 2}

(* The phase is recorded, dry run or not; a dry run sends nothing.         *)
Start(c, i, k, dry) ==
    /\ command = "none" /\ runs < MaxRuns /\ runs' = runs + 1
    /\ command' = c /\ start' = (IF dry THEN 0 ELSE i) /\ n' = k
    /\ steps' = IF dry THEN <<>> ELSE SubSeq(Steps[c], i, Len(Steps[c]))
    /\ phase' = c /\ todo' = <<>> /\ okay' = TRUE /\ wide' = FALSE /\ failed' = {} /\ edgeless' = {} /\ faults' = 0
    /\ UNCHANGED <<objs, scope, config, accident>>

RunStep ==
    /\ command # "none" /\ todo = <<>> /\ okay /\ steps # <<>>
    /\ todo' = Requests(Head(steps)) /\ steps' = Tail(steps) /\ wide' = FALSE
    /\ UNCHANGED <<objs, scope, phase, setting, okay, failed, edgeless, faults, accident>>

R == todo[1]
Nsx(x) == x[1] \notin {"vcsa", "dc", "cluster", "host", "vds", "member", "pg", "ports", "vsan", "disks", "ha", "drs",
                       "vmk", "vmotion", "library", "item", "content", "published", "manager"}

(* What is left out, next in the step, when an object was not made in this *)
(* run.                                                                    *)
Depends(x) ==
    CASE x = item -> {content, published} [] x = content -> {published} [] x[1] = "vmk" -> {vmotion(x[2])}
      [] OTHER -> {}
Without(s, left) == IF s # <<>> /\ s[1].obj \in left THEN Tail(s) ELSE s
Rest == Without(Without(Tail(todo), Depends(R.obj)), Depends(R.obj))

Present == R.op = "ensure" /\ R.obj \in objs
CanDo == R.needs \subseteq objs /\ (R.op \in {"install", "create"} => R.obj \notin objs)

(* The body of a PATCH's answer is taken for its success, but for edges    *)
(* and services.                                                           *)
Acknowledged == ~(empty /\ Nsx(R.obj)) \/ R.obj[1] \in {"edge", "service"}

(* A gateway or locale service is made without an edge cluster when its    *)
(* lookup does not find one.                                               *)
Gateway(x) == x \in {o("tier0"), o("locale")} \/ x[1] = "tier1"

Make(found) ==
    /\ objs' = objs \cup {R.obj}
    /\ edgeless' = IF Gateway(R.obj) /\ ~found THEN edgeless \cup {R.obj} ELSE edgeless
    /\ scope' = IF R.obj[1] # "policy" THEN scope
                ELSE [p \in DOMAIN scope \cup {R.obj[2]} |->
                          IF p = R.obj[2] THEN [n |-> n, wide |-> wide] ELSE scope[p]]

Fail(on, rest) ==
    /\ todo' = IF on = "raise" THEN <<>> ELSE rest
    /\ okay' = (okay /\ on = "ignore")
    /\ wide' = (wide \/ R.obj = service)
    /\ failed' = failed \cup {R.obj}

Sent(found) ==
    /\ ~Present /\ CanDo /\ Make(found)
    /\ IF Acknowledged THEN todo' = Tail(todo) /\ UNCHANGED <<okay, wide, failed>> ELSE Fail(R.on, Tail(todo))

Request ==
    /\ todo # <<>>
    /\ \/ Present /\ todo' = Rest /\ UNCHANGED <<objs, scope, okay, wide, failed, edgeless>>
       \/ Sent(o("edge_cluster") \in objs)
       \/ ~Present /\ ~CanDo /\ Fail(R.on, Rest) /\ UNCHANGED <<objs, scope, edgeless>>
    /\ UNCHANGED <<phase, setting, steps, faults, accident>>

(* A lookup, a request or its answer is lost, a task fails or times out.   *)
(* An exception of vCenter ends the step where nothing catches it.         *)
Caught(x) == Nsx(x) \/ x[1] \in {"disks", "vmotion"}
RequestFails ==
    /\ todo # <<>> /\ faults < MaxFaults /\ faults' = faults + 1
    /\ Present => ~Caught(R.obj)
    /\ \E on \in {R.on} \cup (IF Caught(R.obj) THEN {} ELSE {"raise"}) : Fail(on, Rest)
    /\ \/ ~Present /\ CanDo /\ Make(o("edge_cluster") \in objs)
       \/ UNCHANGED <<objs, scope, edgeless>>
    /\ accident' = TRUE
    /\ UNCHANGED <<phase, setting, steps>>

(* The lookup of a gateway's edge cluster is lost: the gateway is made.    *)
LookupFails ==
    /\ todo # <<>> /\ faults < MaxFaults /\ faults' = faults + 1
    /\ Gateway(R.obj) /\ Sent(FALSE)
    /\ accident' = TRUE
    /\ UNCHANGED <<phase, setting, steps>>

(* The operator adds what no step makes; that stands for before its use.   *)
MadeByHand ==
    /\ command = "none" /\ ~(ByHand \subseteq objs) /\ objs' = objs \cup ByHand
    /\ UNCHANGED <<scope, phase, setting, steps, todo, okay, wide, failed, edgeless, faults, accident>>

End(p) ==
    /\ phase' = p /\ command' = "none" /\ steps' = <<>> /\ todo' = <<>>
    /\ UNCHANGED <<objs, scope, start, n, okay, wide, failed, edgeless, runs, faults, config>>

StepFails == command # "none" /\ todo = <<>> /\ ~okay /\ End("failed") /\ UNCHANGED accident

Done == command # "none" /\ todo = <<>> /\ okay /\ steps = <<>>
Complete == Done /\ End(command \o "_complete") /\ UNCHANGED accident

Killed == command # "none" /\ End(phase) /\ accident' = TRUE

Next ==
    \/ \E c \in DOMAIN Steps, k \in DOMAIN Missions, dry \in BOOLEAN :
           \E i \in DOMAIN Steps[c] : Start(c, i, k, dry)
    \/ RunStep \/ Request \/ RequestFails \/ LookupFails \/ MadeByHand \/ StepFails \/ Complete \/ Killed

Spec == Init /\ [][Next]_vars
-----------------------------------------------------------------------------
VcenterObjects ==
    {o(x) : x \in {"vcsa", "dc", "cluster", "vds", "vsan", "ha", "drs", "library"}} \cup {item, content, published}
    \cup (UNION {{host(h), member(h), o("pg"), vmk(h)} : h \in Hosts}) \cup {disks(h) : h \in Hosts \ Flash}
    \cup {ports(x) : x \in {"mgmt"} \cup Mission(n)}
    \cup (IF accident THEN {} ELSE {vmotion(h) : h \in Hosts})

VnetObjects ==
    {o(x) : x \in {"overlay", "vlan", "pool", "profile", "tnp", "applied", "edge_cluster", "tier0", "locale"}}
    \cup (IF linked THEN {o("uplink")} ELSE {})
    \cup (UNION {{edge(m), t1(m), segment(m), Group(m)} : m \in Mission(n)})
    \cup {policy(p) : p \in Range(Policies)}

(* What a command failed at and only logged, and no later step notices.    *)
Logged == {ports(x) : x \in {"mgmt"} \cup Mission(n)} \cup {published}

(* A command that ran from its first or second step and is complete has    *)
(* made all it was asked for, on the first attempt or a later one, but for *)
(* port groups and publications that this very run logged as failed: a     *)
(* vDS member or vMotion's port group it logged is found out by a later    *)
(* step.  And if this run lost nothing, each gateway it made has an edge   *)
(* cluster.  Two things are not claimed: vMotion on an adapter that an     *)
(* interrupted run added, and disk groups on hosts with SSDs only.         *)
CompleteMeansThere ==
    Done /\ Full =>
        /\ (IF command = "vcenter" THEN VcenterObjects ELSE VnetObjects) \subseteq objs \cup (failed \cap Logged)
        /\ faults = 0 => edgeless = {}

(* After a run of the firewall step the missions are isolated whatever was *)
(* lost and repaired before: own traffic and the shared services allowed,  *)
(* traffic to other missions and to management dropped, in the order the   *)
(* five policies have.  Excepted are policies that an earlier run made for *)
(* fewer missions, a service that could not be made (the rule then allows  *)
(* any), and the ports of the fallback.                                    *)
MissionsIsolated ==
    Done /\ command = "vnet" /\ start > 0
    /\ (\A p \in DOMAIN scope : scope[p].n >= n) /\ ~scope["shared"].wide =>
        \A a \in Mission(n) :
            /\ \A s \in Services : Verdict(a, a, s) = "ALLOW" /\ Verdict("mgmt", a, s) = "ALLOW"
            /\ Verdict(a, "server", "known") = "ALLOW" /\ Verdict(a, "mgmt", "other") = "DROP"
            /\ \A b \in Mission(n) \ {a} :
                   Verdict(a, b, "other") = "DROP" /\ (known => Verdict(a, b, "known") = "DROP")

(* What is refused as long as the operator has not made what no step makes.*)
HandUsers == {o("applied"), o("uplink")} \cup {edge(Missions[i]) : i \in DOMAIN Missions}
Appliance == IF command = "vcenter" THEN o("vcsa") ELSE o("manager")

(* A command that was cut off anywhere can be repeated, from the first step*)
(* or from the one behind the appliance: without a further fault nothing is*)
(* refused but an appliance or a library item that exists already, what    *)
(* stands on the operator's work while that is missing, and what NSX       *)
(* answers without a body.                                                 *)
RetrySucceeds ==
    Full /\ faults = 0 /\ (start = 2 => Appliance \in objs) =>
        failed \subseteq {x \in objs : x \in {o("vcsa"), o("manager"), item} \/ (empty /\ Nsx(x))}
                        \cup (IF ByHand \subseteq objs THEN {} ELSE HandUsers)
=============================================================================
