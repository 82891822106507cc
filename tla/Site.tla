-------------------------------- MODULE Site --------------------------------
(***************************************************************************)
(* A site in NetBox and the tools that write it (orchestrator/): the       *)
(* generator, the regenerator with its modes fix and rebuild, destroy_site *)
(* and the pipeline generate-or-fix, validate, export, package.  NetBox is *)
(* a set of objects, some of which cannot be made before, or deleted       *)
(* after, others; a tool is a sequence of requests.  Between and during    *)
(* the runs somebody edits NetBox and the template on disk is updated.     *)
(***************************************************************************)
EXTENDS Integers, Sequences, FiniteSets, SequencesExt

CONSTANTS
    Devices, New,      \* devices of the template; those its version <<1, 1>> has added
    Compute,           \* the compute nodes, members of the cluster
    Vlans,             \* VLANs, each with one prefix
    Cables, Ends,      \* Ends[c]: the devices of a cable
    MaxRuns, MaxFaults, MaxEdits   \* bounds: tools run, requests lost in one, edits by hand

Octets == {"default", "given"}
Versions == {<<1, 0>>, <<1, 1>>}

ASSUME SiteAssumption ==
    /\ IsFiniteSet(Devices) /\ IsFiniteSet(Vlans) /\ IsFiniteSet(Cables)
    /\ New \subseteq Devices /\ Compute \subseteq Devices
    /\ Ends \in [Cables -> (SUBSET Devices) \ {{}}]
    /\ MaxRuns \in Nat \ {0} /\ MaxFaults \in Nat /\ MaxEdits \in Nat

VARIABLES
    nb,          \* the objects in NetBox
    wrong,       \* devices whose model or platform is not the template's
    linked,      \* prefixes that name their VLAN
    field,       \* custom fields of the site: template_version and site_octet
    template,    \* version of the template on disk
    fresh,       \* the devices that the new version adds are of a new type
    tool, todo,  \* the tool that runs, and the requests left of it
    octet,       \* the octet it was called with
    known,       \* the devices that a fix has found or made
    stage,       \* of the pipeline: the next one
    outcome,     \* of the last run: "ok", "failed", "current", "outdated"
    runs, faults, edits,
    disturbed,   \* history: an edit during this run
    accident     \* history: an edit, a request lost, or a rebuild, ever

nb_vars == <<nb, wrong, linked, field>>
env_vars == <<template, fresh, edits>>
vars == <<nb_vars, env_vars, tool, todo, octet, known, stage, outcome, runs, faults, disturbed, accident>>

(* "type" stands for the manufacturer, type, role and platform of a device.*)
Type(d) == IF d \in New /\ ~fresh THEN <<"type", CHOOSE e \in Devices \ New : TRUE>> ELSE <<"type", d>>
Device(d) == <<"device", d>>
Vlan(v) == <<"vlan", v>>
Prefix(v, o) == <<"prefix", v, o>>
Iface(d, c) == <<"iface", d, c>>
Cable(c) == <<"cable", c>>
Member(d) == <<"member", d>>
site == <<"site">>
rack == <<"rack">>
group == <<"group">>
cluster == <<"cluster">>
custom_fields == <<"custom_fields">>

Init ==
    /\ nb = {} /\ wrong = {} /\ linked = {}
    /\ field = [version |-> <<1, 0>>, octet |-> "default"]
    /\ template = <<1, 0>> /\ fresh = FALSE
    /\ tool = "none" /\ todo = <<>> /\ octet = "default" /\ outcome = "none"
    /\ known = {} /\ stage = "validate"
    /\ runs = 0 /\ faults = 0 /\ edits = 0 /\ disturbed = FALSE /\ accident = FALSE
-----------------------------------------------------------------------------
(* NetBox: what an object cannot be made without.  A device is made with   *)
(* its face and position, which need a rack.                               *)
Parents(o) ==
    CASE o[1] \in {"rack", "group", "cluster"} -> {site}
      [] o[1] = "vlan"   -> {site}
      [] o[1] = "prefix" -> {site}
      [] o[1] = "device" -> {site, rack, Type(o[2])}
      [] o[1] = "iface"  -> {Device(o[2])}
      [] o[1] = "cable"  -> {Iface(d, o[2]) : d \in Ends[o[2]]}
      [] o[1] = "member" -> {cluster, Device(o[2])}
      [] OTHER -> {}

(* What goes with an object: a device's interfaces, cables and membership; *)
(* a site's VLAN group, prefixes and cluster.                              *)
Cascade(o) ==
    CASE o[1] = "device"  -> {p \in nb : p[1] \in {"iface", "member"} /\ p[2] = o[2]}
                             \cup {p \in nb : p[1] = "cable" /\ o[2] \in Ends[p[2]]}
      [] o[1] = "iface"   -> {p \in nb : p[1] = "cable" /\ p[2] = o[3]}
      [] o[1] = "cluster" -> {p \in nb : p[1] = "member"}
      [] o[1] = "site"    -> {p \in nb : p[1] \in {"group", "prefix", "cluster", "member"}}
      [] OTHER -> {}

(* A VLAN is protected by the prefixes that name it, the VLAN group by its *)
(* VLANs, a type and the rack by their devices, the site by its devices,   *)
(* rack and VLANs.                                                         *)
Protected(o) ==
    \/ o[1] = "vlan" /\ \E p \in linked : p[2] = o[2]
    \/ o = group /\ \E v \in Vlans : Vlan(v) \in nb
    \/ o = rack /\ \E d \in Devices : Device(d) \in nb
    \/ o[1] = "type" /\ \E d \in Devices : Type(d) = o /\ Device(d) \in nb
    \/ o = site /\ \E p \in nb : p[1] \in {"device", "rack", "vlan"}

(* What the template asks for in a version. *)
Template(v) == IF v = <<1, 0>> THEN Devices \ New ELSE Devices
CablesOf(v) == {c \in Cables : Ends[c] \subseteq Template(v)}

(* The prefixes of all VLANs, with the given octet. *)
PrefixesOf(o) == {Prefix(v, o) : v \in Vlans}
-----------------------------------------------------------------------------
(* The tools' requests, in order *)

Each(op, S) == [i \in 1 .. Cardinality(S) |-> [op |-> op, obj |-> SetToSeq(S)[i]]]
One(op, o) == <<[op |-> op, obj |-> o]>>

EnsureCustomFields == One("ensure", custom_fields)
EnsureTypes == Each("ensure", {Type(d) : d \in Template(template)})
CreateSite == One("create", site)
CreateRack == One("ensure", rack)
CreateVlans == One("ensure", group) \o Each("ensure", {Vlan(v) : v \in Vlans})
CreatePrefixes(o) == Each("ensure", PrefixesOf(o))
CreateDevices == Each("ensure", {Device(d) : d \in Template(template)})
CreateInterfaces == Each("ensure", UNION {{Iface(d, c) : d \in Ends[c]} : c \in CablesOf(template)})
CreateCables == Each("ensure", {Cable(c) : c \in CablesOf(template)})
CreateCluster == One("ensure", cluster) \o Each("ensure", {Member(d) : d \in Compute \cap Template(template)})

Generate(o) ==
    EnsureCustomFields \o EnsureTypes \o CreateSite \o CreateRack \o CreateVlans \o CreatePrefixes(o)
    \o CreateDevices \o CreateInterfaces \o CreateCables \o CreateCluster

(* Drift, class by class.  Prefixes are looked for with the template's     *)
(* octet, whatever octet the site was made with; the rack and the VLAN     *)
(* group are not looked for, and of a cable one end only.                  *)
DiffVersion == IF field.version # template THEN One("version", site) ELSE <<>>
DiffDevices == Each("fix", {Device(d) : d \in Template(template)} \ nb)
               \o Each("noop", {Device(d) : d \in wrong})
DiffVlans_None == <<>>
DiffVlans == Each("fix", {Vlan(v) : v \in Vlans} \ nb)
DiffPrefixes == Each("fix", PrefixesOf("default") \ nb)
DiffCables == Each("fix", {Cable(c) : c \in CablesOf(template)} \ nb)
DiffCluster ==
    IF cluster \in nb THEN <<>>
    ELSE One("fix", cluster) \o Each("fix", {Member(d) : d \in Compute \cap Template(template)})

Drift_CablesFirst == DiffVersion \o DiffCables \o DiffDevices \o DiffVlans \o DiffPrefixes \o DiffCluster
Drift == DiffVersion \o DiffDevices \o DiffVlans \o DiffPrefixes \o DiffCables \o DiffCluster

Fix == IF Drift = <<>> THEN <<>> ELSE Drift \o One("sync", site)

Kinds(ks) == {o \in nb : o[1] \in ks}

DeleteSite ==
    Each("delete", Kinds({"cable"})) \o Each("delete", Kinds({"device"})) \o Each("delete", Kinds({"vlan"}))
    \o Each("delete", Kinds({"prefix"})) \o Each("delete", Kinds({"cluster"})) \o One("delete", site)

Rebuild == DeleteSite \o Generate("default")

Destroy_VlansFirst ==
    Each("try", Kinds({"cable"})) \o Each("try", Kinds({"iface"})) \o Each("try", Kinds({"device"}))
    \o Each("try", Kinds({"vlan"})) \o Each("try", Kinds({"prefix"}))
    \o Each("try", Kinds({"group", "rack", "cluster"})) \o One("delete", site)

Destroy ==
    Each("try", Kinds({"cable"})) \o Each("try", Kinds({"iface"})) \o Each("try", Kinds({"device"}))
    \o Each("try", Kinds({"prefix"})) \o Each("try", Kinds({"vlan"}))
    \o Each("try", Kinds({"group", "rack", "cluster"})) \o One("delete", site)

(* The validator's errors: it knows the site's octet, but neither rack nor *)
(* VLAN group, and a cluster without its members is a warning.             *)
ValidateDevices == ({Device(d) : d \in Template(template)} \ nb) \cup {<<"wrong", d>> : d \in wrong}
ValidateVlans == {Vlan(v) : v \in Vlans} \ nb
ValidatePrefixes == PrefixesOf(field.octet) \ nb
ValidateCables == {Cable(c) : c \in CablesOf(template)} \ nb
ValidateCluster == {cluster} \ nb

Errors ==
    IF site \notin nb THEN {site}
    ELSE ValidateDevices \cup ValidateVlans \cup ValidatePrefixes \cup ValidateCables \cup ValidateCluster

(* fleet_scan compares versions, the major number first. *)
Outdated_MajorOnly == field.version[1] < template[1]
Outdated == field.version[1] < template[1]
            \/ (field.version[1] = template[1] /\ field.version[2] < template[2])
-----------------------------------------------------------------------------
(* A tool's run *)

Tools == {"generate", "fix", "rebuild", "destroy", "pipeline", "scan"}

Stop(result) ==
    /\ tool' = "none" /\ todo' = <<>> /\ outcome' = result
    /\ known' = {} /\ stage' = "validate"
    /\ UNCHANGED <<nb_vars, env_vars, octet, runs, faults, disturbed>>

(* A site that exists is not generated again; the others need it to exist. *)
(* The pipeline does the one or the other.                                 *)
Start(t) ==
    /\ tool = "none" /\ runs < MaxRuns /\ runs' = runs + 1
    /\ octet' \in Octets
    /\ tool' = t /\ faults' = 0 /\ disturbed' = FALSE
    /\ todo' = CASE t = "generate" -> IF site \in nb THEN <<>> ELSE Generate(octet')
                 [] t = "pipeline" -> IF site \in nb THEN Fix ELSE Generate(octet')
                 [] t = "fix"      -> IF site \in nb THEN Fix ELSE <<>>
                 [] t = "rebuild"  -> IF site \in nb THEN Rebuild ELSE <<>>
                 [] t = "destroy"  -> IF site \in nb THEN Destroy ELSE <<>>
                 [] t = "scan"     -> <<>>
    /\ known' = IF t \in {"fix", "pipeline"} THEN {d \in Devices : Device(d) \in nb} ELSE {}
    /\ outcome' = "none" /\ stage' = "validate"
    /\ accident' = (accident \/ t = "rebuild")
    /\ UNCHANGED <<nb_vars, env_vars>>

Op == todo[1].op
Obj == todo[1].obj

(* What a request makes.  fix makes the interfaces of a cable as it needs  *)
(* them, but neither these nor the membership of a device that it does not *)
(* know, and then not the cable.                                           *)
MadeByFix(o) ==
    CASE o[1] = "cable"  -> {Iface(d, o[2]) : d \in Ends[o[2]] \cap known}
                            \cup {p \in {o} : Ends[o[2]] \subseteq known}
      [] o[1] = "member" -> {p \in {o} : o[2] \in known}
      [] OTHER -> {o}
Made(o) == IF Op = "fix" THEN MadeByFix(o) ELSE {o}

CanDo ==
    CASE Op \in {"sync", "version"} -> Obj \in nb
      [] Op = "ensure" -> Obj \in nb \/ Parents(Obj) \subseteq nb
      [] Op = "create" -> Obj \notin nb
      [] Op = "fix" -> Obj \notin nb /\ \A p \in Made(Obj) : Parents(p) \subseteq nb \cup Made(Obj)
      [] Op \in {"delete", "try"} -> Obj \in nb /\ ~Protected(Obj)
      [] Op = "noop" -> TRUE

(* The generator's prefixes name their VLAN, those of fix do not. *)
NowLinked == {p \in {Obj} : Op = "ensure" /\ p[1] = "prefix" /\ Vlan(p[2]) \in nb}

Do ==
    /\ nb' = CASE Op \in {"ensure", "create", "fix"} -> nb \cup Made(Obj)
               [] Op \in {"delete", "try"} -> nb \ ({Obj} \cup Cascade(Obj))
               [] OTHER -> nb
    /\ wrong' = {d \in wrong : Device(d) \in nb'}
    /\ linked' = (linked \cup NowLinked) \cap nb'
    /\ field' = CASE Op = "create" /\ Obj = site ->
                       [version |-> template, octet |-> IF tool = "rebuild" THEN "default" ELSE octet]
                  [] Op = "version" -> [field EXCEPT !.version = template]
                  [] OTHER -> field

(* Nothing, or some of the interfaces of a cable that fix does not make. *)
DoPart ==
    /\ \E S \in SUBSET {p \in Made(Obj) : p[1] = "iface" /\ Parents(p) \subseteq nb} :
          nb' = nb \cup (IF Op = "fix" THEN S ELSE {})
    /\ UNCHANGED <<wrong, linked, field>>

(* fix and destroy_site go on after an error, but for their last request.  *)
(* The cluster and its members are one item of a fix, the last one.        *)
Rest == IF Op = "fix" /\ Obj[1] \in {"cluster", "member"} THEN <<todo[Len(todo)]>> ELSE Tail(todo)

GoOn ==
    IF Op \in {"fix", "version", "noop", "try"}
    THEN todo' = Rest /\ UNCHANGED outcome
    ELSE todo' = <<>> /\ outcome' = "failed"

Request ==
    /\ tool # "none" /\ todo # <<>>
    /\ IF CanDo
       THEN /\ Do /\ todo' = Tail(todo)
            /\ known' = known \cup {d \in Devices : Op = "fix" /\ Obj = Device(d)}
            /\ UNCHANGED outcome
       ELSE GoOn /\ DoPart /\ UNCHANGED known
    /\ UNCHANGED <<env_vars, tool, octet, stage, runs, faults, disturbed, accident>>

(* An error of the network or of NetBox, with or without effect. *)
RequestFails ==
    /\ tool # "none" /\ todo # <<>> /\ faults < MaxFaults /\ faults' = faults + 1
    /\ (CanDo /\ Do) \/ DoPart
    /\ GoOn
    /\ accident' = TRUE
    /\ UNCHANGED <<env_vars, tool, octet, known, stage, runs, disturbed>>

(* The tool is killed between two requests, or fails in one that only reads.*)
Kill ==
    /\ tool # "none" /\ outcome # "failed"
    /\ Stop("failed")
    /\ accident' = (accident \/ todo # <<>>)

Over == tool # "none" /\ todo = <<>> /\ outcome # "failed"

Abort ==
    /\ tool # "none" /\ outcome = "failed"
    /\ Stop("failed")
    /\ UNCHANGED accident

(* What a run without requests left returns. *)
Finish ==
    /\ Over /\ tool \in {"generate", "fix", "rebuild", "destroy"}
    /\ Stop(IF tool \in {"fix", "rebuild"} /\ site \notin nb THEN "failed" ELSE "ok")
    /\ UNCHANGED accident

Scan ==
    /\ Over /\ tool = "scan"
    /\ Stop(IF site \in nb /\ Outdated THEN "outdated" ELSE "current")
    /\ UNCHANGED accident

(* The stages of the pipeline that follow; each reads NetBox for itself. *)
Validate ==
    /\ Over /\ tool = "pipeline" /\ stage = "validate"
    /\ IF Errors = {}
       THEN stage' = "export" /\ UNCHANGED <<nb_vars, env_vars, tool, todo, octet, known, outcome, runs, faults, disturbed>>
       ELSE Stop("failed")
    /\ UNCHANGED accident

Export ==
    /\ Over /\ tool = "pipeline" /\ stage = "export"
    /\ stage' = "package"
    /\ UNCHANGED <<nb_vars, env_vars, tool, todo, octet, known, outcome, runs, faults, disturbed, accident>>

Package ==
    /\ Over /\ tool = "pipeline" /\ stage = "package"
    /\ Stop("ok")
    /\ UNCHANGED accident
-----------------------------------------------------------------------------
(* Somebody deletes an object in NetBox, or changes a device's model. *)
Edit ==
    /\ site \in nb /\ edits < MaxEdits /\ edits' = edits + 1
    /\ \/ \E o \in nb \ {site, custom_fields} :
              /\ ~Protected(o)
              /\ nb' = nb \ ({o} \cup Cascade(o))
              /\ wrong' = {d \in wrong : Device(d) \in nb'}
              /\ linked' = linked \cap nb'
       \/ \E d \in Devices \ wrong : Device(d) \in nb /\ wrong' = wrong \cup {d} /\ UNCHANGED <<nb, linked>>
    /\ disturbed' = (disturbed \/ tool # "none") /\ accident' = TRUE
    /\ UNCHANGED <<field, template, fresh, tool, todo, octet, known, stage, outcome, runs, faults>>

UpdateTemplate ==
    /\ tool = "none" /\ template = <<1, 0>> /\ template' = <<1, 1>> /\ fresh' \in BOOLEAN
    /\ outcome' = "none"
    /\ UNCHANGED <<nb_vars, edits, tool, todo, octet, known, stage, runs, faults, disturbed, accident>>
-----------------------------------------------------------------------------
Next ==
    \/ \E t \in Tools : Start(t)
    \/ Request \/ RequestFails \/ Kill \/ Abort \/ Finish \/ Scan \/ Validate \/ Export \/ Package
    \/ Edit \/ UpdateTemplate

Spec == Init /\ [][Next]_vars
-----------------------------------------------------------------------------
TypesExist == {Type(d) : d \in Template(template)} \subseteq nb
Quiet == faults = 0 /\ ~disturbed

(* One undisturbed fix is enough: no drift is left that it could repair,   *)
(* because what a repair needs is repaired before it.  Wrong models are    *)
(* reported as fixed and are not; the rack, which no device can be made    *)
(* without, and the catalogue objects of a device that the template has    *)
(* added are not made.                                                     *)
FixConverges ==
    tool = "fix" /\ todo = <<>> /\ site \in nb /\ Quiet /\ TypesExist /\ rack \in nb =>
        \A i \in DOMAIN Drift : Drift[i].op = "noop"

(* The pipeline recovers from a generator, fix, rebuild or destroy_site    *)
(* that an error or a kill has cut off: run again, without a fault, it     *)
(* leaves nothing for the validator to complain of.  It cannot where the   *)
(* site has lost its rack or was cut off before it, where a model is wrong *)
(* or a type is missing, or with an octet that is not the template's.      *)
PipelineRecovers ==
    tool = "pipeline" /\ todo = <<>> /\ Quiet /\ TypesExist /\ rack \in nb /\ wrong = {} =>
        Errors \subseteq PrefixesOf("given")

(* destroy_site without a fault removes the site and all that belongs to   *)
(* it, in whatever state it is, because it deletes what protects before    *)
(* what is protected.                                                      *)
DestroySucceeds ==
    tool = "destroy" /\ todo = <<>> /\ Quiet => \A o \in nb : o[1] \in {"type", "custom_fields"}

(* A site that fleet_scan calls current validates, unless something was    *)
(* edited by hand, a request was lost, or a rebuild was tried: that one    *)
(* fails at the first VLAN with a prefix, the devices already deleted.     *)
(* A device that the template has added stays missing, because fix does not*)
(* make its type, but raises the version all the same.                     *)
CurrentMeansValid == outcome = "current" /\ site \in nb /\ ~accident /\ TypesExist => Errors = {}
=============================================================================
