----------------------------- MODULE Preparation -----------------------------
(***************************************************************************)
(* The preparation of a build (dashboard/prepare.py with netbox/): a       *)
(* thread reads a node from NetBox, pulls the repository of templates and  *)
(* images, checks that it has every file the node needs, and replaces the  *)
(* inventory file, from which a deployment starts.  The operator stops it, *)
(* the server restarts, NetBox and the repository's origin are edited, and *)
(* a deployment begins, at any moment.                                     *)
(***************************************************************************)
EXTENDS Integers, Sequences, FiniteSets, Functions

CONSTANTS
    Nodes,         \* tags of kits
    Contents,      \* what NetBox may hold: for each node a set of device records
                   \* [name, serial, mapped (its role and platform are known), needs (files)]
    Origins,       \* the sets of files that the origin of the repository may have
    MaxPreparations, MaxEdits, MaxRestarts   \* bounds

VARIABLES
    netbox, origin,    \* one of Contents, one of Origins
    git,               \* the setting BMA_GIT_REPO_URL is there
    repo,              \* files of the local clone
    file,              \* the inventory file: node, specs by serial, completely written
    at,                \* the thread: its phase and what is next in it
    shown,             \* phase and node_tag of _prepare_state
    stop,              \* _prepare_stop
    listed, specs,     \* load_node: devices to map, specs by serial
    failed,            \* load_node: some device could not be mapped
    looked,            \* nodes whose start request found the other runners idle
    dep,               \* a deployment, what it read, and: no preparation since
    preparations, edits, restarts

settings == <<netbox, origin, git>>
data     == <<listed, specs, failed>>
budget   == <<preparations, edits, restarts>>
prepare_vars == <<settings, repo, file, at, shown, stop, data, looked, dep, budget>>

Phases == <<"connecting", "fetching_devices", "fetching_configs", "fetching_ipam",
            "mapping", "syncing_git", "verifying_files", "generating_yaml">>
Dead  == <<0, "dead">>
Empty == [s \in {} |-> 0]

PrepareInit ==
    /\ netbox \in Contents /\ origin \in Origins /\ git \in BOOLEAN
    /\ repo = {} /\ file = [node |-> "none", specs |-> Empty, whole |-> FALSE]
    /\ at = Dead /\ shown = [phase |-> "idle", node |-> "none"] /\ stop = FALSE
    /\ listed = {} /\ specs = Empty /\ failed = FALSE
    /\ looked = {} /\ dep = [on |-> FALSE, read |-> Empty, calm |-> FALSE]
    /\ preparations = 0 /\ edits = 0 /\ restarts = 0
-----------------------------------------------------------------------------
(* Requests *)

(* start_prepare looks at the other runners before it takes its own lock. *)
LookAtOthers(n) ==
    /\ preparations < MaxPreparations /\ looked = {} /\ ~dep.on
    /\ looked' = {n}
    /\ UNCHANGED <<settings, repo, file, at, shown, stop, data, dep, budget>>

StartPrepare(n) ==
    /\ n \in looked /\ looked' = {}
    /\ IF at # Dead
         THEN UNCHANGED <<at, shown, stop, dep, preparations>>
         ELSE /\ at' = <<1, "enter">> /\ stop' = FALSE
              /\ shown' = [phase |-> "starting", node |-> n]
              /\ dep' = [dep EXCEPT !.calm = FALSE]
              /\ preparations' = preparations + 1
    /\ UNCHANGED <<settings, repo, file, data, edits, restarts>>

(* Under the lock, which the thread does not take. *)
StopPrepare ==
    /\ at # Dead /\ ~stop
    /\ stop' = TRUE /\ shown' = [shown EXCEPT !.phase = "cancelled"]
    /\ UNCHANGED <<settings, repo, file, at, data, looked, dep, budget>>

(* A deployment looks at the simulation and the rollback only; a file that *)
(* is being written is not YAML, or the beginning of the inventory.        *)
BeginDeployment ==
    /\ ~dep.on /\ file.node # "none"
    /\ \E S \in SUBSET DOMAIN file.specs :
         /\ file.whole => S = DOMAIN file.specs
         /\ dep' = [on |-> TRUE, read |-> Restrict(file.specs, S), calm |-> shown.phase = "complete"]
    /\ UNCHANGED <<settings, repo, file, at, shown, stop, data, looked, budget>>

EndDeployment ==
    /\ dep.on /\ dep' = [on |-> FALSE, read |-> Empty, calm |-> FALSE]
    /\ UNCHANGED <<settings, repo, file, at, shown, stop, data, looked, budget>>

(* Threads and module state are gone; the files stay. *)
RestartServer ==
    /\ restarts < MaxRestarts /\ restarts' = restarts + 1
    /\ at' = Dead /\ shown' = [phase |-> "idle", node |-> "none"] /\ stop' = FALSE
    /\ listed' = {} /\ specs' = Empty /\ failed' = FALSE
    /\ looked' = {} /\ dep' = [on |-> FALSE, read |-> Empty, calm |-> FALSE]
    /\ UNCHANGED <<settings, repo, file, preparations, edits>>

(* Somebody edits NetBox, or pushes to the repository. *)
Edit ==
    /\ edits < MaxEdits /\ edits' = edits + 1
    /\ \/ netbox' \in Contents \ {netbox} /\ UNCHANGED origin
       \/ origin' \in Origins \ {origin} /\ UNCHANGED netbox
    /\ UNCHANGED <<git, repo, file, at, shown, stop, data, looked, dep, preparations, restarts>>
-----------------------------------------------------------------------------
(* The thread: _run_prepare *)

In(p, s) == at[1] > 0 /\ Phases[at[1]] = p /\ at[2] = s
Then(s) == at' = <<at[1], s>> /\ UNCHANGED <<settings, stop, looked, dep, budget>>
Show(p) == shown' = [shown EXCEPT !.phase = p]

(* The first phase tests the stop event before its work as well. *)
EnterPhase ==
    /\ at[2] = "enter"
    /\ Show(Phases[at[1]])
    /\ Then(IF at[1] = 1 /\ stop THEN "over" ELSE "work")
    /\ UNCHANGED <<repo, file, data>>

TestStop ==
    /\ at[2] = "test"
    /\ IF stop THEN Then("over")
       ELSE at' = <<at[1] + 1, "enter">> /\ UNCHANGED <<settings, stop, looked, dep, budget>>
    /\ UNCHANGED <<shown, repo, file, data>>

Needs(f) == UNION {f[s].needs : s \in DOMAIN f}

(* Phases 3 and 4 do nothing that can fail, nor do 6 and 7 without a       *)
(* repository; 7 fails on a missing file.                                  *)
CanFail ==
    \/ at[2] = "work" /\ Phases[at[1]] \in {"connecting", "fetching_devices", "mapping", "generating_yaml"}
    \/ In("mapping", "map") /\ listed = {}
    \/ In("syncing_git", "work") /\ git
    \/ In("verifying_files", "work") /\ git /\ ~(Needs(specs) \subseteq repo)
    \/ at[2] = "dump"

PhaseFails_OwnErrorsOnly ==
    /\ CanFail
    /\ IF In("syncing_git", "work") THEN UNCHANGED shown ELSE Show("error")
    /\ Then("over") /\ UNCHANGED <<repo, file, data>>

(* A request or command that fails or times out; the clauses of the phases *)
(* and the outermost one report it alike.  A failed dump leaves its part.  *)
PhaseFails ==
    /\ CanFail
    /\ Show("error") /\ Then("over") /\ UNCHANGED <<repo, file, data>>

(* Connecting; phases 3 and 4, which only announce what load_node will do. *)
PlainPhase ==
    /\ at[2] = "work" /\ Phases[at[1]] \in {"connecting", "fetching_configs", "fetching_ipam"}
    /\ Then("test") /\ UNCHANGED <<shown, repo, file, data>>

(* get_devices_by_tag: no device with the tag is an error. *)
FetchDevices ==
    /\ In("fetching_devices", "work") /\ netbox[shown.node] # {}
    /\ Then("test") /\ UNCHANGED <<shown, repo, file, data>>

(* load_node asks for the devices again. *)
ListDevices ==
    /\ In("mapping", "work") /\ netbox[shown.node] # {}
    /\ listed' = netbox[shown.node] /\ specs' = Empty /\ failed' = FALSE
    /\ Then("map") /\ UNCHANGED <<shown, repo, file>>

(* map_device_to_spec, after the device's context has been read: a request *)
(* that may fail, as for a device that is no longer there.  A record with  *)
(* the serial of an earlier one takes its place.                           *)
MapDevice(d) ==
    /\ In("mapping", "map") /\ d \in listed /\ listed' = listed \ {d}
    /\ \/ failed' = TRUE /\ UNCHANGED specs
       \/ /\ d.mapped /\ d.serial # "none" /\ UNCHANGED failed
          /\ \E e \in netbox[shown.node] :
               /\ e.name = d.name
               /\ specs' = [s \in DOMAIN specs \cup {d.serial} |->
                              IF s = d.serial THEN [name |-> d.name, needs |-> e.needs] ELSE specs[s]]
    /\ Then("map") /\ UNCHANGED <<shown, repo, file>>

(* Any device that could not be mapped fails the whole node (PhaseFails). *)
NodeLoaded ==
    /\ In("mapping", "map") /\ listed = {} /\ ~failed
    /\ Then("test") /\ UNCHANGED <<shown, repo, file, data>>

(* GitRepoManager.sync *)
SyncRepo ==
    /\ In("syncing_git", "work")
    /\ repo' = IF git THEN origin ELSE repo
    /\ Then("test") /\ UNCHANGED <<shown, file, data>>

VerifyFiles_FirstDevice ==
    /\ In("verifying_files", "work")
    /\ git => \E s \in DOMAIN specs : specs[s].needs \subseteq repo
    /\ Then("test") /\ UNCHANGED <<shown, repo, file, data>>

(* GitRepoManager.verify_files; a missing file is an error (PhaseFails). *)
VerifyFiles ==
    /\ In("verifying_files", "work")
    /\ git => Needs(specs) \subseteq repo
    /\ Then("test") /\ UNCHANGED <<shown, repo, file, data>>

(* save_inventory_yaml opens the file for writing, which empties it ... *)
OpenFile ==
    /\ In("generating_yaml", "work")
    /\ file' = [node |-> shown.node, specs |-> specs, whole |-> FALSE]
    /\ Then("dump") /\ UNCHANGED <<shown, repo, data>>

(* ... and dumps the inventory into it. *)
DumpInventory ==
    /\ In("generating_yaml", "dump")
    /\ file' = [file EXCEPT !.whole = TRUE]
    /\ Then("complete") /\ UNCHANGED <<shown, repo, data>>

Complete ==
    /\ at[2] = "complete" /\ Show("complete")
    /\ Then("over") /\ UNCHANGED <<repo, file, data>>

(* Locals are gone with the thread. *)
ThreadEnds ==
    /\ at[2] = "over" /\ at' = Dead
    /\ listed' = {} /\ specs' = Empty /\ failed' = FALSE
    /\ UNCHANGED <<settings, repo, file, shown, stop, looked, dep, budget>>

RunPrepare ==
    \/ EnterPhase \/ TestStop \/ PhaseFails \/ PlainPhase \/ FetchDevices
    \/ ListDevices \/ (\E d \in listed : MapDevice(d)) \/ NodeLoaded
    \/ SyncRepo \/ VerifyFiles \/ OpenFile \/ DumpInventory \/ Complete \/ ThreadEnds

PrepareNext ==
    \/ \E n \in Nodes : LookAtOthers(n) \/ StartPrepare(n)
    \/ StopPrepare \/ BeginDeployment \/ EndDeployment \/ RestartServer \/ Edit
    \/ RunPrepare

PrepareSpec == PrepareInit /\ [][PrepareNext]_prepare_vars
-----------------------------------------------------------------------------
Deployable(f) == f # Empty /\ (git => Needs(f) \subseteq repo)

(* "Ready": as long as the status says complete, the inventory file is of  *)
(* the node it names, completely written, and every template and image it  *)
(* refers to is in the clone; and a deployment that began then still finds *)
(* them all, until another preparation starts.  Stops, failed dumps, pushes*)
(* and restarts at any moment leave no false "complete" behind.            *)
ReadyIsDeployable ==
    /\ shown.phase = "complete" =>
         file.whole /\ file.node = shown.node /\ Deployable(file.specs)
    /\ dep.on /\ dep.calm => dep.read = file.specs /\ Deployable(dep.read)

(* Every run leaves a final phase behind, unless it was asked to stop: then*)
(* its thread may have shown one more phase over "cancelled".              *)
PhaseSettles ==
    at = Dead => shown.phase \in {"idle", "complete", "error", "cancelled"} \/ stop
=============================================================================
