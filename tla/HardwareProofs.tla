--------------------------- MODULE HardwareProofs ---------------------------
(***************************************************************************)
(* Proofs about what is done to the hardware.                              *)
(*                                                                         *)
(* The four invariants of Firmware hold for any number of devices, any     *)
(* catalogue and any number of lost sessions.                              *)
(*                                                                         *)
(* Those of Provisioning hold for every entry of the inventory and any     *)
(* number of calls and of lost requests.  ProvisioningInv is inductive.    *)
(* PlanInv says which requests may be left, which of them a failure may    *)
(* pass over, and how they are ordered.  WorkInv says that what a request  *)
(* was for has been brought about, and not been undone, when the request   *)
(* is no longer among those left.                                          *)
(***************************************************************************)
EXTENDS Firmware, Provisioning, TLAPS


Image == {"good", "bad", "absent"}

Conf == [text: {"field", "altered"}, scp: BOOLEAN, boot: 0..2, spare: 0..2]

Box == [runs: Versions, up: BOOLEAN, reloading: BOOLEAN, flash: [Versions -> Image],
        running: Conf, saved: Conf]

Labels == {"resolve", "snapshot", "upgrade", "transfer", "md5", "boot", "write", "reload",
           "wait", "verify", "reconnect", "reapply", "post", "done"}

TypeInv ==
    /\ catalog \in [Versions -> Entry] /\ shipped \in [Devices -> Versions]
    /\ hw \in [Devices -> Box]
    /\ cur \in Devices /\ pc \in Labels /\ job \in {"test", "rollback"}
    /\ previous \in Versions \cup {Unknown} /\ snapshot \in Conf
    /\ job = "rollback" => previous \in Versions /\ pc \notin {"resolve", "snapshot"}

(* A device that answers and is not about to restart. *)
Still(b) == b.up /\ ~b.reloading

(* As it was before the tests, as far as its version goes. *)
Boots(b, v) == b.running.boot = v /\ b.saved.boot = v

Calm(b) == Still(b) /\ b.runs = 1 /\ Boots(b, 1)

(* The device under test: what is installed, and that it runs only after   *)
(* the restart that the upgrade asked for.                                 *)
CurInv ==
    LET b == hw[cur] IN
    shipped[cur] = 1 /\ pc # "done" =>
        /\ pc \in {"resolve", "snapshot"} => Calm(b)
        /\ pc \notin {"resolve", "snapshot"} => previous # 2 /\ snapshot.boot = 1
        /\ job = "rollback" => previous = 1 /\ cur \in Known
        /\ pc \in {"upgrade", "transfer", "md5", "boot", "write", "reload"} =>
              Still(b) /\ b.runs # Goal
        /\ pc \in {"transfer", "md5", "boot", "write", "reload", "wait", "verify",
                   "reapply", "post"} => cur \in Known
        /\ pc = "write" => b.running.boot = Goal
        /\ pc \in {"reload", "wait", "verify", "reapply"} => Boots(b, Goal)
        /\ pc = "post" /\ cur \notin Replacing => Boots(b, Goal)
        /\ pc \in {"wait", "verify"} => (b.runs = Goal => Still(b)) /\ (b.up \/ ~b.reloading)
        /\ pc \in {"reapply", "post"} => Still(b) /\ b.runs = Goal
        /\ pc = "post" => job = "test"
        /\ pc = "reconnect" =>
              /\ Still(b)
              /\ IF cur \in Known THEN b.runs = Goal /\ Boots(b, Goal) ELSE b.runs = 1

(* The devices that are not under test and have not passed. *)
RestInv ==
    /\ \A d \in Devices : shipped[d] = 1 /\ d # cur /\ outcome[d] # "passed" => Calm(hw[d])
    /\ \A d \in Devices : d > cur => outcome[d] # "passed"

IInv == TypeInv /\ CurInv /\ RestInv

(* Only the device under test changes. *)
Only(d) == hw' \in [Devices -> Box] /\ \A e \in Devices \ {d} : hw'[e] = hw[e]

LEMMA CurFacts ==
    ASSUME TypeInv
    PROVE /\ cur \in Nat /\ hw[cur] \in Box /\ hw[cur].runs \in Versions
          /\ hw[cur].saved \in Conf /\ hw[cur].running \in Conf
          /\ hw[cur].up \in BOOLEAN /\ hw[cur].reloading \in BOOLEAN
          /\ shipped[cur] \in Versions /\ Goal \in Versions
BY FirmwareAssumption DEF TypeInv, Box, Goal, Versions, Unknown, Devices

(* Rest of the devices, when cur stays. *)
LEMMA Stays ==
    ASSUME IInv, Only(cur), UNCHANGED testVars, pc' \in Labels, CurInv',
           pc' \in {"resolve", "snapshot"} => job = "test"
    PROVE IInv'
<1>1. TypeInv'
  BY DEF IInv, TypeInv, Only, testVars
<1>2. RestInv'
  BY DEF IInv, RestInv, Only, testVars
<1> QED
  BY <1>1, <1>2 DEF IInv

(* A result: the next device is as calm as the ones that follow it. *)
LEMMA ResultIInv ==
    ASSUME IInv, Only(cur),
           NEW r \in {"failed", "error", "skipped", "passed", "rolled_back"}, Result(r),
           shipped[cur] = 1 /\ r \in {"skipped", "rolled_back"} => Calm(hw'[cur])
    PROVE IInv'
<1>1. /\ outcome' = [d \in Devices |->
             IF d = cur THEN r ELSE IF d > cur /\ r \in Skipping THEN "skipped" ELSE outcome[d]]
      /\ job' = "test" /\ previous' = Unknown /\ snapshot' = NoSnapshot
      /\ UNCHANGED <<catalog, shipped>>
  BY DEF Result
<1>2. Skipping = {"failed", "error"}
  BY DEF Skipping
<1>3. cur \in Nat /\ cur \in Devices
  BY CurFacts DEF IInv, TypeInv
<1>4. CASE r \in Skipping \/ cur = NumDevices
  <2>1. pc' = "done" /\ cur' = cur
    BY <1>4 DEF Result
  <2>2. TypeInv'
    BY <1>1, <2>1 DEF IInv, TypeInv, Only, Labels, Conf, NoSnapshot, Configured, NoImage
  <2>3. CurInv'
    BY <2>1 DEF CurInv
  <2>4. \A d \in Devices : shipped'[d] = 1 /\ d # cur' /\ outcome'[d] # "passed" => Calm(hw'[d])
    <3> SUFFICES ASSUME NEW d \in Devices, shipped[d] = 1, d # cur, outcome'[d] # "passed"
                 PROVE Calm(hw'[d])
      BY <1>1, <2>1
    <3>1. outcome[d] # "passed"
      BY <1>1, <1>3 DEF IInv, RestInv, Devices
    <3> QED
      BY <3>1 DEF IInv, RestInv, Only
  <2>5. \A d \in Devices : d > cur' => outcome'[d] # "passed"
    BY <1>1, <1>3, <2>1 DEF IInv, RestInv, Devices
  <2> QED
    BY <2>2, <2>3, <2>4, <2>5 DEF IInv, RestInv
<1>5. CASE ~(r \in Skipping \/ cur = NumDevices)
  <2>1. pc' = "resolve" /\ cur' = cur + 1
    BY <1>5 DEF Result
  <2>2. cur' \in Devices /\ cur' # cur
    BY <1>3, <1>5, <2>1, FirmwareAssumption DEF Devices
  <2>3. TypeInv'
    BY <1>1, <2>1, <2>2 DEF IInv, TypeInv, Only, Labels, Conf, NoSnapshot, Configured, NoImage
  <2>4. \A d \in Devices : d # cur => outcome'[d] = outcome[d]
    BY <1>1, <1>5
  <2>5. outcome[cur'] # "passed"
    BY <1>3, <2>1, <2>2 DEF IInv, RestInv
  <2>6. shipped[cur'] = 1 => Calm(hw'[cur'])
    BY <2>2, <2>5 DEF IInv, RestInv, Only
  <2>7. CurInv'
    BY <1>1, <2>1, <2>6 DEF CurInv
  <2>8. \A d \in Devices : shipped'[d] = 1 /\ d # cur' /\ outcome'[d] # "passed" => Calm(hw'[d])
    <3> SUFFICES ASSUME NEW d \in Devices, shipped[d] = 1, outcome'[d] # "passed"
                 PROVE Calm(hw'[d])
      BY <1>1
    <3>1. CASE d = cur
      BY <1>1, <1>2, <1>5, <3>1
    <3>2. CASE d # cur
      BY <2>4, <3>2 DEF IInv, RestInv, Only
    <3> QED
      BY <3>1, <3>2
  <2>9. \A d \in Devices : d > cur' => outcome'[d] # "passed"
    <3> SUFFICES ASSUME NEW d \in Devices, d > cur + 1 PROVE outcome'[d] # "passed"
      BY <2>1
    <3>1. d > cur /\ d # cur
      BY <1>3 DEF Devices
    <3> QED
      BY <2>4, <3>1 DEF IInv, RestInv
  <2> QED
    BY <2>3, <2>7, <2>8, <2>9 DEF IInv, RestInv
<1> QED
  BY <1>4, <1>5

(* A failed upgrade ends the run of the tests. *)
LEMMA FailedIInv ==
    ASSUME IInv, Only(cur), NEW s, Upgraded(FALSE, s)
    PROVE IInv'
<1>1. Result("failed")
  BY DEF Upgraded
<1> QED
  BY <1>1, ResultIInv

(* An upgrade that returned well. *)
LEMMA DoneIInv ==
    ASSUME IInv, NEW s, Upgraded(TRUE, s), UNCHANGED hw, pc # "done",
           shipped[cur] = 1 =>
              /\ Still(hw[cur]) /\ previous # 2 /\ snapshot.boot = 1
              /\ job = "rollback" => previous = 1 /\ cur \in Known
              /\ IF cur \in Known THEN hw[cur].runs = Goal /\ Boots(hw[cur], Goal)
                                  ELSE hw[cur].runs = 1
    PROVE IInv'
<1>1. pc' = "reconnect" /\ UNCHANGED testVars
  BY DEF Upgraded, Goto
<1>2. Goal' = Goal
  BY <1>1 DEF Goal, testVars
<1>3. CurInv'
  BY <1>1, <1>2 DEF CurInv, testVars
<1>4. Only(cur) /\ pc' \in Labels
  BY <1>1 DEF Only, IInv, TypeInv, Labels
<1> QED
  BY <1>1, <1>3, <1>4, Stays

(* The session ended, or the device was not asked to do anything. *)
LEMMA HwStays == ASSUME IInv, UNCHANGED hw PROVE Only(cur)
BY DEF Only, IInv, TypeInv

LEMMA InitIInv == FirmwareInit => IInv
<1> SUFFICES ASSUME FirmwareInit PROVE IInv
  OBVIOUS
<1>1. \A d \in Devices : AsShipped(shipped[d]) \in Box
  BY DEF FirmwareInit, AsShipped, Configured, NoImage, Box, Versions, Image, Conf
<1>2. TypeInv
  BY <1>1, FirmwareAssumption DEF FirmwareInit, TypeInv, Labels, Conf, NoSnapshot, Configured, NoImage, Devices
<1>3. \A d \in Devices : shipped[d] = 1 => Calm(hw[d])
  BY DEF FirmwareInit, Calm, Still, Boots, AsShipped, Configured
<1>4. CurInv
  BY <1>2, <1>3 DEF FirmwareInit, CurInv, TypeInv
<1>5. RestInv
  BY <1>3 DEF FirmwareInit, RestInv
<1> QED
  BY <1>2, <1>4, <1>5 DEF IInv

LEMMA BeginIInv == ASSUME IInv, Resolve \/ SnapshotFails \/ Snapshot PROVE IInv'
<1>1. /\ UNCHANGED hw /\ Only(cur) /\ pc \in {"resolve", "snapshot"}
      /\ job = "test" /\ (shipped[cur] = 1 => Calm(hw[cur]))
  BY HwStays DEF Resolve, SnapshotFails, Snapshot, IInv, TypeInv, CurInv
<1>2. CASE \E r \in {"skipped", "error"} : Result(r)
  BY <1>1, <1>2, ResultIInv
<1>3. CASE Resolve /\ Goto("snapshot")
  <2>1. CurInv'
    BY <1>1, <1>3 DEF CurInv, Goto, testVars
  <2> QED
    BY <1>1, <1>3, <2>1, Stays DEF Goto, Labels
<1>4. CASE Snapshot /\ pc' = "upgrade"
  <2>1. PICK current \in Reading : current # 2 /\ previous' = current /\ snapshot' = hw[cur].running
                                   /\ UNCHANGED <<catalog, shipped, outcome, cur, job>>
    BY <1>4 DEF Snapshot, Result
  <2>2. current \in Versions \cup {Unknown}
    BY <2>1, CurFacts DEF Reading, IInv
  <2>3. TypeInv'
    BY <1>1, <1>4, <2>1, <2>2, CurFacts DEF IInv, TypeInv, Labels, Box
  <2>4. RestInv'
    BY <1>1, <2>1 DEF IInv, RestInv
  <2>5. CurInv'
    BY <1>1, <1>4, <2>1 DEF CurInv, Calm, Boots, Goal
  <2> QED
    BY <2>3, <2>4, <2>5 DEF IInv
<1> QED
  BY <1>2, <1>3, <1>4 DEF Resolve, SnapshotFails, Snapshot

-----------------------------------------------------------------------------
(* upgrade_device *)

LEMMA NothingIInv == ASSUME IInv, NothingToInstall PROVE IInv'
<1>1. /\ pc = "upgrade" /\ cur \notin Known /\ UNCHANGED hw /\ Upgraded(TRUE, state[cur])
  BY DEF NothingToInstall
<1>2. shipped[cur] = 1 => /\ Still(hw[cur]) /\ previous # 2 /\ snapshot.boot = 1
                          /\ job # "rollback"
                          /\ hw[cur].runs # Goal
  BY <1>1 DEF IInv, CurInv
<1>3. job = "test" => Goal = 2
  BY DEF Goal
<1>4. job \in {"test", "rollback"} /\ hw[cur].runs \in {1, 2}
  BY CurFacts DEF IInv, TypeInv, Versions
<1> QED
  BY <1>1, <1>2, <1>3, <1>4, DoneIInv

LEMMA InspectIInv == ASSUME IInv, Inspect PROVE IInv'
<1>1. /\ pc = "upgrade" /\ cur \in Known /\ UNCHANGED hw /\ Only(cur)
  BY HwStays DEF Inspect
<1>2. shipped[cur] = 1 => /\ Still(hw[cur]) /\ previous # 2 /\ hw[cur].runs # Goal
                          /\ job = "rollback" => previous = 1
  BY <1>1 DEF IInv, CurInv
<1>3. PICK current \in Reading :
        IF current = Goal THEN Upgraded(TRUE, "upgraded") ELSE Goto("transfer")
  BY DEF Inspect
<1>4. CASE current = Goal
  <2>1. Goal # Unknown \/ shipped[cur] # 1
    BY <1>2, CurFacts DEF Goal, Unknown, IInv, TypeInv
  <2>2. shipped[cur] # 1
    BY <1>2, <1>4, <2>1 DEF Reading
  <2> QED
    BY <1>1, <1>3, <1>4, <2>2, DoneIInv
<1>5. CASE current # Goal
  <2>1. pc' = "transfer" /\ UNCHANGED testVars
    BY <1>3, <1>5 DEF Goto
  <2>2. Goal' = Goal
    BY <2>1 DEF Goal, testVars
  <2>3. CurInv'
    BY <1>1, <2>1, <2>2 DEF IInv, CurInv, testVars
  <2> QED
    BY <1>1, <2>1, <2>3, Stays DEF Labels
<1> QED
  BY <1>4, <1>5

(* A command that writes to the device under test, or asks for its reload. *)
LEMMA BoxWrites ==
    ASSUME TypeInv, NEW b \in Box, hw' = [hw EXCEPT ![cur] = b]
    PROVE Only(cur) /\ hw'[cur] = b
BY DEF TypeInv, Only

(* A boot line, and the lines that are taken away.                         *)
LEMMA BootLines ==
    ASSUME NEW c \in Conf, NEW v \in 0..2
    PROVE /\ BootLine(c, v) \in Conf /\ NoBootLines(c) \in Conf
          /\ BootLine(c, v).text = c.text /\ BootLine(c, v).boot \in {c.boot, v}
          /\ c.boot # 0 /\ cur \notin Replacing => BootLine(c, v).boot = c.boot
          /\ c.boot = 0 => BootLine(c, v).boot = v
          /\ NoBootLines(c).boot = 0
<1>1. /\ c \in Conf /\ c.boot \in 0..2
      /\ [c EXCEPT !.boot = v] \in Conf /\ [c EXCEPT !.boot = v].boot = v
      /\ [c EXCEPT !.boot = v].text = c.text
      /\ [c EXCEPT !.spare = v] \in Conf /\ [c EXCEPT !.spare = v].boot = c.boot
      /\ [c EXCEPT !.spare = v].text = c.text
  BY DEF Conf
<1>2. BootLine(c, v) = IF v = 0 \/ v = c.boot THEN c
                       ELSE IF c.boot = 0 \/ cur \in Replacing THEN [c EXCEPT !.boot = v]
                       ELSE [c EXCEPT !.spare = v]
  BY DEF BootLine, NoImage
<1>3. /\ BootLine(c, v) \in Conf
      /\ BootLine(c, v).text = c.text /\ BootLine(c, v).boot \in {c.boot, v}
      /\ c.boot # 0 /\ cur \notin Replacing => BootLine(c, v).boot = c.boot
      /\ c.boot = 0 => BootLine(c, v).boot = v
  BY <1>1, <1>2
<1>4. NoBootLines(c) \in Conf /\ NoBootLines(c).boot = 0
  <2> DEFINE first == [c EXCEPT !.boot = 0]
  <2>1. first \in Conf /\ first.boot = 0
    BY DEF Conf
  <2>2. NoBootLines(c) = [first EXCEPT !.spare = 0]
    BY DEF NoBootLines, NoImage
  <2> HIDE DEF first
  <2>3. [first EXCEPT !.spare = 0] \in Conf /\ [first EXCEPT !.spare = 0].boot = 0
    BY <2>1 DEF Conf
  <2> QED
    BY <2>2, <2>3
<1> QED
  BY <1>3, <1>4

(* The transfer leaves the version, the boot lines and what is saved alone. *)
SameBoot ==
    /\ hw'[cur].runs = hw[cur].runs /\ hw'[cur].up = hw[cur].up
    /\ hw'[cur].reloading = hw[cur].reloading
    /\ hw'[cur].running.boot = hw[cur].running.boot /\ hw'[cur].saved = hw[cur].saved

LEMMA TransferWrites ==
    ASSUME TypeInv, Transfer \/ TransferFails \/ ScpRaises
    PROVE /\ pc = "transfer" /\ Only(cur) /\ SameBoot
          /\ \A v \in Versions \ {Goal} : hw'[cur].flash[v] = hw[cur].flash[v]
          /\ hw[cur].flash[Goal] = catalog[Goal].file => hw'[cur].flash[Goal] = hw[cur].flash[Goal]
<1>1. /\ hw[cur] \in Box /\ cur \in Devices /\ Goal \in Versions
      /\ catalog[Goal].file \in Image /\ pc = "transfer"
  <2>1. catalog[Goal] \in Entry
    BY CurFacts DEF TypeInv
  <2> QED
    BY <2>1, CurFacts DEF TypeInv, Entry, Image, Transfer, TransferFails, ScpRaises
<1> DEFINE sent(i) == [hw[cur] EXCEPT !.running = [hw[cur].running EXCEPT !.scp = TRUE],
                                      !.flash = [hw[cur].flash EXCEPT ![Goal] = i]]
<1>2. ASSUME NEW i \in Image PROVE sent(i) \in Box
  BY <1>1 DEF Box, Conf
<1>3. UNCHANGED hw \/ \E i \in Image :
        /\ hw' = [hw EXCEPT ![cur] = sent(i)]
        /\ hw[cur].flash[Goal] = catalog[Goal].file => i = hw[cur].flash[Goal]
  <2>1. ScpServer(hw[cur]) = [hw[cur] EXCEPT !.running = [hw[cur].running EXCEPT !.scp = TRUE]]
    BY DEF ScpServer
  <2>2. ASSUME NEW i \in Image
        PROVE [ScpServer(hw[cur]) EXCEPT !.flash[Goal] = i] = sent(i)
    BY <1>1, <2>1 DEF Box
  <2>3. CASE Transfer
    <3>1. hw' = [hw EXCEPT ![cur] = [ScpServer(hw[cur]) EXCEPT !.flash[Goal] = catalog[Goal].file]]
      BY <2>3 DEF Transfer
    <3> QED
      BY <1>1, <2>2, <3>1
  <2>4. CASE TransferFails
    <3>1. PICK i \in IF hw[cur].flash[Goal] = catalog[Goal].file
                      THEN {catalog[Goal].file} ELSE {"absent", "bad"} :
             hw' = [hw EXCEPT ![cur] = [ScpServer(hw[cur]) EXCEPT !.flash[Goal] = i]]
      BY <2>4 DEF TransferFails
    <3>2. i \in Image
      BY <1>1 DEF Image
    <3> QED
      BY <2>2, <3>1, <3>2
  <2>5. CASE ScpRaises
    <3>1. hw[cur].flash[Goal] \in Image
      BY <1>1 DEF Box
    <3>2. sent(hw[cur].flash[Goal]) = ScpServer(hw[cur])
      BY <1>1, <2>1 DEF Box
    <3>3. UNCHANGED hw \/ hw' = [hw EXCEPT ![cur] = ScpServer(hw[cur])]
      BY <2>5 DEF ScpRaises
    <3> QED
      BY <3>1, <3>2, <3>3
  <2> QED
    BY <2>3, <2>4, <2>5
<1>4. CASE UNCHANGED hw
  BY <1>1, <1>4 DEF Only, TypeInv, SameBoot
<1>5. ASSUME NEW i \in Image, hw' = [hw EXCEPT ![cur] = sent(i)],
             hw[cur].flash[Goal] = catalog[Goal].file => i = hw[cur].flash[Goal]
      PROVE  /\ Only(cur) /\ SameBoot
             /\ \A v \in Versions \ {Goal} : hw'[cur].flash[v] = hw[cur].flash[v]
             /\ hw[cur].flash[Goal] = catalog[Goal].file => hw'[cur].flash[Goal] = hw[cur].flash[Goal]
  <2>1. Only(cur) /\ hw'[cur] = sent(i)
    BY <1>2, <1>5, BoxWrites
  <2>2. SameBoot
    BY <1>1, <2>1 DEF SameBoot, Box, Conf
  <2>3. hw'[cur].flash = [hw[cur].flash EXCEPT ![Goal] = i]
    BY <1>1, <2>1 DEF Box
  <2> QED
    BY <1>1, <1>5, <2>1, <2>2, <2>3 DEF Box
<1> QED
  BY <1>1, <1>3, <1>4, <1>5

LEMMA TransferIInv == ASSUME IInv, Transfer \/ TransferFails \/ ScpRaises PROVE IInv'
<1>1. pc = "transfer" /\ Only(cur) /\ SameBoot
  BY TransferWrites DEF IInv
<1>2. CASE TransferFails \/ ScpRaises
  BY <1>1, <1>2, FailedIInv DEF TransferFails, ScpRaises
<1>3. CASE Transfer
  <2>1. pc' \in {"md5", "boot"} /\ UNCHANGED testVars
    BY <1>3 DEF Transfer, Goto
  <2>2. Goal' = Goal
    BY <2>1 DEF Goal, testVars
  <2>3. CurInv'
    BY <1>1, <2>1, <2>2 DEF IInv, CurInv, SameBoot, testVars, Still
  <2> QED
    BY <1>1, <2>1, <2>3, Stays DEF Labels
<1> QED
  BY <1>2, <1>3

LEMMA VerifyMd5IInv == ASSUME IInv, VerifyMd5 PROVE IInv'
<1>1. pc = "md5" /\ UNCHANGED hw /\ Only(cur)
  BY HwStays DEF VerifyMd5
<1>2. CASE Goto("boot")
  <2>1. pc' = "boot" /\ UNCHANGED testVars
    BY <1>2 DEF Goto
  <2>2. Goal' = Goal
    BY <2>1 DEF Goal, testVars
  <2>3. CurInv'
    BY <1>1, <2>1, <2>2 DEF IInv, CurInv, testVars
  <2> QED
    BY <1>1, <2>1, <2>3, Stays DEF Labels
<1>3. CASE Upgraded(FALSE, "upgrading")
  BY <1>1, <1>3, FailedIInv
<1> QED
  BY <1>2, <1>3 DEF VerifyMd5

(* The commands of a set change the running configuration, "write memory"  *)
(* the saved one.                                                          *)
LEMMA BootWrites ==
    ASSUME TypeInv, SetBootVariable \/ BootRaises
    PROVE /\ pc = "boot" /\ Only(cur) /\ hw'[cur].runs = hw[cur].runs
          /\ Still(hw'[cur]) = Still(hw[cur]) /\ hw'[cur].flash = hw[cur].flash
          /\ hw'[cur].saved = hw[cur].saved
          /\ SetBootVariable => hw'[cur].running.boot = Goal
<1>1. pc = "boot" /\ hw[cur] \in Box /\ hw[cur].running \in Conf /\ Goal \in 0..2
  <2>1. hw[cur].running \in Conf /\ Goal \in {1, 2}
    BY CurFacts DEF Versions
  <2>2. hw[cur] \in Box /\ pc = "boot"
    BY DEF TypeInv, SetBootVariable, BootRaises
  <2> QED
    BY <2>1, <2>2
<1>2. /\ NoBootLines(hw[cur].running) \in Conf /\ NewBoot(hw[cur].running) \in Conf
      /\ NewBoot(hw[cur].running).boot = Goal
  BY <1>1, BootLines DEF NewBoot
<1>3. PICK c \in Conf : /\ hw' = [hw EXCEPT ![cur] = [hw[cur] EXCEPT !.running = c]]
                        /\ SetBootVariable => c.boot = Goal
  <2>1. CASE SetBootVariable
    <3>1. hw' = [hw EXCEPT ![cur] = [hw[cur] EXCEPT !.running = NewBoot(hw[cur].running)]]
      BY <2>1 DEF SetBootVariable
    <3> QED
      BY <1>2, <3>1
  <2>2. CASE BootRaises
    <3>1. PICK c \in {hw[cur].running, NoBootLines(hw[cur].running), NewBoot(hw[cur].running)} :
            hw' = [hw EXCEPT ![cur] = [hw[cur] EXCEPT !.running = c]]
      BY <2>2 DEF BootRaises
    <3>2. ~SetBootVariable \/ c.boot = Goal
      <4>1. SetBootVariable => c = NewBoot(hw[cur].running)
        <5>1. SetBootVariable => pc' = "write"
          BY DEF SetBootVariable, Goto
        <5>2. pc' # "write"
          BY <2>2 DEF BootRaises, Upgraded, Result
        <5> QED
          BY <5>1, <5>2
      <4> QED
        BY <1>2, <4>1
    <3> QED
      BY <1>1, <1>2, <3>1, <3>2
  <2> QED
    BY <2>1, <2>2
<1>4. [hw[cur] EXCEPT !.running = c] \in Box
  BY <1>1 DEF Box
<1>5. Only(cur) /\ hw'[cur] = [hw[cur] EXCEPT !.running = c]
  BY <1>3, <1>4, BoxWrites
<1> QED
  BY <1>1, <1>3, <1>5 DEF Box, Still

LEMMA MemoryWrites ==
    ASSUME TypeInv, WriteMemory \/ WriteRaises
    PROVE /\ pc = "write" /\ Only(cur) /\ hw'[cur].runs = hw[cur].runs
          /\ Still(hw'[cur]) = Still(hw[cur]) /\ hw'[cur].flash = hw[cur].flash
          /\ hw'[cur].running = hw[cur].running
          /\ hw'[cur].saved \in {hw[cur].saved, hw[cur].running}
          /\ WriteMemory => hw'[cur].saved = hw[cur].running
<1>1. pc = "write" /\ hw[cur] \in Box /\ hw[cur].running \in Conf /\ hw[cur].saved \in Conf
  BY CurFacts DEF WriteMemory, WriteRaises
<1>2. PICK c \in {hw[cur].saved, hw[cur].running} :
         /\ hw' = [hw EXCEPT ![cur] = [hw[cur] EXCEPT !.saved = c]]
         /\ WriteMemory => c = hw[cur].running
  <2>1. WriteMemory => hw' = [hw EXCEPT ![cur] = [hw[cur] EXCEPT !.saved = hw[cur].running]]
    BY DEF WriteMemory
  <2>2. WriteRaises => \E c \in {hw[cur].saved, hw[cur].running} :
                          hw' = [hw EXCEPT ![cur] = [hw[cur] EXCEPT !.saved = c]]
    BY DEF WriteRaises
  <2>3. ~(WriteMemory /\ WriteRaises)
    BY DEF WriteMemory, WriteRaises, Goto, Upgraded, Result
  <2> QED
    BY <2>1, <2>2, <2>3
<1>3. [hw[cur] EXCEPT !.saved = c] \in Box
  BY <1>1 DEF Box
<1>4. Only(cur) /\ hw'[cur] = [hw[cur] EXCEPT !.saved = c]
  BY <1>2, <1>3, BoxWrites
<1> QED
  BY <1>1, <1>2, <1>4 DEF Box, Still

LEMMA SetBootIInv == ASSUME IInv, SetBootVariable \/ BootRaises PROVE IInv'
<1>1. /\ pc = "boot" /\ Only(cur) /\ hw'[cur].runs = hw[cur].runs
      /\ Still(hw'[cur]) = Still(hw[cur])
      /\ SetBootVariable => hw'[cur].running.boot = Goal
  BY BootWrites DEF IInv
<1>2. CASE BootRaises
  BY <1>1, <1>2, FailedIInv DEF BootRaises
<1>3. CASE SetBootVariable
  <2>1. pc' = "write" /\ UNCHANGED testVars
    BY <1>3 DEF SetBootVariable, Goto
  <2>2. Goal' = Goal
    BY <2>1 DEF Goal, testVars
  <2>3. CurInv'
    BY <1>1, <1>3, <2>1, <2>2 DEF IInv, CurInv, testVars
  <2> QED
    BY <1>1, <2>1, <2>3, Stays DEF Labels
<1> QED
  BY <1>2, <1>3

LEMMA WriteIInv == ASSUME IInv, WriteMemory \/ WriteRaises PROVE IInv'
<1>1. /\ pc = "write" /\ Only(cur) /\ hw'[cur].runs = hw[cur].runs
      /\ Still(hw'[cur]) = Still(hw[cur]) /\ hw'[cur].running = hw[cur].running
      /\ WriteMemory => hw'[cur].saved = hw[cur].running
  BY MemoryWrites DEF IInv
<1>2. CASE WriteRaises
  BY <1>1, <1>2, FailedIInv DEF WriteRaises
<1>3. CASE WriteMemory
  <2>1. pc' = "reload" /\ UNCHANGED testVars
    BY <1>3 DEF WriteMemory, Goto
  <2>2. Goal' = Goal
    BY <2>1 DEF Goal, testVars
  <2>3. CurInv'
    BY <1>1, <1>3, <2>1, <2>2 DEF IInv, CurInv, testVars, Boots
  <2> QED
    BY <1>1, <2>1, <2>3, Stays DEF Labels
<1> QED
  BY <1>2, <1>3

LEMMA ReloadIInv == ASSUME IInv, Reload \/ ReloadNotHeard PROVE IInv'
<1>1. /\ pc = "reload" /\ pc' = "wait" /\ UNCHANGED testVars
      /\ TypeInv /\ hw[cur] \in Box
  BY CurFacts DEF Reload, ReloadNotHeard, Goto, IInv
<1>2. Goal' = Goal
  BY <1>1 DEF Goal, testVars
<1>3. /\ Only(cur) /\ hw'[cur].runs = hw[cur].runs /\ hw'[cur].up = hw[cur].up
      /\ hw'[cur].running = hw[cur].running /\ hw'[cur].saved = hw[cur].saved
  <2>1. CASE UNCHANGED hw
    BY <2>1, HwStays
  <2>2. CASE Reload
    <3>1. [hw[cur] EXCEPT !.reloading = TRUE] \in Box
      BY <1>1 DEF Box
    <3>2. hw' = [hw EXCEPT ![cur] = [hw[cur] EXCEPT !.reloading = TRUE]]
      BY <2>2 DEF Reload
    <3>3. Only(cur) /\ hw'[cur] = [hw[cur] EXCEPT !.reloading = TRUE]
      BY <1>1, <3>1, <3>2, BoxWrites
    <3> QED
      BY <1>1, <3>3 DEF Box
  <2> QED
    BY <2>1, <2>2 DEF ReloadNotHeard
<1>4. CurInv'
  BY <1>1, <1>2, <1>3 DEF IInv, CurInv, testVars, Boots, Still
<1> QED
  BY <1>1, <1>3, <1>4, Stays DEF Labels

LEMMA RaisesIInv == ASSUME IInv, CannotConnect \/ CommandRaises \/ VerifyCannotConnect PROVE IInv'
<1>1. Only(cur)
  BY HwStays DEF CannotConnect, CommandRaises, VerifyCannotConnect
<1>2. \E s : Upgraded(FALSE, s)
  BY DEF CannotConnect, CommandRaises, VerifyCannotConnect
<1> QED
  BY <1>1, <1>2, FailedIInv

LEMMA WaitIInv == ASSUME IInv, WaitForReload PROVE IInv'
<1>1. pc = "wait" /\ UNCHANGED hw /\ Only(cur)
  BY HwStays DEF WaitForReload
<1>2. CASE Goto("verify")
  <2>1. pc' = "verify" /\ UNCHANGED testVars
    BY <1>2 DEF Goto
  <2>2. Goal' = Goal
    BY <2>1 DEF Goal, testVars
  <2>3. CurInv'
    BY <1>1, <2>1, <2>2 DEF IInv, CurInv, testVars
  <2> QED
    BY <1>1, <2>1, <2>3, Stays DEF Labels
<1>3. CASE Upgraded(FALSE, "failed")
  BY <1>1, <1>3, FailedIInv
<1> QED
  BY <1>2, <1>3 DEF WaitForReload

(* The version that was asked for is read only after the restart. *)
LEMMA VerifyIInv == ASSUME IInv, VerifyVersion PROVE IInv'
<1>1. pc = "verify" /\ UNCHANGED hw /\ Only(cur)
  BY HwStays DEF VerifyVersion
<1>2. PICK current \in Reading :
        IF current = Goal THEN Upgraded(TRUE, "upgraded") ELSE Upgraded(FALSE, "failed")
  BY DEF VerifyVersion
<1>3. CASE current = Goal
  <2>1. hw[cur].runs = Goal
    BY <1>2, <1>3, CurFacts DEF Reading, Unknown, Versions, IInv
  <2> QED
    BY <1>1, <1>2, <1>3, <2>1, DoneIInv DEF IInv, CurInv
<1>4. CASE current # Goal
  BY <1>1, <1>2, <1>4, FailedIInv
<1> QED
  BY <1>3, <1>4
-----------------------------------------------------------------------------
(* What follows the upgrade. *)

LEMMA EndsIInv ==
    ASSUME IInv, ReconnectFails \/ ReconnectRaises \/ PostCannotConnect
    PROVE IInv'
<1>1. Only(cur)
  BY HwStays DEF ReconnectFails, ReconnectRaises, PostCannotConnect
<1>2. Result("failed") \/ Result("error")
  BY DEF ReconnectFails, ReconnectRaises, PostCannotConnect
<1> QED
  BY <1>1, <1>2, ResultIInv

LEMMA ReconnectIInv == ASSUME IInv, Reconnect PROVE IInv'
<1>1. pc = "reconnect" /\ UNCHANGED hw /\ Only(cur)
  BY HwStays DEF Reconnect
<1>2. PICK current \in Reading :
        IF job = "rollback" \/ current = 2 THEN Goto("reapply") ELSE Result("failed")
  BY DEF Reconnect
<1>3. CASE job = "rollback" \/ current = 2
  <2>1. pc' = "reapply" /\ UNCHANGED testVars
    BY <1>2, <1>3 DEF Goto
  <2>2. Goal' = Goal
    BY <2>1 DEF Goal, testVars
  <2>3. current = 2 => hw[cur].runs = 2
    BY <1>2 DEF Reading, Unknown
  <2>4. shipped[cur] = 1 => cur \in Known
    BY <1>1, <1>3, <2>3 DEF IInv, CurInv
  <2>5. CurInv'
    BY <1>1, <2>1, <2>2, <2>4 DEF IInv, CurInv, testVars
  <2> QED
    BY <1>1, <2>1, <2>5, Stays DEF Labels
<1>4. CASE ~(job = "rollback" \/ current = 2)
  BY <1>1, <1>2, <1>4, ResultIInv
<1> QED
  BY <1>3, <1>4

(* The snapshot is sent, its boot line included, and saved.                *)
LEMMA ReapplyWrites ==
    ASSUME TypeInv, ReapplyConfig \/ ReapplyFails
    PROVE /\ pc = "reapply" /\ Only(cur) /\ hw'[cur].runs = hw[cur].runs
          /\ Still(hw'[cur]) = Still(hw[cur]) /\ hw'[cur].flash = hw[cur].flash
          /\ hw'[cur].running.boot \in {hw[cur].running.boot, snapshot.boot}
          /\ hw[cur].running.boot # 0 /\ cur \notin Replacing =>
                hw'[cur].running.boot = hw[cur].running.boot
          /\ hw'[cur].saved \in {hw[cur].saved, hw'[cur].running}
          /\ ReapplyConfig => /\ hw'[cur].running.text = snapshot.text
                              /\ hw'[cur].saved = hw'[cur].running
<1>1. /\ pc = "reapply" /\ hw[cur] \in Box /\ hw[cur].running \in Conf /\ hw[cur].saved \in Conf
      /\ snapshot \in Conf /\ snapshot.boot \in 0..2 /\ snapshot.text \in {"field", "altered"}
  BY CurFacts DEF ReapplyConfig, ReapplyFails, TypeInv, Conf
<1> DEFINE line == BootLine(hw[cur].running, snapshot.boot)
<1>2. /\ line \in Conf /\ line.boot \in {hw[cur].running.boot, snapshot.boot}
      /\ hw[cur].running.boot # 0 /\ cur \notin Replacing => line.boot = hw[cur].running.boot
  BY <1>1, BootLines
<1> HIDE DEF line
<1>3. UNCHANGED hw \/ \E r \in Conf, w \in Conf :
        /\ hw' = [hw EXCEPT ![cur] = [hw[cur] EXCEPT !.running = r, !.saved = w]]
        /\ w \in {hw[cur].saved, r} /\ r.boot \in {hw[cur].running.boot, line.boot}
  <2>1. CASE ReapplyConfig
    <3>1. Restored(hw[cur].running) = [line EXCEPT !.text = snapshot.text]
      BY DEF Restored, line
    <3>2. /\ Restored(hw[cur].running) \in Conf /\ Restored(hw[cur].running).boot = line.boot
      BY <1>1, <1>2, <3>1 DEF Conf
    <3>3. hw' = [hw EXCEPT ![cur] = [hw[cur] EXCEPT !.running = Restored(hw[cur].running),
                                                    !.saved = Restored(hw[cur].running)]]
      BY <2>1 DEF ReapplyConfig
    <3> QED
      BY <3>2, <3>3
  <2>2. CASE ReapplyFails
    <3>1. SUFFICES ASSUME NEW lines \in {hw[cur].running, line}, NEW text \in {"field", "altered"},
                          NEW w \in {[lines EXCEPT !.text = text], hw[cur].saved},
                          hw' = [hw EXCEPT ![cur] = [hw[cur] EXCEPT !.running = [lines EXCEPT !.text = text],
                                                                    !.saved = w]]
                   PROVE  \E r \in Conf, v \in Conf :
                            /\ hw' = [hw EXCEPT ![cur] = [hw[cur] EXCEPT !.running = r, !.saved = v]]
                            /\ v \in {hw[cur].saved, r} /\ r.boot \in {hw[cur].running.boot, line.boot}
      BY <2>2 DEF ReapplyFails, line
    <3>2. /\ [lines EXCEPT !.text = text] \in Conf
          /\ [lines EXCEPT !.text = text].boot \in {hw[cur].running.boot, line.boot}
      BY <1>1, <1>2 DEF Conf
    <3> QED
      BY <1>1, <3>1, <3>2
  <2> QED
    BY <2>1, <2>2
<1>4. ReapplyConfig => /\ hw'[cur].running = [line EXCEPT !.text = snapshot.text]
                       /\ hw'[cur].saved = [line EXCEPT !.text = snapshot.text]
  <2>1. SUFFICES ASSUME ReapplyConfig
                 PROVE /\ hw'[cur].running = [line EXCEPT !.text = snapshot.text]
                       /\ hw'[cur].saved = [line EXCEPT !.text = snapshot.text]
    OBVIOUS
  <2>2. hw' = [hw EXCEPT ![cur] = [hw[cur] EXCEPT !.running = Restored(hw[cur].running),
                                                  !.saved = Restored(hw[cur].running)]]
    BY <2>1 DEF ReapplyConfig
  <2>3. hw'[cur] = [hw[cur] EXCEPT !.running = Restored(hw[cur].running),
                                   !.saved = Restored(hw[cur].running)]
    BY <2>2 DEF TypeInv
  <2>4. Restored(hw[cur].running) = [line EXCEPT !.text = snapshot.text]
    BY DEF Restored, line
  <2> QED
    BY <1>1, <2>3, <2>4 DEF Box
<1>5. /\ [line EXCEPT !.text = snapshot.text].text = snapshot.text
  BY <1>2 DEF Conf
<1>6. CASE UNCHANGED hw
  <2>1. Only(cur)
    BY <1>6 DEF Only, TypeInv
  <2> QED
    BY <1>1, <1>4, <1>5, <1>6, <2>1
<1>7. ASSUME NEW r \in Conf, NEW w \in Conf,
             hw' = [hw EXCEPT ![cur] = [hw[cur] EXCEPT !.running = r, !.saved = w]],
             w \in {hw[cur].saved, r}, r.boot \in {hw[cur].running.boot, line.boot}
      PROVE  /\ Only(cur) /\ hw'[cur].runs = hw[cur].runs
             /\ Still(hw'[cur]) = Still(hw[cur]) /\ hw'[cur].flash = hw[cur].flash
             /\ hw'[cur].running = r /\ hw'[cur].saved = w
  <2>1. [hw[cur] EXCEPT !.running = r, !.saved = w] \in Box
    BY <1>1 DEF Box
  <2>2. Only(cur) /\ hw'[cur] = [hw[cur] EXCEPT !.running = r, !.saved = w]
    BY <1>7, <2>1, BoxWrites
  <2> QED
    BY <1>1, <2>2 DEF Box, Still
<1> QED
  BY <1>1, <1>2, <1>3, <1>4, <1>5, <1>6, <1>7

LEMMA ReapplyIInv == ASSUME IInv, ReapplyConfig \/ ReapplyFails PROVE IInv'
<1>1. pc = "reapply" /\ TypeInv
  BY ReapplyWrites DEF IInv
<1>2. /\ Only(cur) /\ hw'[cur].runs = hw[cur].runs /\ Still(hw'[cur]) = Still(hw[cur])
      /\ hw'[cur].running.boot \in {hw[cur].running.boot, snapshot.boot}
      /\ hw[cur].running.boot # 0 /\ cur \notin Replacing =>
            hw'[cur].running.boot = hw[cur].running.boot
      /\ hw'[cur].saved \in {hw[cur].saved, hw'[cur].running}
  BY <1>1, ReapplyWrites
<1>3. PICK ok \in BOOLEAN : Reapplied(ok)
  BY DEF ReapplyConfig, ReapplyFails
<1>4. CASE job = "rollback"
  <2>1. Result("rolled_back")
    BY <1>3, <1>4 DEF Reapplied
  <2>2. shipped[cur] = 1 => Calm(hw'[cur])
    BY <1>1, <1>2, <1>4 DEF IInv, CurInv, Calm, Goal, Boots
  <2> QED
    BY <1>2, <2>1, <2>2, ResultIInv
<1>5. CASE job # "rollback"
  <2>1. pc' = "post" /\ UNCHANGED <<catalog, shipped, outcome, cur, job, previous, snapshot>>
    BY <1>3, <1>5 DEF Reapplied
  <2>2. Goal' = Goal
    BY <2>1 DEF Goal
  <2>3. TypeInv'
    BY <1>1, <1>2, <2>1 DEF TypeInv, Only, Labels
  <2>4. CurInv'
    <3>1. shipped[cur] = 1 => /\ cur \in Known /\ Still(hw[cur]) /\ hw[cur].runs = Goal
                              /\ Boots(hw[cur], Goal) /\ previous # 2 /\ snapshot.boot = 1
      BY <1>1 DEF IInv, CurInv
    <3>2. Goal # 0 /\ job = "test"
      BY <1>1, <1>5, CurFacts DEF Versions, TypeInv
    <3>3. shipped[cur] = 1 /\ cur \notin Replacing => Boots(hw'[cur], Goal)
      BY <1>2, <3>1, <3>2 DEF Boots
    <3> QED
      BY <1>2, <2>1, <2>2, <3>1, <3>2, <3>3 DEF CurInv
  <2>5. RestInv'
    BY <1>2, <2>1 DEF IInv, RestInv, Only
  <2> QED
    BY <2>3, <2>4, <2>5 DEF IInv
<1> QED
  BY <1>4, <1>5

LEMMA PostIInv == ASSUME IInv, PostValidation PROVE IInv'
<1>1. pc = "post" /\ UNCHANGED hw /\ Only(cur)
  BY HwStays DEF PostValidation
<1>2. CASE Result("passed") \/ Result("failed")
  BY <1>1, <1>2, ResultIInv
<1>3. CASE /\ previous \in Versions /\ pc' = "upgrade" /\ job' = "rollback"
           /\ UNCHANGED <<catalog, shipped, outcome, cur, previous, snapshot>>
  <2>1. TypeInv'
    BY <1>1, <1>3 DEF IInv, TypeInv, Labels
  <2>2. shipped[cur] = 1 => /\ previous = 1 /\ cur \in Known /\ Still(hw[cur])
                            /\ hw[cur].runs = 2 /\ snapshot.boot = 1
    BY <1>1, <1>3 DEF IInv, CurInv, Versions, Goal
  <2>3. CurInv'
    BY <1>1, <1>3, <2>2 DEF CurInv, Goal
  <2>4. RestInv'
    BY <1>1, <1>3 DEF IInv, RestInv
  <2> QED
    BY <2>1, <2>3, <2>4 DEF IInv
<1> QED
  BY <1>2, <1>3 DEF PostValidation
-----------------------------------------------------------------------------
(* The devices: only the one under test restarts, unless it has passed or  *)
(* the tests are over.                                                     *)

LEMMA OwnStep ==
    ASSUME IInv, NEW d \in Devices, NEW b \in Box, hw' = [hw EXCEPT ![d] = b],
           UNCHANGED testVars, UNCHANGED pc, ~Still(hw[d]),
           d = cur /\ shipped[d] = 1 /\ pc \in {"wait", "verify"} =>
              /\ Boots(b, Goal) /\ (b.runs = Goal => Still(b)) /\ (b.up \/ ~b.reloading)
    PROVE IInv'
<1>1. Goal' = Goal
  BY DEF Goal, testVars
<1>2. hw' \in [Devices -> Box] /\ hw'[d] = b /\ \A e \in Devices \ {d} : hw'[e] = hw[e]
  BY DEF IInv, TypeInv
<1>3. TypeInv'
  BY <1>2 DEF IInv, TypeInv, testVars
<1>4. RestInv'
  <2>1. shipped[d] = 1 /\ d # cur => outcome[d] = "passed"
    BY DEF IInv, RestInv, Calm
  <2> QED
    BY <1>2, <2>1 DEF IInv, RestInv, testVars
<1>5. CurInv'
  <2>1. CASE d # cur
    <3>1. hw'[cur] = hw[cur]
      BY <1>2, <2>1 DEF IInv, TypeInv
    <3> QED
      BY <1>1, <3>1 DEF IInv, CurInv, testVars
  <2>2. CASE d = cur
    <3>1. shipped[cur] = 1 => pc \in {"wait", "verify", "done"}
      BY <2>2 DEF IInv, TypeInv, CurInv, Labels, Calm
    <3> QED
      BY <1>1, <1>2, <2>2, <3>1 DEF IInv, CurInv, testVars
  <2> QED
    BY <2>1, <2>2
<1> QED
  BY <1>3, <1>4, <1>5 DEF IInv

LEMMA GoesDownIInv == ASSUME IInv, NEW d \in Devices, GoesDown(d) PROVE IInv'
<1>1. hw[d] \in Box
  BY DEF IInv, TypeInv
<1> DEFINE b == [hw[d] EXCEPT !.up = FALSE, !.reloading = FALSE]
<1>2. b \in Box /\ ~b.reloading /\ b.running = hw[d].running /\ b.saved = hw[d].saved
      /\ b.runs = hw[d].runs
  BY <1>1 DEF Box
<1>3. /\ hw' = [hw EXCEPT ![d] = b] /\ ~Still(hw[d])
      /\ UNCHANGED testVars /\ UNCHANGED pc
  BY DEF GoesDown, Still
<1>4. d = cur /\ shipped[d] = 1 /\ pc \in {"wait", "verify"} =>
        Boots(b, Goal) /\ b.runs # Goal
  BY <1>2, <1>3 DEF IInv, CurInv, Boots
<1> QED
  BY <1>2, <1>3, <1>4, OwnStep

LEMMA BootIInv == ASSUME IInv, NEW d \in Devices, Boot(d) PROVE IInv'
<1>1. hw[d] \in Box
  BY DEF IInv, TypeInv
<1>2. PICK v \in Bootable(d), text \in {hw[d].saved.text, "altered"} :
        hw' = [hw EXCEPT ![d] = [hw[d] EXCEPT
                 !.up = TRUE, !.runs = v, !.running = [hw[d].saved EXCEPT !.text = text]]]
  BY DEF Boot
<1> DEFINE b == [hw[d] EXCEPT
                 !.up = TRUE, !.runs = v, !.running = [hw[d].saved EXCEPT !.text = text]]
<1>3. v \in Versions
  BY <1>1, <1>2 DEF Bootable, Intact
<1>4. b \in Box
  BY <1>1, <1>3 DEF Box, Conf
<1>5. /\ b.up /\ b.reloading = hw[d].reloading /\ b.runs = v
      /\ b.running.boot = hw[d].saved.boot /\ b.saved = hw[d].saved
  BY <1>1 DEF Box, Conf
<1>6. ~hw[d].up /\ ~Still(hw[d]) /\ UNCHANGED testVars /\ UNCHANGED pc
  BY DEF Boot, Still
<1>7. d = cur /\ shipped[d] = 1 /\ pc \in {"wait", "verify"} =>
        Boots(b, Goal) /\ Still(b)
  BY <1>5, <1>6 DEF IInv, CurInv, Boots, Still
<1> QED
  BY <1>2, <1>4, <1>5, <1>6, <1>7, OwnStep
-----------------------------------------------------------------------------
LEMMA NextIInv == IInv /\ [FirmwareNext]_firmware_vars => IInv'
<1> SUFFICES ASSUME IInv, [FirmwareNext]_firmware_vars PROVE IInv'
  OBVIOUS
<1>1. CASE Upgrade
  BY <1>1, NothingIInv, InspectIInv, TransferIInv, VerifyMd5IInv, SetBootIInv, WriteIInv,
     ReloadIInv, RaisesIInv, WaitIInv, VerifyIInv DEF Upgrade
<1>2. CASE Runner /\ ~Upgrade
  BY <1>2, BeginIInv, EndsIInv, ReconnectIInv, ReapplyIInv, PostIInv DEF Runner
<1>3. ASSUME NEW d \in Devices, GoesDown(d) \/ Boot(d) PROVE IInv'
  BY <1>3, GoesDownIInv, BootIInv
<1>4. CASE UNCHANGED firmware_vars
  BY <1>4 DEF firmware_vars, IInv, TypeInv, CurInv, RestInv, Goal
<1> QED
  BY <1>1, <1>2, <1>3, <1>4 DEF FirmwareNext

LEMMA Safety == FirmwareSpec => []IInv
BY InitIInv, NextIInv, PTL DEF FirmwareSpec

(* A bad image puts one device at risk: a device that has left its version *)
(* is under test, or has passed, and a rollback that reports success has   *)
(* put the version back that was read first, and saved it                  *)
(* (tester.py:588, _attempt_rollback).                                     *)
THEOREM OneAtATime == FirmwareSpec => []OneDeviceAtRisk
<1>1. IInv => OneDeviceAtRisk
  <2> SUFFICES ASSUME IInv, NEW d \in Devices, NEW e \in Devices, Moved(d), Moved(e), d # e
               PROVE "passed" \in {outcome[d], outcome[e]}
    BY DEF OneDeviceAtRisk
  <2>1. ~Calm(hw[d]) /\ ~Calm(hw[e]) /\ shipped[d] = 1 /\ shipped[e] = 1
    BY DEF Moved, Calm, Still, Boots
  <2> QED
    BY <2>1 DEF IInv, RestInv
<1> QED
  BY <1>1, Safety, PTL
-----------------------------------------------------------------------------
(* A device to which the audit offers nothing is left at its snapshot. *)
Left(d) == CheckDevice(TRUE, shipped[d]) # "upgrade_available"

AuditInv ==
    /\ pc \notin {"resolve", "done"} => GetRecommended = {2}
    /\ \A d \in Devices \ Unparsed : Left(d) =>
          /\ hw[d] = AsShipped(shipped[d])
          /\ d = cur => pc \in {"resolve", "snapshot", "done"}

(* What a step of the tests may touch. *)
LEMMA RunnerFrame ==
    ASSUME TypeInv, Runner
    PROVE /\ UNCHANGED <<catalog, shipped>>
          /\ \A e \in Devices \ {cur} : hw'[e] = hw[e]
          /\ pc \in {"resolve", "snapshot"} => UNCHANGED hw
          /\ pc \notin {"resolve", "snapshot"} =>
                \/ pc' \notin {"resolve", "done"} /\ cur' = cur
                \/ pc' = "done" /\ cur' = cur
                \/ pc' = "resolve" /\ cur' = cur + 1
          /\ pc # "done"
<1>1. CASE Upgrade
  BY <1>1 DEF Upgrade, TypeInv, NothingToInstall, CannotConnect, Inspect, Transfer, TransferFails,
     VerifyMd5, ScpRaises, SetBootVariable, BootRaises, WriteMemory,
     WriteRaises, Reload, ReloadNotHeard, CommandRaises,
     WaitForReload, VerifyVersion, VerifyCannotConnect, Upgraded, Goto, Result, testVars
<1>2. CASE Resolve \/ SnapshotFails \/ Snapshot
  BY <1>2 DEF Resolve, SnapshotFails, Snapshot, Goto, Result, testVars
<1>3. CASE ReconnectFails \/ ReconnectRaises \/ Reconnect \/ PostCannotConnect \/ PostValidation
  BY <1>3 DEF ReconnectFails, ReconnectRaises, Reconnect, PostCannotConnect, PostValidation,
     Goto, Result, testVars
<1>4. CASE ReapplyConfig \/ ReapplyFails
  BY <1>4 DEF ReapplyConfig, ReapplyFails, Reapplied, Result, TypeInv
<1> QED
  BY <1>1, <1>2, <1>3, <1>4 DEF Runner

LEMMA BeginOnly ==
    ASSUME Runner, pc \in {"resolve", "snapshot"}
    PROVE \/ pc = "resolve" /\ Resolve
          \/ pc = "snapshot" /\ (SnapshotFails \/ Snapshot)
<1>1. ~Upgrade
  BY DEF Upgrade, NothingToInstall, CannotConnect, Inspect, Transfer, TransferFails,
     VerifyMd5, ScpRaises, SetBootVariable, BootRaises, WriteMemory,
     WriteRaises, Reload, ReloadNotHeard, CommandRaises,
     WaitForReload, VerifyVersion, VerifyCannotConnect
<1> QED
  BY <1>1 DEF Runner, Resolve, SnapshotFails, Snapshot, ReconnectFails, ReconnectRaises,
     Reconnect, ReapplyConfig, ReapplyFails, PostCannotConnect, PostValidation

LEMMA AuditStep == TypeInv /\ AuditInv /\ [FirmwareNext]_firmware_vars => AuditInv'
<1> SUFFICES ASSUME TypeInv, AuditInv, [FirmwareNext]_firmware_vars PROVE AuditInv'
  OBVIOUS
<1>1. CASE Runner /\ pc \notin {"resolve", "snapshot"}
  <2>1. /\ UNCHANGED <<catalog, shipped>> /\ GetRecommended = {2}
        /\ \A e \in Devices \ {cur} : hw'[e] = hw[e]
        /\ \/ pc' \notin {"resolve", "done"} /\ cur' = cur
           \/ pc' = "done" /\ cur' = cur
           \/ pc' = "resolve" /\ cur' = cur + 1
    BY <1>1, RunnerFrame DEF AuditInv
  <2>2. GetRecommended' = GetRecommended /\ \A d \in Devices : Left(d)' = Left(d)
    BY <2>1 DEF GetRecommended, Left, CheckDevice, IsUpgradeSafe
  <2>3. cur \in Unparsed \/ ~Left(cur)
    BY <1>1, RunnerFrame DEF AuditInv, TypeInv
  <2> QED
    BY <2>1, <2>2, <2>3 DEF AuditInv
<1>2. CASE Runner /\ pc \in {"resolve", "snapshot"}
  <2>1. UNCHANGED <<catalog, shipped, hw>>
    BY <1>2, RunnerFrame
  <2>2. GetRecommended' = GetRecommended /\ \A d \in Devices : Left(d)' = Left(d)
    BY <2>1 DEF GetRecommended, Left, CheckDevice, IsUpgradeSafe
  <2>3. CASE pc' \in {"resolve", "done"}
    BY <2>1, <2>2, <2>3 DEF AuditInv
  <2>4. CASE pc = "resolve" /\ pc' = "snapshot"
    <3>1. GetRecommended = {2}
      BY <1>2, <2>4, BeginOnly DEF Resolve, Result
    <3> QED
      BY <2>1, <2>2, <2>4, <3>1 DEF AuditInv
  <2>5. CASE ~(pc' \in {"resolve", "done"} \/ (pc = "resolve" /\ pc' = "snapshot"))
    <3>1. pc = "snapshot" /\ GetRecommended = {2} /\ Snapshot
      BY <1>2, <2>5, BeginOnly DEF AuditInv, Resolve, SnapshotFails, Result, Goto
    <3>2. PICK current \in Reading : current # 2 /\ IsUpgradeSafe(2, current) /\ pc' = "upgrade"
                                     /\ cur' = cur
      BY <2>5, <3>1 DEF Snapshot, Result
    <3>3. ASSUME cur \notin Unparsed, Left(cur) PROVE FALSE
      <4>1. current = shipped[cur]
        BY <3>1, <3>2, <3>3 DEF Reading, AuditInv, TypeInv, AsShipped
      <4>2. current # Unknown
        BY <4>1 DEF TypeInv, Versions, Unknown
      <4>3. CheckDevice(TRUE, current) = "upgrade_available"
        BY <3>1, <3>2, <4>2 DEF CheckDevice
      <4> QED
        BY <3>3, <4>1, <4>3 DEF Left
    <3> QED
      BY <2>1, <2>2, <3>1, <3>2, <3>3 DEF AuditInv
  <2> QED
    BY <2>3, <2>4, <2>5
<1>3. ASSUME NEW d \in Devices, GoesDown(d) \/ Boot(d) PROVE AuditInv'
  <2>1. /\ UNCHANGED testVars /\ UNCHANGED pc /\ (hw[d].reloading \/ ~hw[d].up)
        /\ \A e \in Devices \ {d} : hw'[e] = hw[e]
    BY <1>3 DEF GoesDown, Boot, TypeInv
  <2>2. GetRecommended' = GetRecommended /\ \A e \in Devices : Left(e)' = Left(e)
    BY <2>1 DEF GetRecommended, Left, CheckDevice, IsUpgradeSafe, testVars
  <2>3. hw[d] # AsShipped(shipped[d])
    BY <2>1 DEF AsShipped
  <2> QED
    BY <2>1, <2>2, <2>3 DEF AuditInv, testVars
<1>4. CASE UNCHANGED firmware_vars
  BY <1>4 DEF firmware_vars, AuditInv, Left, CheckDevice, IsUpgradeSafe, GetRecommended
<1> QED
  BY <1>1, <1>2, <1>3, <1>4 DEF FirmwareNext

(* The audit and the tests agree (compliance.py:178, tester.py:225): a      *)
(* device whose version can be read, and to which the audit offers no      *)
(* upgrade, keeps everything it came with.                                 *)
THEOREM AuditIsHeeded == FirmwareSpec => []AuditAgreesWithTests
<1>1. FirmwareInit => AuditInv
  BY DEF FirmwareInit, AuditInv
<1>2. IInv => TypeInv
  BY DEF IInv
<1>3. AuditInv => AuditAgreesWithTests
  BY DEF AuditInv, AuditAgreesWithTests, Left
<1> QED
  BY <1>1, <1>2, <1>3, AuditStep, Safety, PTL DEF FirmwareSpec
-----------------------------------------------------------------------------
(* A device that has passed runs the version under test, with the settings *)
(* of the snapshot, and can boot nothing else; one on which the old boot   *)
(* line came back is at least not about to restart.                        *)
NothingElse(b) == b.flash[2] = "good" \/ b.flash[1] # "good"

Good(d, b) ==
    /\ b.runs = 2 /\ b.saved.text = "field"
    /\ b.up => b.running.text = "field"
    /\ \/ b.saved.boot = 2 /\ NothingElse(b)
       \/ d \in Replacing /\ Still(b)

(* A device that ran the version before the tests, while they think that   *)
(* they are upgrading it.                                                  *)
Two(b) == b.runs = 2 /\ Boots(b, 2) /\ b.flash[1] # "good"

(* The device under test; what it runs after the restart is an image that  *)
(* nothing has overwritten since.                                          *)
TestInv ==
    LET b == hw[cur] IN
    pc # "done" =>
        /\ outcome[cur] # "passed"
        /\ pc \in {"resolve", "snapshot"} => b = AsShipped(shipped[cur])
        /\ pc \notin {"resolve", "snapshot"} =>
              /\ snapshot.text = "field" /\ snapshot.boot = shipped[cur]
              /\ shipped[cur] = 2 => job = "test" /\ previous = Unknown /\ Two(b)
              /\ shipped[cur] = 1 /\ b.runs = 2 => b.flash[2] = "good"
              /\ shipped[cur] = 1 /\ job = "test" => b.flash[1] = "good"
        /\ pc = "post" => job = "test" /\ (configOk => Good(cur, b))

PassInv ==
    /\ \A d \in Devices : d > cur => hw[d] = AsShipped(shipped[d])
    /\ \A d \in Devices : outcome[d] = "passed" => Good(d, hw[d])
    /\ TestInv

LEMMA InitPassInv == FirmwareInit => PassInv
<1> SUFFICES ASSUME FirmwareInit PROVE PassInv
  OBVIOUS
<1>1. \A d \in Devices : hw[d] = AsShipped(shipped[d]) /\ outcome[d] = "none"
  BY DEF FirmwareInit
<1>2. cur \in Devices /\ pc = "resolve"
  BY FirmwareAssumption DEF FirmwareInit, Devices
<1> QED
  BY <1>1, <1>2 DEF PassInv, TestInv

(* Only the health checks of the device under test make a "passed". *)
LEMMA PassedFrame ==
    ASSUME TypeInv, Runner
    PROVE /\ \A d \in Devices \ {cur} : outcome'[d] = "passed" => outcome[d] = "passed"
          /\ pc # "post" /\ outcome'[cur] = "passed" => outcome[cur] = "passed"
<1>1. ASSUME NEW r, Result(r)
      PROVE /\ \A d \in Devices \ {cur} : outcome'[d] = "passed" => outcome[d] = "passed"
            /\ outcome'[cur] = r
  BY <1>1 DEF Result, TypeInv
<1>2. UNCHANGED testVars => UNCHANGED outcome
  BY DEF testVars
<1>3. CASE Upgrade
  BY <1>1, <1>2, <1>3 DEF Upgrade, NothingToInstall, CannotConnect, Inspect, Transfer, TransferFails,
     VerifyMd5, ScpRaises, SetBootVariable, BootRaises, WriteMemory,
     WriteRaises, Reload, ReloadNotHeard, CommandRaises,
     WaitForReload, VerifyVersion, VerifyCannotConnect, Upgraded, Goto
<1>4. CASE ~Upgrade
  BY <1>1, <1>2, <1>4 DEF Runner, Resolve, SnapshotFails, Snapshot, ReconnectFails, ReconnectRaises,
     Reconnect, ReapplyConfig, ReapplyFails, Reapplied, PostCannotConnect, PostValidation, Goto
<1> QED
  BY <1>3, <1>4

LEMMA PassStep ==
    ASSUME IInv, PassInv, Runner, pc = "post" /\ outcome'[cur] = "passed" => Good(cur, hw'[cur]), TestInv'
    PROVE PassInv'
<1>1. /\ pc # "done" /\ UNCHANGED shipped /\ cur' \in {cur, cur + 1}
      /\ \A e \in Devices \ {cur} : hw'[e] = hw[e]
      /\ cur \in Nat /\ outcome[cur] # "passed"
  <2>1. TypeInv
    BY DEF IInv
  <2>2. pc \in {"resolve", "snapshot"} => cur' \in {cur, cur + 1}
    BY BeginOnly DEF Resolve, SnapshotFails, Snapshot, Goto, Result, testVars
  <2> QED
    BY <2>1, <2>2, RunnerFrame, CurFacts DEF PassInv, TestInv
<1>2. \A d \in Devices : d > cur' => d > cur /\ d # cur
  BY <1>1 DEF Devices
<1>3. \A d \in Devices : d > cur' => hw'[d] = AsShipped(shipped'[d])
  BY <1>1, <1>2 DEF PassInv
<1>4. ASSUME NEW d \in Devices, outcome'[d] = "passed" PROVE Good(d, hw'[d])
  <2>1. CASE d = cur
    BY <1>1, <1>4, <2>1, PassedFrame DEF IInv
  <2>2. CASE d # cur
    BY <1>1, <1>4, <2>2, PassedFrame DEF IInv, PassInv
  <2> QED
    BY <2>1, <2>2
<1> QED
  BY <1>3, <1>4 DEF PassInv

(* The next device is as it came. *)
LEMMA ResultTest ==
    ASSUME IInv, PassInv, Only(cur), NEW r, Result(r)
    PROVE TestInv'
<1>1. CASE pc' = "done"
  BY <1>1 DEF TestInv
<1>2. CASE pc' # "done"
  <2>1. pc' = "resolve" /\ cur' = cur + 1 /\ cur # NumDevices /\ r \notin Skipping /\ UNCHANGED shipped
    BY <1>2 DEF Result
  <2>2. cur \in Nat /\ cur' \in Devices /\ cur' > cur /\ cur' # cur
    BY <2>1, FirmwareAssumption DEF Devices, IInv, TypeInv
  <2>3. hw'[cur'] = AsShipped(shipped'[cur'])
    BY <2>1, <2>2 DEF PassInv, Only
  <2>4. outcome'[cur'] = outcome[cur']
    BY <2>1, <2>2 DEF Result
  <2>5. outcome[cur'] # "passed"
    BY <2>2 DEF IInv, RestInv
  <2> QED
    BY <2>1, <2>3, <2>4, <2>5 DEF TestInv
<1> QED
  BY <1>1, <1>2

(* A command to the device under test that the rest of the tests follows. *)
LEMMA GotoTest ==
    ASSUME IInv, PassInv, UNCHANGED testVars, pc \notin {"resolve", "snapshot", "post", "done"},
           pc' \notin {"resolve", "snapshot", "post", "done"},
           shipped[cur] = 2 => Two(hw'[cur]),
           shipped[cur] = 1 /\ hw'[cur].runs = 2 => hw'[cur].flash[2] = "good",
           shipped[cur] = 1 /\ job = "test" => hw'[cur].flash[1] = "good"
    PROVE TestInv'
BY DEF PassInv, TestInv, testVars

LEMMA QuietPass ==
    ASSUME IInv, PassInv, Runner, UNCHANGED hw, pc \notin {"snapshot", "post", "reapply"}
    PROVE PassInv'
<1>1. Only(cur)
  BY HwStays
<1>2. (\E r : Result(r)) \/ (UNCHANGED testVars /\ pc' \notin {"resolve", "post", "done"}
                               /\ (pc = "resolve" <=> pc' = "snapshot"))
  <2>1. CASE Upgrade
    BY <2>1 DEF Upgrade, NothingToInstall, CannotConnect, Inspect, Transfer, TransferFails,
     VerifyMd5, ScpRaises, SetBootVariable, BootRaises, WriteMemory,
     WriteRaises, Reload, ReloadNotHeard, CommandRaises,
     WaitForReload, VerifyVersion, VerifyCannotConnect, Upgraded, Goto
  <2>2. CASE ~Upgrade
    BY <2>2 DEF Runner, Resolve, SnapshotFails, Snapshot, ReconnectFails, ReconnectRaises,
     Reconnect, ReapplyConfig, ReapplyFails, Reapplied, PostCannotConnect, PostValidation, Goto
  <2> QED
    BY <2>1, <2>2
<1>3. TestInv'
  <2>1. CASE \E r : Result(r)
    BY <1>1, <2>1, ResultTest
  <2>2. CASE UNCHANGED testVars /\ pc = "resolve" /\ pc' = "snapshot"
    BY <2>2 DEF PassInv, TestInv, testVars
  <2>3. CASE UNCHANGED testVars /\ pc # "resolve" /\ pc' \notin {"resolve", "snapshot", "post", "done"}
    <3>1. pc # "done"
      BY RunnerFrame DEF IInv
    <3> QED
      BY <2>3, <3>1, GotoTest DEF PassInv, TestInv
  <2> QED
    BY <1>2, <2>1, <2>2, <2>3
<1> QED
  BY <1>3, PassStep

LEMMA SnapshotPass == ASSUME IInv, PassInv, Runner, pc = "snapshot" PROVE PassInv'
<1>1. SnapshotFails \/ Snapshot
  BY BeginOnly
<1>2. UNCHANGED hw /\ Only(cur) /\ cur \in Devices /\ hw[cur] = AsShipped(shipped[cur])
      /\ shipped[cur] \in Versions /\ job = "test" /\ outcome[cur] # "passed"
  BY <1>1, HwStays DEF SnapshotFails, Snapshot, PassInv, TestInv, IInv, TypeInv
<1>3. TestInv'
  <2>1. CASE \E r : Result(r)
    BY <1>2, <2>1, ResultTest
  <2>2. CASE ~\E r : Result(r)
    <3>1. PICK current \in Reading :
             /\ current # 2 /\ previous' = current /\ snapshot' = hw[cur].running /\ pc' = "upgrade"
             /\ UNCHANGED <<catalog, shipped, outcome, cur, job, configOk>>
      BY <1>1, <2>2 DEF SnapshotFails, Snapshot
    <3>2. /\ hw[cur].running = Configured(shipped[cur]) /\ hw[cur].runs = shipped[cur]
          /\ shipped[cur] = 1 => hw[cur].flash[1] = "good"
      BY <1>2 DEF AsShipped, Versions
    <3>3. shipped[cur] = 2 => current = Unknown
      BY <3>1, <3>2 DEF Reading
    <3>4. shipped[cur] = 2 => Two(hw[cur])
      BY <1>2 DEF AsShipped, Configured, Two, Boots, Versions
    <3>5. /\ snapshot'.text = "field" /\ snapshot'.boot = shipped'[cur']
      BY <3>1, <3>2 DEF Configured
    <3> QED
      BY <1>2, <3>1, <3>2, <3>3, <3>4, <3>5 DEF TestInv
  <2> QED
    BY <2>1, <2>2
<1> QED
  BY <1>3, PassStep

(* The commands that write to the device under test. *)
LEMMA WritesPass ==
    ASSUME IInv, PassInv, Runner,
           \/ Transfer \/ TransferFails \/ ScpRaises \/ SetBootVariable \/ BootRaises
           \/ WriteMemory \/ WriteRaises \/ Reload
    PROVE PassInv'
<1>1. /\ pc \in {"transfer", "boot", "write", "reload"} /\ TypeInv /\ hw[cur] \in Box
      /\ Goal \in Versions /\ cur \in Devices /\ shipped[cur] \in Versions
  BY CurFacts DEF Transfer, TransferFails, ScpRaises, SetBootVariable, BootRaises, WriteMemory,
     WriteRaises, Reload, IInv, TypeInv
<1>2. /\ shipped[cur] = 2 => Goal = 2 /\ Two(hw[cur])
      /\ shipped[cur] = 1 /\ hw[cur].runs = 2 => hw[cur].flash[2] = "good" /\ Goal = 1
      /\ shipped[cur] = 1 /\ job = "test" => hw[cur].flash[1] = "good" /\ Goal = 2
  <2>1. shipped[cur] = 1 => hw[cur].runs # Goal
    BY <1>1 DEF IInv, CurInv
  <2>2. job = "test" => Goal = 2
    BY DEF Goal
  <2> QED
    BY <1>1, <2>1, <2>2 DEF PassInv, TestInv, Goal, Versions
<1>3. CASE TransferFails \/ ScpRaises \/ BootRaises \/ WriteRaises
  <2>1. Result("failed")
    BY <1>3 DEF TransferFails, ScpRaises, BootRaises, WriteRaises, Upgraded
  <2>2. Only(cur)
    BY <1>1, <1>3, TransferWrites, BootWrites, MemoryWrites
  <2> QED
    BY <1>1, <2>1, <2>2, ResultTest, PassStep
<1>4. CASE Transfer \/ SetBootVariable \/ WriteMemory \/ Reload
  <2>1. /\ UNCHANGED testVars /\ pc' \in {"md5", "boot", "write", "reload", "wait"}
    BY <1>4 DEF Transfer, SetBootVariable, WriteMemory, Reload, Goto
  <2>2. CASE Transfer
    <3>1. /\ hw'[cur].runs = hw[cur].runs /\ hw'[cur].running.boot = hw[cur].running.boot
          /\ hw'[cur].saved = hw[cur].saved
          /\ \A v \in Versions \ {Goal} : hw'[cur].flash[v] = hw[cur].flash[v]
      BY <1>1, <2>2, TransferWrites DEF SameBoot
    <3> QED
      BY <1>1, <1>2, <2>1, <3>1, GotoTest, PassStep DEF Two, Boots, Versions
  <2>3. CASE SetBootVariable \/ WriteMemory \/ Reload
    <3>1. /\ hw'[cur].runs = hw[cur].runs /\ hw'[cur].flash = hw[cur].flash
          /\ hw'[cur].running.boot \in {Goal, hw[cur].running.boot}
          /\ hw'[cur].saved \in {hw[cur].saved, hw[cur].running}
      <4>1. CASE SetBootVariable
        BY <1>1, <4>1, BootWrites
      <4>2. CASE WriteMemory
        BY <1>1, <4>2, MemoryWrites
      <4>3. CASE Reload
        BY <1>1, <4>3 DEF Reload, TypeInv, Box
      <4> QED
        BY <2>3, <4>1, <4>2, <4>3
    <3>2. shipped[cur] = 2 => Two(hw'[cur])
      BY <1>2, <3>1 DEF Two, Boots
    <3> QED
      BY <1>1, <1>2, <2>1, <3>1, <3>2, GotoTest, PassStep
  <2> QED
    BY <1>4, <2>2, <2>3
<1> QED
  BY <1>3, <1>4

(* The snapshot is put back, and saved with the boot lines in use.         *)
LEMMA ReapplyPass == ASSUME IInv, PassInv, Runner, pc = "reapply" PROVE PassInv'
<1>1. /\ TypeInv /\ hw[cur] \in Box /\ cur \in Devices /\ outcome[cur] # "passed"
      /\ snapshot.text = "field" /\ snapshot.boot = shipped[cur] /\ shipped[cur] \in Versions
  BY DEF IInv, TypeInv, PassInv, TestInv
<1>2. ReapplyConfig \/ ReapplyFails
  BY DEF Runner, Resolve, SnapshotFails, Snapshot, Upgrade, NothingToInstall, CannotConnect, Inspect,
     Transfer, TransferFails, VerifyMd5, ScpRaises, SetBootVariable, BootRaises, WriteMemory,
     WriteRaises, Reload, ReloadNotHeard, CommandRaises, WaitForReload, VerifyVersion,
     VerifyCannotConnect, ReconnectFails, ReconnectRaises, Reconnect, PostCannotConnect,
     PostValidation
<1>3. /\ Only(cur) /\ hw'[cur].runs = hw[cur].runs /\ hw'[cur].flash = hw[cur].flash
      /\ Still(hw'[cur]) = Still(hw[cur])
      /\ hw'[cur].running.boot \in {hw[cur].running.boot, shipped[cur]}
      /\ hw[cur].running.boot # 0 /\ cur \notin Replacing =>
            hw'[cur].running.boot = hw[cur].running.boot
      /\ hw'[cur].saved \in {hw[cur].saved, hw'[cur].running}
      /\ ReapplyConfig => hw'[cur].running.text = "field" /\ hw'[cur].saved = hw'[cur].running
  BY <1>1, <1>2, ReapplyWrites
<1>4. PICK ok \in BOOLEAN : Reapplied(ok) /\ (ok => ReapplyConfig)
  BY <1>2 DEF ReapplyConfig, ReapplyFails
<1>5. CASE job = "rollback"
  BY <1>3, <1>4, <1>5, ResultTest, PassStep DEF Reapplied
<1>6. CASE job # "rollback"
  <2>1. pc' = "post" /\ configOk' = ok
        /\ UNCHANGED <<catalog, shipped, outcome, cur, job, previous, snapshot>>
    BY <1>4, <1>6 DEF Reapplied
  <2>2. job = "test" /\ Goal = 2
    BY <1>6 DEF IInv, TypeInv, Goal
  <2>3. /\ hw[cur].runs = 2 /\ hw[cur].running.boot = 2 /\ NothingElse(hw[cur])
        /\ shipped[cur] = 1 => /\ hw[cur].flash[2] = "good" /\ hw[cur].flash[1] = "good"
                               /\ Still(hw[cur])
        /\ shipped[cur] = 2 => previous = Unknown /\ Two(hw[cur])
    <3>1. CASE shipped[cur] = 1
      <4>1. hw[cur].runs = 2 /\ hw[cur].running.boot = 2 /\ Still(hw[cur])
        BY <1>1, <2>2, <3>1 DEF IInv, CurInv, Boots
      <4> QED
        BY <2>2, <3>1, <4>1 DEF PassInv, TestInv, NothingElse
    <3>2. CASE shipped[cur] = 2
      BY <3>2 DEF PassInv, TestInv, Two, Boots, NothingElse
    <3> QED
      BY <1>1, <3>1, <3>2 DEF Versions
  <2>4. shipped[cur] = 2 => Two(hw'[cur])
    BY <1>3, <2>3 DEF Two, Boots
  <2>5. ok => Good(cur, hw'[cur])
    <3>1. CASE shipped[cur] = 2 \/ cur \notin Replacing
      <4>1. hw'[cur].running.boot = 2
        BY <1>3, <2>3, <3>1
      <4> QED
        BY <1>3, <1>4, <2>3, <4>1 DEF Good, NothingElse
    <3>2. CASE shipped[cur] = 1 /\ cur \in Replacing
      BY <1>3, <1>4, <2>3, <3>2 DEF Good
    <3> QED
      BY <1>1, <3>1, <3>2 DEF Versions
  <2>6. TestInv'
    BY <1>1, <1>3, <2>1, <2>2, <2>3, <2>4, <2>5 DEF TestInv
  <2> QED
    BY <2>6, PassStep
<1> QED
  BY <1>5, <1>6

LEMMA PostPass == ASSUME IInv, PassInv, Runner, pc = "post" PROVE PassInv'
<1>1. PostValidation \/ PostCannotConnect \/ ReconnectRaises
  BY DEF Runner, Resolve, SnapshotFails, Snapshot, Upgrade, NothingToInstall, CannotConnect, Inspect,
     Transfer, TransferFails, VerifyMd5, ScpRaises, SetBootVariable, BootRaises, WriteMemory,
     WriteRaises, Reload, ReloadNotHeard, CommandRaises, WaitForReload, VerifyVersion, VerifyCannotConnect,
     ReconnectFails, Reconnect, ReapplyConfig, ReapplyFails
<1>2. UNCHANGED hw /\ Only(cur) /\ (configOk => Good(cur, hw[cur]))
  BY <1>1, HwStays DEF PostValidation, PostCannotConnect, ReconnectRaises, PassInv, TestInv
<1>3. CASE \E r : Result(r)
  <2>1. TestInv'
    BY <1>2, <1>3, ResultTest
  <2>2. outcome'[cur] = "passed" => configOk
    <3>1. \A r : Result(r) => outcome'[cur] = r
      BY DEF Result, IInv, TypeInv
    <3>2. configOk \/ Result("failed") \/ Result("error") \/ UNCHANGED outcome
      BY <1>1 DEF PostValidation, PostCannotConnect, ReconnectRaises
    <3> QED
      BY <3>1, <3>2 DEF PassInv, TestInv
  <2> QED
    BY <1>2, <2>1, <2>2, PassStep
<1>4. CASE /\ previous \in Versions /\ pc' = "upgrade" /\ job' = "rollback"
           /\ UNCHANGED <<catalog, shipped, outcome, cur, previous, snapshot>>
  <2>1. shipped[cur] # 2
    BY <1>4 DEF PassInv, TestInv, Versions, Unknown
  <2>2. TestInv'
    BY <1>2, <1>4, <2>1 DEF PassInv, TestInv
  <2> QED
    BY <1>4, <2>2, PassStep DEF PassInv, TestInv
<1> QED
  BY <1>1, <1>3, <1>4 DEF PostValidation, PostCannotConnect, ReconnectRaises

(* What a restart leaves of a device. *)
Restarted(d) ==
    /\ \A e \in Devices \ {d} : hw'[e] = hw[e]
    /\ hw'[d].saved = hw[d].saved /\ hw'[d].flash = hw[d].flash
    /\ hw'[d].running.boot \in {hw[d].running.boot, hw[d].saved.boot}
    /\ \/ hw'[d].runs = hw[d].runs /\ ~hw'[d].up
       \/ /\ hw'[d].runs \in Bootable(d)
          /\ hw'[d].runs = hw[d].runs => hw'[d].running.text = hw[d].saved.text

LEMMA BootRestarts ==
    ASSUME TypeInv, NEW d \in Devices, Boot(d)
    PROVE Restarted(d) /\ UNCHANGED testVars /\ UNCHANGED pc /\ ~hw[d].up
<1>1. hw[d] \in Box /\ hw \in [Devices -> Box]
  BY DEF TypeInv
<1>2. PICK v \in Bootable(d), text \in {hw[d].saved.text, "altered"} :
        /\ v = hw[d].runs => text = hw[d].saved.text
        /\ hw' = [hw EXCEPT ![d] = [hw[d] EXCEPT
                 !.up = TRUE, !.runs = v, !.running = [hw[d].saved EXCEPT !.text = text]]]
  BY Zenon DEF Boot
<1>3. Restarted(d)
  BY <1>1, <1>2 DEF Restarted, Box, Conf
<1>4. UNCHANGED testVars /\ UNCHANGED pc /\ ~hw[d].up
  BY DEF Boot
<1> QED
  BY <1>3, <1>4

(* A restart, also one that comes after the test, runs the version that is *)
(* under test and reads the configuration as it was saved.                 *)
LEMMA DevicePass ==
    ASSUME IInv, PassInv, NEW d \in Devices, GoesDown(d) \/ Boot(d)
    PROVE PassInv'
<1>1. TypeInv /\ hw[d] \in Box /\ cur \in Devices
  BY DEF IInv, TypeInv
<1>2. UNCHANGED testVars /\ UNCHANGED pc /\ (hw[d].reloading \/ ~hw[d].up)
  BY <1>1, BootRestarts DEF GoesDown
<1>3. Restarted(d)
  <2>1. CASE GoesDown(d)
    BY <1>1, <2>1 DEF GoesDown, TypeInv, Box, Restarted
  <2> QED
    BY <1>1, <2>1, BootRestarts
<1>4. hw[d].saved.boot = 2 /\ NothingElse(hw[d]) => Bootable(d) \subseteq {2}
  BY DEF Bootable, Intact, NothingElse, NoImage, Versions
<1>5. Good(d, hw[d]) => Good(d, hw'[d])
  BY <1>2, <1>3, <1>4 DEF Restarted, Good, NothingElse, Still
<1>6. Two(hw[d]) => Two(hw'[d])
  BY <1>3, <1>4 DEF Restarted, Two, Boots, NothingElse
<1>7. hw'[d].runs = 2 /\ hw[d].runs # 2 => hw[d].flash[2] = "good"
  BY <1>1, <1>3 DEF Restarted, Bootable, Intact
<1>8. hw[d] # AsShipped(shipped[d])
  BY <1>2 DEF AsShipped
<1>9. TestInv'
  BY <1>1, <1>2, <1>3, <1>5, <1>6, <1>7, <1>8 DEF PassInv, TestInv, testVars, Restarted
<1>10. (\A e \in Devices : e > cur => hw[e] = AsShipped(shipped[e]))'
  BY <1>2, <1>3, <1>8 DEF PassInv, testVars, Restarted
<1>11. (\A e \in Devices : outcome[e] = "passed" => Good(e, hw[e]))'
  BY <1>2, <1>3, <1>5 DEF PassInv, testVars, Restarted
<1> QED
  BY <1>9, <1>10, <1>11 DEF PassInv

LEMMA NextPassInv == IInv /\ PassInv /\ [FirmwareNext]_firmware_vars => PassInv'
<1> SUFFICES ASSUME IInv, PassInv, [FirmwareNext]_firmware_vars PROVE PassInv'
  OBVIOUS
<1>1. CASE Runner
  <2>1. \/ pc \in {"snapshot", "post", "reapply"} \/ UNCHANGED hw
        \/ Transfer \/ TransferFails \/ ScpRaises \/ SetBootVariable \/ BootRaises
        \/ WriteMemory \/ WriteRaises \/ Reload
    BY <1>1 DEF Runner, Resolve, SnapshotFails, Snapshot, Upgrade, NothingToInstall, CannotConnect,
     Inspect, VerifyMd5, ReloadNotHeard, CommandRaises, WaitForReload, VerifyVersion,
     VerifyCannotConnect, ReconnectFails, ReconnectRaises, Reconnect, ReapplyConfig, ReapplyFails,
     PostCannotConnect, PostValidation
  <2> QED
    BY <1>1, <2>1, SnapshotPass, PostPass, ReapplyPass, WritesPass, QuietPass
<1>2. ASSUME NEW d \in Devices, GoesDown(d) \/ Boot(d) PROVE PassInv'
  BY <1>2, DevicePass
<1>3. CASE UNCHANGED firmware_vars
  BY <1>3 DEF firmware_vars, PassInv, TestInv
<1> QED
  BY <1>1, <1>2, <1>3 DEF FirmwareNext

(* A device that is reported as passed runs the version under test with    *)
(* the settings of its snapshot, and a restart changes neither             *)
(* (tester.py:188, test_upgrade): also one that could not be read before,  *)
(* whose own image the tests may overwrite, and also after a reload that   *)
(* was confirmed and comes only when the result is recorded; except that   *)
(* a boot line which replaces the one before it is sent with the snapshot, *)
(* and then names the old image (tester.py:505, _reapply_config).          *)
THEOREM PassedIsUpgraded == FirmwareSpec => []PassedMeansUpgraded
<1>1. PassInv => PassedMeansUpgraded
  BY DEF PassInv, Good, PassedMeansUpgraded
<1> QED
  BY <1>1, InitPassInv, NextPassInv, Safety, PTL DEF FirmwareSpec

(* The image that a device boots next is checked. An upgrade writes to the *)
(* flash either another one, or the same one over itself.                  *)
Bootworthy(b) ==
    b.saved.boot \in Versions /\ (catalog[b.saved.boot].md5 => b.flash[b.saved.boot] = "good")

Checked(d) == shipped[d] = 1 /\ (d \in Replacing => catalog[1].file = "good")

ImageInv ==
    /\ \A d \in Devices : Checked(d) => Bootworthy(hw[d])
    /\ Checked(cur) =>
          /\ pc \in {"upgrade", "transfer", "md5", "boot", "write"} =>
                hw[cur].saved.boot # Goal \/ hw[cur].flash[Goal] = catalog[Goal].file
          /\ pc \in {"boot", "write"} /\ catalog[Goal].md5 => hw[cur].flash[Goal] = "good"

(* A step that leaves saved boot variable and flash alone. *)
SameImages == hw'[cur].saved.boot = hw[cur].saved.boot /\ hw'[cur].flash = hw[cur].flash

LEMMA ImageKept ==
    ASSUME TypeInv, ImageInv, Runner, Checked(cur) => Bootworthy(hw'[cur])
    PROVE \A d \in Devices : Checked(d) => Bootworthy(hw'[d])
BY RunnerFrame DEF ImageInv

LEMMA Images ==
    ASSUME TypeInv, Runner, pc \notin {"transfer", "write", "reapply"}
    PROVE SameImages
<1>1. hw[cur] \in Box
  BY DEF TypeInv
<1>2. UNCHANGED hw => SameImages
  BY DEF SameImages
<1>3. CASE SetBootVariable
  BY <1>3, BootWrites DEF SameImages
<1>4. CASE BootRaises
  BY <1>4, BootWrites DEF SameImages
<1>5. CASE Reload
  BY <1>1, <1>5 DEF Reload, SameImages, TypeInv, Box
<1>6. CASE Upgrade /\ ~(SetBootVariable \/ BootRaises \/ Reload)
  BY <1>2, <1>6 DEF Upgrade, NothingToInstall, CannotConnect, Inspect, Transfer, TransferFails,
     VerifyMd5, ScpRaises, WriteMemory, WriteRaises, ReloadNotHeard, CommandRaises, WaitForReload, VerifyVersion,
     VerifyCannotConnect
<1>7. CASE ~Upgrade
  BY <1>2, <1>7 DEF Runner, Resolve, SnapshotFails, Snapshot, ReconnectFails, ReconnectRaises,
     Reconnect, ReapplyConfig, ReapplyFails, PostCannotConnect, PostValidation
<1> QED
  BY <1>3, <1>4, <1>5, <1>6, <1>7

(* What is left to show of a step of the tests. *)
NextImages ==
    pc' \in {"upgrade", "transfer", "md5", "boot", "write"} /\ Checked(cur)' =>
        /\ hw'[cur'].saved.boot # Goal' \/ hw'[cur'].flash[Goal'] = catalog'[Goal'].file
        /\ pc' \in {"boot", "write"} /\ catalog'[Goal'].md5 => hw'[cur'].flash[Goal'] = "good"

LEMMA ImageStep ==
    ASSUME TypeInv, ImageInv, Runner, Checked(cur) => Bootworthy(hw'[cur]), NextImages
    PROVE ImageInv'
<1>1. \A d \in Devices : Checked(d) => Bootworthy(hw'[d])
  BY ImageKept
<1>2. UNCHANGED <<catalog, shipped>>
  BY RunnerFrame
<1> QED
  BY <1>1, <1>2 DEF ImageInv, NextImages, Bootworthy, Checked

LEMMA TransferImages ==
    ASSUME IInv, ImageInv, Transfer \/ TransferFails \/ ScpRaises, Runner
    PROVE ImageInv'
<1>1. pc = "transfer" /\ TypeInv /\ Goal \in Versions /\ hw[cur] \in Box
  BY CurFacts DEF Transfer, TransferFails, ScpRaises, IInv
<1>2. /\ hw'[cur].saved = hw[cur].saved
      /\ \A v \in Versions \ {Goal} : hw'[cur].flash[v] = hw[cur].flash[v]
      /\ hw[cur].flash[Goal] = catalog[Goal].file => hw'[cur].flash[Goal] = hw[cur].flash[Goal]
  BY <1>1, TransferWrites DEF SameBoot
<1>3. Checked(cur) => hw[cur].saved.boot # Goal \/ hw[cur].flash[Goal] = catalog[Goal].file
  BY <1>1 DEF ImageInv
<1>4. Checked(cur) => Bootworthy(hw'[cur])
  BY <1>1, <1>2, <1>3 DEF ImageInv, TypeInv, Bootworthy
<1>5. CASE TransferFails \/ ScpRaises
  <2>1. pc' \in {"resolve", "done"}
    BY <1>5 DEF TransferFails, ScpRaises, Upgraded, Result
  <2> QED
    BY <1>1, <1>4, <2>1, ImageStep DEF NextImages
<1>6. CASE Transfer
  <2>1. UNCHANGED testVars /\ pc' = (IF catalog[Goal].md5 THEN "md5" ELSE "boot")
    BY <1>6 DEF Transfer, Goto
  <2>2. Goal' = Goal /\ cur' = cur /\ catalog' = catalog /\ Checked(cur)' = Checked(cur)
    BY <2>1 DEF Goal, testVars, Checked
  <2>3. NextImages
    BY <1>2, <1>3, <2>1, <2>2 DEF NextImages
  <2> QED
    BY <1>1, <1>4, <2>3, ImageStep
<1> QED
  BY <1>5, <1>6

LEMMA WriteImages == ASSUME IInv, ImageInv, WriteMemory \/ WriteRaises, Runner PROVE ImageInv'
<1>1. /\ pc = "write" /\ pc' \in {"reload", "resolve", "done"} /\ TypeInv
      /\ Goal \in Versions /\ hw[cur] \in Box
  BY CurFacts DEF WriteMemory, WriteRaises, Upgraded, Result, Goto, IInv
<1>2. /\ hw'[cur].saved.boot \in {hw[cur].running.boot, hw[cur].saved.boot}
      /\ hw'[cur].flash = hw[cur].flash
  BY <1>1, MemoryWrites
<1>3. shipped[cur] = 1 => hw[cur].running.boot = Goal
  BY <1>1 DEF IInv, CurInv
<1>4. Checked(cur) => Bootworthy(hw'[cur])
  BY <1>1, <1>2, <1>3 DEF ImageInv, TypeInv, Bootworthy, Checked
<1> QED
  BY <1>1, <1>4, ImageStep DEF NextImages

(* The old boot line may come back; its image is still as it was, until a  *)
(* rollback writes the same one over it.                                   *)
LEMMA ReapplyImages ==
    ASSUME IInv, PassInv, ImageInv, ReapplyConfig \/ ReapplyFails, Runner
    PROVE ImageInv'
<1>1. /\ pc = "reapply" /\ pc' \in {"resolve", "done", "post"} /\ TypeInv /\ hw[cur] \in Box
      /\ cur \in Devices /\ job \in {"test", "rollback"}
  BY CurFacts DEF ReapplyConfig, ReapplyFails, Reapplied, Result, IInv, TypeInv
<1>2. /\ hw'[cur].running.boot \in {hw[cur].running.boot, snapshot.boot}
      /\ hw'[cur].saved \in {hw[cur].saved, hw'[cur].running}
      /\ hw'[cur].flash = hw[cur].flash
  BY <1>1, ReapplyWrites
<1>3. shipped[cur] = 1 => /\ hw[cur].running.boot = hw[cur].saved.boot /\ snapshot.boot = 1
                          /\ job = "rollback" => hw[cur].saved.boot = 1
                          /\ job = "test" => hw[cur].flash[1] = "good"
  BY <1>1 DEF IInv, CurInv, PassInv, TestInv, Boots, Goal
<1>4. Checked(cur) => Bootworthy(hw'[cur])
  <2> SUFFICES ASSUME Checked(cur) PROVE Bootworthy(hw'[cur])
    OBVIOUS
  <2>1. Bootworthy(hw[cur]) /\ shipped[cur] = 1
    BY <1>1 DEF ImageInv, Checked
  <2>2. hw'[cur].saved.boot \in {hw[cur].saved.boot, 1}
    BY <1>2, <1>3, <2>1
  <2> QED
    BY <1>1, <1>2, <1>3, <2>1, <2>2 DEF Bootworthy, TypeInv, Versions
<1> QED
  BY <1>1, <1>4, ImageStep DEF NextImages

LEMMA OtherImages ==
    ASSUME IInv, PassInv, ImageInv, Runner, pc \notin {"transfer", "write", "reapply"}
    PROVE ImageInv'
<1>1. /\ TypeInv /\ SameImages /\ UNCHANGED <<catalog, shipped>>
      /\ job \in {"test", "rollback"} /\ cur \in Devices /\ shipped[cur] \in Versions
      /\ Goal \in Versions
  BY CurFacts, Images, RunnerFrame DEF IInv, TypeInv
<1>2. Checked(cur) => Bootworthy(hw'[cur])
  BY <1>1 DEF ImageInv, SameImages, Bootworthy
<1>3. CASE pc = "snapshot" /\ Snapshot /\ pc' = "upgrade"
  <2>1. cur' = cur /\ job' = job /\ job = "test"
    BY <1>3 DEF Snapshot, Result, IInv, TypeInv
  <2>2. Goal' = 2
    BY <2>1 DEF Goal
  <2>3. shipped[cur] = 1 => hw[cur].saved.boot = 1
    BY <1>3 DEF IInv, CurInv, Calm, Boots
  <2> QED
    BY <1>1, <1>2, <1>3, <2>1, <2>2, <2>3, ImageStep DEF NextImages, SameImages, Checked
<1>4. CASE pc = "post" /\ PostValidation /\ pc' = "upgrade"
  <2>1. cur' = cur /\ job' = "rollback" /\ previous' = previous /\ previous \in Versions
    BY <1>4 DEF PostValidation, Result
  <2>2. shipped[cur] = 1 => /\ previous # 2 /\ job = "test" /\ hw[cur].flash[1] = "good"
                            /\ cur \notin Replacing => hw[cur].saved.boot = 2
    BY <1>4 DEF IInv, CurInv, PassInv, TestInv, Boots, Goal
  <2>3. shipped[cur] = 1 => Goal' = 1
    BY <2>1, <2>2 DEF Goal, Versions
  <2>4. NextImages
    <3> SUFFICES ASSUME Checked(cur)'
                 PROVE hw[cur].saved.boot # 1 \/ hw[cur].flash[1] = catalog[1].file
      BY <1>1, <1>4, <2>1, <2>3 DEF NextImages, SameImages, Checked
    <3> QED
      BY <1>1, <2>1, <2>2 DEF Checked
  <2> QED
    BY <1>1, <1>2, <2>4, ImageStep
<1>5. CASE pc' \in {"transfer", "md5", "boot", "write"}
  <2>1. /\ UNCHANGED testVars
        /\ pc \in {"upgrade", "md5", "boot"} /\ pc' \notin {"md5"}
        /\ pc' = "boot" => VerifyMd5 /\ pc = "md5" /\ hw[cur].flash[Goal] = "good"
        /\ pc' = "write" => pc = "boot"
    <3>1. Upgrade
      BY <1>1, <1>5 DEF Runner, Resolve, SnapshotFails, Snapshot, ReconnectFails, ReconnectRaises,
         Reconnect, ReapplyConfig, ReapplyFails, PostCannotConnect, PostValidation, Result, Goto,
         Reapplied
    <3> QED
      BY <1>5, <3>1 DEF Upgrade, NothingToInstall, CannotConnect, Inspect, Transfer, TransferFails,
         VerifyMd5, ScpRaises, SetBootVariable, BootRaises, WriteMemory,
     WriteRaises, Reload, ReloadNotHeard,
     CommandRaises, WaitForReload, VerifyVersion, VerifyCannotConnect, Upgraded, Result, Goto
  <2>2. Goal' = Goal /\ cur' = cur /\ Checked(cur)' = Checked(cur)
    BY <1>1, <2>1 DEF Goal, testVars, Checked
  <2>3. Checked(cur) => /\ hw[cur].saved.boot # Goal \/ hw[cur].flash[Goal] = catalog[Goal].file
                        /\ pc' \in {"boot", "write"} /\ catalog[Goal].md5 =>
                              hw[cur].flash[Goal] = "good"
    BY <2>1 DEF ImageInv
  <2> QED
    BY <1>1, <1>2, <2>2, <2>3, ImageStep DEF NextImages, SameImages
<1>6. CASE pc' \notin {"upgrade", "transfer", "md5", "boot", "write"}
  BY <1>1, <1>2, <1>6, ImageStep DEF NextImages
<1>7. CASE pc' = "upgrade"
  <2>1. (pc = "snapshot" /\ Snapshot) \/ (pc = "post" /\ PostValidation)
    BY <1>1, <1>7 DEF Runner, Upgrade, NothingToInstall, CannotConnect, Inspect, Transfer,
       TransferFails, VerifyMd5, ScpRaises, SetBootVariable, BootRaises, WriteMemory,
     WriteRaises, Reload, ReloadNotHeard,
       CommandRaises, WaitForReload, VerifyVersion, VerifyCannotConnect, Upgraded, Result, Goto,
       Resolve, SnapshotFails, Snapshot, ReconnectFails, ReconnectRaises, Reconnect,
       ReapplyConfig, ReapplyFails, Reapplied, PostCannotConnect, PostValidation
  <2> QED
    BY <1>3, <1>4, <1>7, <2>1
<1> QED
  BY <1>5, <1>6, <1>7

LEMMA NextImageInv == IInv /\ PassInv /\ ImageInv /\ [FirmwareNext]_firmware_vars => ImageInv'
<1> SUFFICES ASSUME IInv, PassInv, ImageInv, [FirmwareNext]_firmware_vars PROVE ImageInv'
  OBVIOUS
<1>1. CASE Runner /\ pc \notin {"transfer", "write", "reapply"}
  BY <1>1, OtherImages
<1>2. CASE Runner /\ pc \in {"transfer", "write", "reapply"}
  <2>1. CASE Transfer \/ TransferFails \/ ScpRaises
    BY <1>2, <2>1, TransferImages
  <2>2. CASE WriteMemory \/ WriteRaises
    BY <1>2, <2>2, WriteImages
  <2>3. CASE ReapplyConfig \/ ReapplyFails
    BY <1>2, <2>3, ReapplyImages
  <2>4. \/ Transfer \/ TransferFails \/ ScpRaises \/ WriteMemory \/ WriteRaises
        \/ ReapplyConfig \/ ReapplyFails
    BY <1>2 DEF Runner, Upgrade, NothingToInstall, CannotConnect, Inspect, VerifyMd5,
       SetBootVariable, BootRaises, Reload, ReloadNotHeard, CommandRaises, WaitForReload,
       VerifyVersion, VerifyCannotConnect, Resolve, SnapshotFails, Snapshot, ReconnectFails,
       ReconnectRaises, Reconnect, PostCannotConnect, PostValidation
  <2> QED
    BY <1>2, <2>1, <2>2, <2>3, <2>4
<1>3. ASSUME NEW d \in Devices, GoesDown(d) \/ Boot(d) PROVE ImageInv'
  <2>1. hw[d] \in Box /\ TypeInv
    BY DEF IInv, TypeInv
  <2>2. /\ UNCHANGED testVars /\ UNCHANGED pc
        /\ \A e \in Devices : /\ hw'[e].saved.boot = hw[e].saved.boot
                              /\ hw'[e].flash = hw[e].flash
    <3>1. CASE GoesDown(d)
      BY <2>1, <3>1 DEF GoesDown, TypeInv, Box
    <3>2. CASE Boot(d)
      BY <2>1, <3>2, BootRestarts DEF Restarted
    <3> QED
      BY <1>3, <3>1, <3>2
  <2>3. Goal' = Goal
    BY <2>2 DEF Goal, testVars
  <2> QED
    BY <2>1, <2>2, <2>3 DEF ImageInv, Bootworthy, Checked, testVars, TypeInv
<1>4. CASE UNCHANGED firmware_vars
  BY <1>4 DEF firmware_vars, ImageInv, Bootworthy, Checked, Goal
<1> QED
  BY <1>1, <1>2, <1>3, <1>4 DEF FirmwareNext

(* What a device boots next is an image that its checksum was computed for *)
(* on the device, where the catalogue gives one (firmware.py:302): the     *)
(* transfer overwrites the image that is to boot only in the rollback of a *)
(* device on which the old boot line came back with the snapshot, and then *)
(* with the same image if the file on the laptop is the right one.         *)
THEOREM BootsWhatWasVerified == FirmwareSpec => []BootImageVerified
<1>1. FirmwareInit => ImageInv
  <2> SUFFICES ASSUME FirmwareInit PROVE ImageInv
    OBVIOUS
  <2>1. \A d \in Devices : shipped[d] = 1 => Bootworthy(hw[d])
    BY DEF FirmwareInit, AsShipped, Configured, Bootworthy, Versions
  <2> QED
    BY <2>1 DEF FirmwareInit, ImageInv, Checked
<1>2. ImageInv => BootImageVerified
  BY DEF ImageInv, Bootworthy, Checked, BootImageVerified
<1> QED
  BY <1>1, <1>2, InitPassInv, NextPassInv, NextImageInv, Safety, PTL DEF FirmwareSpec
-----------------------------------------------------------------------------
(***************************************************************************)
(* The provisioning of a server or a clock.                                *)
(***************************************************************************)
Rights == {"config", "login", "none"}

BoxType ==
    [bmc: {"up", "restarting"}, moved: BOOLEAN, accounts: [Names -> Rights], secrets: [Names -> {"old", "new"}],
     bios: BOOLEAN, pending: BOOLEAN, drives: SUBSET {"old", "data"}, media: SUBSET {"spp", "os", "ks"},
     once: BOOLEAN, run: {"idle", "post", "installer", "spp", "os"}, installed: BOOLEAN,
     sections: SUBSET {"firmware", "network", "services", "references", "ntp_service", "system", "spp"}]

Operations ==
    ConfigOps \cup Waits \cup
    {"connect", "info", "manager", "upload", "read_bios", "reset", "controllers",
     "mount_spp", "mount_os", "mount_ks", "one_time_boot", "eject"}

UserOp(n) == IF n = "ops" THEN "user_ops" ELSE "user_admin"
UserOps == {"user_ops", "user_admin"}
Mounts == {"mount_spp", "mount_os", "mount_ks"}

(* The steps that the plan of the entry may hold: where a failure does not *)
(* end the call, and what a request presupposes of the entry.              *)
Step ==
    {s \in [op: Operations, on: {"fails", "ignored", "escapes"}] :
        /\ s.on = "ignored" =>
              \/ s.op \in Waits \cup {"info"}
              \/ spec.kind = "ntp" /\ s.op \in UserOps
              \/ spec.kind = "install" /\ s.op \in {"mount_ks", "eject"}
        /\ s.on = "escapes" => spec.kind = "install"
        /\ s.op \in UserOps => spec.kind \in {"hpe", "ntp"}
        /\ \A n \in Names : s.op = UserOp(n) => n \in spec.users
        /\ s.op = "remove_admin" => spec.kind = "hpe" /\ spec.remove /\ spec.users # {}
        /\ s.op = "create_drive" => spec.raid # "none"}

Ops(s) == {s[i].op : i \in DOMAIN s}

\* After one of A comes b, later; after a comes none of B.
Leads(s, A, b) == \A i \in DOMAIN s : s[i].op \in A => \E j \in DOMAIN s : j > i /\ s[j].op = b
Bars(s, a, B) == \A i, j \in DOMAIN s : s[i].op = a /\ j > i => s[j].op \notin B

(* What follows the reading of the BIOS settings. *)
Patches(s) ==
    \A i \in DOMAIN s :
        /\ s[i].op = "read_bios" =>
              i + 3 \in DOMAIN s /\ s[i + 1].op = "patch_bios" /\ s[i + 3].op = "await_post"
        /\ s[i].op = "patch_bios" => i + 1 \in DOMAIN s /\ s[i + 1].op = "reset"

Sound(s) ==
    /\ s \in Seq(Step)
    /\ Patches(s)
    /\ Leads(s, Mounts, "eject") /\ Leads(s, {"clear_drives"}, "create_drive")
    /\ spec.kind = "hpe" /\ spec.remove => Leads(s, UserOps, "remove_admin")
    /\ Bars(s, "create_drive", {"create_drive", "clear_drives"}) /\ Bars(s, "remove_admin", UserOps)

Endings == {"discovered", "provisioned", "installed", "failed"}

ProvisioningType ==
    /\ spec \in Specs /\ box \in BoxType /\ login \in Names /\ secret \in {"old", "new"} /\ hung \in BOOLEAN
    /\ device_state \in Endings /\ result \in {"none", "true", "false", "raised"}
    /\ calls \in Nat /\ faults \in Nat /\ rejected \in BOOLEAN

PlanInv == Sound(plan) /\ (plan # <<>> => result = "none")

(* The default account goes only when another one can take its place.      *)
AccessInv ==
    Provided =>
        /\ box.accounts["admin"] = "config" \/ box.accounts["ops"] = "config"
        /\ "remove_admin" \in Ops(plan) => "user_ops" \in Ops(plan) \/ box.accounts["ops"] = "config"

(* What the requests of a call were for, as long as none has failed, or    *)
(* been left without an answer.                                            *)
Due(b) == b.bios \/ (b.pending /\ b.run = "post")

BiosInv ==
    \/ "read_bios" \in Ops(plan) \/ Due(box)
    \/ plan # <<>> /\ plan[1].op = "patch_bios"
    \/ plan # <<>> /\ plan[1].op = "reset" /\ (box.pending \/ box.bios)

ServerInv ==
    /\ spec.bios => BiosInv
    /\ spec.raid # "none" => "create_drive" \in Ops(plan) \/ box.drives = {"data"}
    /\ spec.spp \/ spec.os => "eject" \in Ops(plan) \/ box.media = {}
    /\ \A n \in spec.users : UserOp(n) \in Ops(plan) \/ AsGiven(n) \/ (n = "admin" /\ spec.remove)
    /\ spec.remove /\ spec.users # {} => "remove_admin" \in Ops(plan) \/ box.accounts["admin"] = "none"

Sent(section) == section \in Ops(plan) \/ section \in box.sections

WorkInv ==
    Running \/ result = "true" =>
        /\ spec.kind = "hpe" => ServerInv /\ (spec.services => Sent("services")) /\ (spec.network => Sent("network"))
        /\ spec.kind = "ntp" =>
              /\ spec.services => Sent("references") /\ Sent("ntp_service") /\ Sent("system")
              /\ spec.network => Sent("network")

(* In a call without a fault the old drives go before the new ones come.   *)
DrivesInv ==
    faults = 0 /\ spec.raid = "clear" /\ "create_drive" \in Ops(plan) =>
        "clear_drives" \in Ops(plan) \/ box.drives = {}

ProvisioningInv ==
    ProvisioningType /\ PlanInv /\ AccessInv /\ WorkInv /\ DrivesInv /\ RetrySucceeds

-----------------------------------------------------------------------------
(***************************************************************************)
(* Sequences of steps: how they are put together, and taken off.           *)
(***************************************************************************)
Fatal == {o \in Operations : [op |-> o, on |-> "fails"] \in Step}
Escaping == {o \in Operations : [op |-> o, on |-> "escapes"] \in Step}
Ignored == {o \in Operations : [op |-> o, on |-> "ignored"] \in Step}

LEMMA MustFacts ==
    ASSUME NEW ops \in Seq(Fatal)
    PROVE /\ Must(ops) \in Seq(Step) /\ DOMAIN Must(ops) = 1..Len(ops)
          /\ \A i \in 1..Len(ops) : Must(ops)[i].op = ops[i]
BY DEF Must, Fatal

LEMMA MayFacts ==
    ASSUME NEW ops \in Seq(Ignored)
    PROVE /\ May(ops) \in Seq(Step) /\ DOMAIN May(ops) = 1..Len(ops)
          /\ \A i \in 1..Len(ops) : May(ops)[i].op = ops[i]
BY DEF May, Ignored

LEMMA BareFacts ==
    ASSUME NEW ops \in Seq(Escaping)
    PROVE /\ Bare(ops) \in Seq(Step) /\ DOMAIN Bare(ops) = 1..Len(ops)
          /\ \A i \in 1..Len(ops) : Bare(ops)[i].op = ops[i]
BY DEF Bare, Escaping

\* Of two sequences, one behind the other.
LEMMA ConcatFacts ==
    ASSUME NEW s \in Seq(Step), NEW t \in Seq(Step)
    PROVE /\ Len(s) \in Nat /\ Len(t) \in Nat /\ DOMAIN s = 1..Len(s) /\ DOMAIN t = 1..Len(t)
          /\ s \o t \in Seq(Step) /\ Len(s \o t) = Len(s) + Len(t)
          /\ DOMAIN (s \o t) = 1..Len(s) + Len(t)
          /\ \A i \in 1..Len(s) : (s \o t)[i] = s[i]
          /\ \A i \in 1..Len(t) : (s \o t)[Len(s) + i] = t[i]
OBVIOUS

LEMMA OpsConcat ==
    ASSUME NEW s \in Seq(Step), NEW t \in Seq(Step)
    PROVE s \o t \in Seq(Step) /\ Ops(s \o t) = Ops(s) \cup Ops(t)
<1>1. ASSUME NEW i \in DOMAIN s PROVE s[i].op \in Ops(s \o t)
  <2>1. i \in DOMAIN (s \o t) /\ (s \o t)[i] = s[i]
    BY ConcatFacts
  <2> QED
    BY <2>1 DEF Ops
<1>2. ASSUME NEW i \in DOMAIN t PROVE t[i].op \in Ops(s \o t)
  <2>1. Len(s) + i \in DOMAIN (s \o t) /\ (s \o t)[Len(s) + i] = t[i]
    BY ConcatFacts
  <2> QED
    BY <2>1 DEF Ops
<1>3. ASSUME NEW i \in DOMAIN (s \o t) PROVE (s \o t)[i].op \in Ops(s) \cup Ops(t)
  <2>1. CASE i <= Len(s)
    BY <2>1, ConcatFacts DEF Ops
  <2>2. CASE ~ (i <= Len(s))
    <3>1. i - Len(s) \in DOMAIN t /\ (s \o t)[i] = t[i - Len(s)]
      BY <2>2, ConcatFacts
    <3> QED
      BY <3>1 DEF Ops
  <2> QED
    BY <2>1, <2>2
<1>4. Ops(s) \subseteq Ops(s \o t) /\ Ops(t) \subseteq Ops(s \o t)
  BY <1>1, <1>2 DEF Ops
<1>5. Ops(s \o t) \subseteq Ops(s) \cup Ops(t)
  <2> SUFFICES ASSUME NEW o \in Ops(s \o t) PROVE o \in Ops(s) \cup Ops(t)
    OBVIOUS
  <2>1. PICK i \in DOMAIN (s \o t) : o = (s \o t)[i].op
    BY DEF Ops
  <2> QED
    BY <1>3, <2>1
<1> QED
  BY <1>4, <1>5

LEMMA LeadsConcat ==
    ASSUME NEW s \in Seq(Step), NEW t \in Seq(Step), NEW A, NEW b,
           Leads(t, A, b), Leads(s, A, b) \/ b \in Ops(t)
    PROVE Leads(s \o t, A, b)
<1> DEFINE r == s \o t
<1>2. ASSUME NEW i \in DOMAIN r, r[i].op \in A
      PROVE \E j \in DOMAIN r : j > i /\ r[j].op = b
  <2>1. CASE i > Len(s)
    <3>1. i - Len(s) \in DOMAIN t /\ t[i - Len(s)] = r[i]
      BY ConcatFacts, <2>1
    <3>2. PICK j \in DOMAIN t : j > i - Len(s) /\ t[j].op = b
      BY <1>2, <3>1 DEF Leads
    <3>3. Len(s) + j \in DOMAIN r /\ Len(s) + j > i /\ r[Len(s) + j].op = b
      BY ConcatFacts, <3>2
    <3> QED
      BY <3>3
  <2>2. CASE ~ (i > Len(s))
    <3>1. i \in DOMAIN s /\ s[i] = r[i]
      BY ConcatFacts, <2>2
    <3>2. CASE Leads(s, A, b)
      <4>1. PICK j \in DOMAIN s : j > i /\ s[j].op = b
        BY <1>2, <3>1, <3>2 DEF Leads
      <4>2. j \in DOMAIN r /\ r[j] = s[j]
        BY ConcatFacts
      <4> QED
        BY <4>1, <4>2
    <3>3. CASE b \in Ops(t)
      <4>1. PICK j \in DOMAIN t : t[j].op = b
        BY <3>3 DEF Ops
      <4>2. Len(s) + j \in DOMAIN r /\ Len(s) + j > i /\ r[Len(s) + j].op = b
        BY ConcatFacts, <3>1, <4>1
      <4> QED
        BY <4>2
    <3> QED
      BY <3>2, <3>3
  <2> QED
    BY <2>1, <2>2
<1> QED
  BY <1>2 DEF Leads

LEMMA BarsConcat ==
    ASSUME NEW s \in Seq(Step), NEW t \in Seq(Step), NEW a, NEW B,
           Bars(s, a, B), Bars(t, a, B), a \notin Ops(s) \/ Ops(t) \cap B = {}
    PROVE Bars(s \o t, a, B)
<1> DEFINE r == s \o t
<1>2. ASSUME NEW i \in DOMAIN r, NEW j \in DOMAIN r, r[i].op = a, j > i
      PROVE r[j].op \notin B
  <2>1. CASE i > Len(s)
    <3>1. /\ i - Len(s) \in DOMAIN t /\ t[i - Len(s)] = r[i]
          /\ j - Len(s) \in DOMAIN t /\ t[j - Len(s)] = r[j] /\ j - Len(s) > i - Len(s)
      BY ConcatFacts, <1>2, <2>1
    <3> QED
      BY <1>2, <3>1 DEF Bars
  <2>2. CASE ~ (i > Len(s))
    <3>1. i \in DOMAIN s /\ s[i] = r[i] /\ a \in Ops(s)
      BY ConcatFacts, <1>2, <2>2 DEF Ops
    <3>2. CASE j > Len(s)
      <4>1. j - Len(s) \in DOMAIN t /\ t[j - Len(s)] = r[j]
        BY ConcatFacts, <3>2
      <4> QED
        BY <3>1, <4>1 DEF Ops
    <3>3. CASE ~ (j > Len(s))
      <4>1. j \in DOMAIN s /\ s[j] = r[j]
        BY ConcatFacts, <3>3
      <4> QED
        BY <1>2, <3>1, <4>1 DEF Bars
    <3> QED
      BY <3>2, <3>3
  <2> QED
    BY <2>1, <2>2
<1> QED
  BY <1>2 DEF Bars

LEMMA PatchesConcat ==
    ASSUME NEW s \in Seq(Step), NEW t \in Seq(Step), Patches(s), Patches(t)
    PROVE Patches(s \o t)
<1>1. \A i \in 1..Len(s) + Len(t) : i > Len(s) => (s \o t)[i] = t[i - Len(s)]
  BY ConcatFacts
<1> DEFINE r == s \o t
<1>2. ASSUME NEW i \in DOMAIN r
      PROVE /\ r[i].op = "read_bios" =>
                  i + 3 \in DOMAIN r /\ r[i + 1].op = "patch_bios" /\ r[i + 3].op = "await_post"
            /\ r[i].op = "patch_bios" => i + 1 \in DOMAIN r /\ r[i + 1].op = "reset"
  <2>1. CASE i > Len(s)
    <3>1. i - Len(s) \in DOMAIN t /\ t[i - Len(s)] = r[i]
      BY ConcatFacts, <1>1, <2>1
    <3>2. \A k \in {1, 3} : (i - Len(s)) + k \in DOMAIN t =>
             i + k \in DOMAIN r /\ r[i + k] = t[(i - Len(s)) + k]
      BY ConcatFacts, <1>1, <2>1
    <3> QED
      BY ConcatFacts, <1>1, <3>1, <3>2 DEF Patches
  <2>2. CASE ~ (i > Len(s))
    <3>1. i \in DOMAIN s /\ s[i] = r[i]
      BY ConcatFacts, <1>1, <2>2
    <3>2. \A k \in {1, 3} : i + k \in DOMAIN s => i + k \in DOMAIN r /\ r[i + k] = s[i + k]
      BY ConcatFacts, <1>1, <2>2
    <3> QED
      BY ConcatFacts, <1>1, <3>1, <3>2 DEF Patches
  <2> QED
    BY <2>1, <2>2
<1> QED
  BY <1>2 DEF Patches

LEMMA SoundConcat ==
    ASSUME NEW s \in Seq(Step), NEW t, Sound(t), Patches(s),
           Leads(s, Mounts, "eject") \/ "eject" \in Ops(t),
           Leads(s, {"clear_drives"}, "create_drive") \/ "create_drive" \in Ops(t),
           (spec.kind = "hpe" /\ spec.remove) =>
               (Leads(s, UserOps, "remove_admin") \/ "remove_admin" \in Ops(t)),
           Bars(s, "create_drive", {"create_drive", "clear_drives"}), Bars(s, "remove_admin", UserOps),
           "create_drive" \notin Ops(s) \/ Ops(t) \cap {"create_drive", "clear_drives"} = {},
           "remove_admin" \notin Ops(s) \/ Ops(t) \cap UserOps = {}
    PROVE Sound(s \o t)
BY OpsConcat, LeadsConcat, BarsConcat, PatchesConcat DEF Sound

\* Sequences that may follow each other as they are.
LEMMA SoundBoth ==
    ASSUME NEW s, NEW t, Sound(s), Sound(t),
           "create_drive" \notin Ops(s) \/ Ops(t) \cap {"create_drive", "clear_drives"} = {},
           "remove_admin" \notin Ops(s) \/ Ops(t) \cap UserOps = {}
    PROVE Sound(s \o t) /\ Ops(s \o t) = Ops(s) \cup Ops(t)
<1>1. s \in Seq(Step) /\ t \in Seq(Step)
  BY DEF Sound
<1>2. Ops(s \o t) = Ops(s) \cup Ops(t)
  BY <1>1, OpsConcat
<1>3. Sound(s \o t)
  BY <1>1, SoundConcat DEF Sound
<1> QED
  BY <1>2, <1>3

Special == Mounts \cup UserOps \cup
           {"read_bios", "patch_bios", "clear_drives", "create_drive", "remove_admin"}

LEMMA PlainSound ==
    ASSUME NEW s \in Seq(Step), Ops(s) \cap Special = {}
    PROVE Sound(s)
<1>1. \A i \in DOMAIN s : s[i].op \notin Special
  BY DEF Ops
<1> QED
  BY <1>1 DEF Sound, Special, Leads, Bars, Patches

LEMMA IfSound ==
    ASSUME NEW c \in BOOLEAN, NEW s, c => Sound(s)
    PROVE Sound(If(c, s)) /\ Ops(If(c, s)) = IF c THEN Ops(s) ELSE {}
<1>1. CASE c
  BY <1>1 DEF If
<1>2. CASE ~c
  <2>1. <<>> \in Seq(Step)
    OBVIOUS
  <2>2. If(c, s) = <<>> /\ Ops(<<>>) = {}
    BY <1>2 DEF If, Ops
  <2> QED
    BY <1>2, <2>1, <2>2, PlainSound
<1> QED
  BY <1>1, <1>2

-----------------------------------------------------------------------------
(***************************************************************************)
(* The plans.                                                              *)
(***************************************************************************)
\* Short sequences, spelled out.
LEMMA Must1 ==
    ASSUME NEW a \in Fatal
    PROVE LET s == Must(<<a>>) IN
          /\ s \in Seq(Step) /\ DOMAIN s = 1..1 /\ Ops(s) = {a}
          /\ s[1].op = a
<1> DEFINE l == <<a>>
<1>1. l \in Seq(Fatal) /\ Len(l) = 1 /\ l[1] = a
  OBVIOUS
<1> HIDE DEF l
<1>2. \A i \in 1..1 : i = 1
  OBVIOUS
<1>3. /\ Must(l) \in Seq(Step) /\ DOMAIN Must(l) = 1..1
      /\ \A i \in 1..1 : Must(l)[i].op = l[i]
  BY <1>1, MustFacts
<1>4. Must(l)[1].op = a
  BY <1>1, <1>3
<1>5. Ops(Must(l)) = {a}
  BY <1>2, <1>3, <1>4 DEF Ops
<1> QED
  BY <1>3, <1>4, <1>5 DEF l

LEMMA Must2 ==
    ASSUME NEW a \in Fatal, NEW b \in Fatal
    PROVE LET s == Must(<<a, b>>) IN
          /\ s \in Seq(Step) /\ DOMAIN s = 1..2 /\ Ops(s) = {a, b}
          /\ s[1].op = a /\ s[2].op = b
<1> DEFINE l == <<a, b>>
<1>1. l \in Seq(Fatal) /\ Len(l) = 2 /\ l[1] = a /\ l[2] = b
  OBVIOUS
<1> HIDE DEF l
<1>2. \A i \in 1..2 : i = 1 \/ i = 2
  OBVIOUS
<1>3. /\ Must(l) \in Seq(Step) /\ DOMAIN Must(l) = 1..2
      /\ \A i \in 1..2 : Must(l)[i].op = l[i]
  BY <1>1, MustFacts
<1>4. Must(l)[1].op = a /\ Must(l)[2].op = b
  BY <1>1, <1>3
<1>5. Ops(Must(l)) = {a, b}
  BY <1>2, <1>3, <1>4 DEF Ops
<1> QED
  BY <1>3, <1>4, <1>5 DEF l

LEMMA Must3 ==
    ASSUME NEW a \in Fatal, NEW b \in Fatal, NEW c \in Fatal
    PROVE LET s == Must(<<a, b, c>>) IN
          /\ s \in Seq(Step) /\ DOMAIN s = 1..3 /\ Ops(s) = {a, b, c}
          /\ s[1].op = a /\ s[2].op = b /\ s[3].op = c
<1> DEFINE l == <<a, b, c>>
<1>1. l \in Seq(Fatal) /\ Len(l) = 3 /\ l[1] = a /\ l[2] = b /\ l[3] = c
  OBVIOUS
<1> HIDE DEF l
<1>2. \A i \in 1..3 : i = 1 \/ i = 2 \/ i = 3
  OBVIOUS
<1>3. /\ Must(l) \in Seq(Step) /\ DOMAIN Must(l) = 1..3
      /\ \A i \in 1..3 : Must(l)[i].op = l[i]
  BY <1>1, MustFacts
<1>4. Must(l)[1].op = a /\ Must(l)[2].op = b /\ Must(l)[3].op = c
  BY <1>1, <1>3
<1>5. Ops(Must(l)) = {a, b, c}
  BY <1>2, <1>3, <1>4 DEF Ops
<1> QED
  BY <1>3, <1>4, <1>5 DEF l

LEMMA May1 ==
    ASSUME NEW a \in Ignored
    PROVE LET s == May(<<a>>) IN
          /\ s \in Seq(Step) /\ DOMAIN s = 1..1 /\ Ops(s) = {a}
          /\ s[1].op = a
<1> DEFINE l == <<a>>
<1>1. l \in Seq(Ignored) /\ Len(l) = 1 /\ l[1] = a
  OBVIOUS
<1> HIDE DEF l
<1>2. \A i \in 1..1 : i = 1
  OBVIOUS
<1>3. /\ May(l) \in Seq(Step) /\ DOMAIN May(l) = 1..1
      /\ \A i \in 1..1 : May(l)[i].op = l[i]
  BY <1>1, MayFacts
<1>4. May(l)[1].op = a
  BY <1>1, <1>3
<1>5. Ops(May(l)) = {a}
  BY <1>2, <1>3, <1>4 DEF Ops
<1> QED
  BY <1>3, <1>4, <1>5 DEF l

LEMMA May2 ==
    ASSUME NEW a \in Ignored, NEW b \in Ignored
    PROVE LET s == May(<<a, b>>) IN
          /\ s \in Seq(Step) /\ DOMAIN s = 1..2 /\ Ops(s) = {a, b}
          /\ s[1].op = a /\ s[2].op = b
<1> DEFINE l == <<a, b>>
<1>1. l \in Seq(Ignored) /\ Len(l) = 2 /\ l[1] = a /\ l[2] = b
  OBVIOUS
<1> HIDE DEF l
<1>2. \A i \in 1..2 : i = 1 \/ i = 2
  OBVIOUS
<1>3. /\ May(l) \in Seq(Step) /\ DOMAIN May(l) = 1..2
      /\ \A i \in 1..2 : May(l)[i].op = l[i]
  BY <1>1, MayFacts
<1>4. May(l)[1].op = a /\ May(l)[2].op = b
  BY <1>1, <1>3
<1>5. Ops(May(l)) = {a, b}
  BY <1>2, <1>3, <1>4 DEF Ops
<1> QED
  BY <1>3, <1>4, <1>5 DEF l

LEMMA Bare2 ==
    ASSUME NEW a \in Escaping, NEW b \in Escaping
    PROVE LET s == Bare(<<a, b>>) IN
          /\ s \in Seq(Step) /\ DOMAIN s = 1..2 /\ Ops(s) = {a, b}
          /\ s[1].op = a /\ s[2].op = b
<1> DEFINE l == <<a, b>>
<1>1. l \in Seq(Escaping) /\ Len(l) = 2 /\ l[1] = a /\ l[2] = b
  OBVIOUS
<1> HIDE DEF l
<1>2. \A i \in 1..2 : i = 1 \/ i = 2
  OBVIOUS
<1>3. /\ Bare(l) \in Seq(Step) /\ DOMAIN Bare(l) = 1..2
      /\ \A i \in 1..2 : Bare(l)[i].op = l[i]
  BY <1>1, BareFacts
<1>4. Bare(l)[1].op = a /\ Bare(l)[2].op = b
  BY <1>1, <1>3
<1>5. Ops(Bare(l)) = {a, b}
  BY <1>2, <1>3, <1>4 DEF Ops
<1> QED
  BY <1>3, <1>4, <1>5 DEF l

USE DEF UserOps, Mounts, UserOp

\* What may be in any plan.
Common == {"connect", "manager", "upload", "read_bios", "patch_bios", "reset", "controllers", "clear_drives",
           "mount_spp", "mount_os", "mount_ks", "one_time_boot", "eject", "flash", "network", "services",
           "references", "ntp_service", "system"} \cup Waits

LEMMA CommonSteps == Common \subseteq Fatal /\ Waits \cup {"info"} \subseteq Ignored
BY DEF Common, Operations, Waits, ConfigOps, Step, Names, Fatal, Ignored

\* One step, or several of no special kind.
LEMMA MustPlain ==
    ASSUME NEW a \in Common \ Special
    PROVE Sound(Must(<<a>>)) /\ Ops(Must(<<a>>)) = {a}
BY CommonSteps, Must1, PlainSound

LEMMA MayPlain ==
    ASSUME NEW a \in Waits \cup {"info"}
    PROVE Sound(May(<<a>>)) /\ Ops(May(<<a>>)) = {a}
BY CommonSteps, May1, PlainSound DEF Special, Waits

LEMMA FirmwareSound ==
    /\ Sound(UpdateIloFirmware) /\ Ops(UpdateIloFirmware) = {"manager", "flash", "await_task", "await_ilo"}
    /\ Sound(UpdateClock) /\ Ops(UpdateClock) = {"upload", "flash", "await_ilo"}
    /\ Sound(FlashFirmware) /\ Ops(FlashFirmware) = {"flash", "await_task", "await_ilo"}
<1> DEFINE m == Must(<<"manager", "flash">>)
           w == May(<<"await_task", "await_ilo">>)
           c == Must(<<"upload", "flash", "await_ilo">>)
           f == Must(<<"flash", "await_task">>)
<1>0. /\ {"manager", "flash", "upload", "await_ilo", "await_task"} \subseteq Common
      /\ {"await_ilo", "await_task"} \subseteq Waits
  BY DEF Common, Waits
<1>1. m \in Seq(Step) /\ Ops(m) = {"manager", "flash"} /\ f \in Seq(Step) /\ Ops(f) = {"flash", "await_task"}
  BY <1>0, CommonSteps, Must2
<1>2. c \in Seq(Step) /\ Ops(c) = {"upload", "flash", "await_ilo"}
  BY <1>0, CommonSteps, Must3
<1>3. w \in Seq(Step) /\ Ops(w) = {"await_task", "await_ilo"}
  BY <1>0, CommonSteps, May2
<1>4. May(<<"await_ilo">>) \in Seq(Step) /\ Ops(May(<<"await_ilo">>)) = {"await_ilo"}
  BY <1>0, CommonSteps, May1
<1> HIDE DEF m, w, c, f
<1>5. /\ Sound(m) /\ Sound(w) /\ Sound(c) /\ Sound(f) /\ Sound(May(<<"await_ilo">>))
  BY <1>1, <1>2, <1>3, <1>4, PlainSound DEF Special
<1>6. Sound(m \o w) /\ Ops(m \o w) = Ops(m) \cup Ops(w)
  BY <1>1, <1>5, SoundBoth
<1>7. /\ Sound(f \o May(<<"await_ilo">>))
      /\ Ops(f \o May(<<"await_ilo">>)) = Ops(f) \cup Ops(May(<<"await_ilo">>))
  BY <1>1, <1>5, SoundBoth
<1>8. UpdateIloFirmware = m \o w /\ FlashFirmware = f \o May(<<"await_ilo">>) /\ UpdateClock = c
  BY DEF UpdateIloFirmware, FlashFirmware, UpdateClock, m, w, f, c
<1> QED
  BY <1>1, <1>2, <1>3, <1>4, <1>5, <1>6, <1>7, <1>8

LEMMA BiosSound ==
    /\ Sound(ConfigureBios) /\ Ops(ConfigureBios) = {"read_bios", "patch_bios", "reset", "await_post"}
    /\ Sound(SetBios) /\ Ops(SetBios) = {"read_bios", "patch_bios", "reset", "await_post"}
<1> DEFINE m == Must(<<"read_bios", "patch_bios", "reset">>)
           w == May(<<"await_post">>)
           all == <<"read_bios", "patch_bios", "reset", "await_post">>
<1>0. {"read_bios", "patch_bios", "reset", "await_post"} \subseteq Common /\ "await_post" \in Waits
  BY DEF Common, Waits
<1>1. /\ m \in Seq(Step) /\ Ops(m) = {"read_bios", "patch_bios", "reset"} /\ DOMAIN m = 1..3
      /\ m[1].op = "read_bios" /\ m[2].op = "patch_bios" /\ m[3].op = "reset"
  BY <1>0, CommonSteps, Must3
<1>2. w \in Seq(Step) /\ Ops(w) = {"await_post"} /\ DOMAIN w = 1..1 /\ w[1].op = "await_post"
  BY <1>0, CommonSteps, May1
<1> HIDE DEF m, w
<1>3. /\ m \o w \in Seq(Step) /\ DOMAIN (m \o w) = 1..4
      /\ (m \o w)[1] = m[1] /\ (m \o w)[2] = m[2] /\ (m \o w)[3] = m[3] /\ (m \o w)[4] = w[1]
  <2>1. Len(m) = 3 /\ Len(w) = 1
    BY <1>1, <1>2
  <2>2. /\ m \o w \in Seq(Step) /\ Len(m \o w) = 4
        /\ \A i \in 1..3 : (m \o w)[i] = m[i] /\ (m \o w)[3 + 1] = w[1]
    BY <1>1, <1>2, <2>1, ConcatFacts
  <2> QED
    BY <2>2
<1>4. \A i \in 1..4 : i = 1 \/ i = 2 \/ i = 3 \/ i = 4
  OBVIOUS
<1>5. ASSUME NEW s \in Seq(Step), DOMAIN s = 1..4, s[1].op = "read_bios", s[2].op = "patch_bios",
             s[3].op = "reset", s[4].op = "await_post"
      PROVE Sound(s) /\ Ops(s) = {"read_bios", "patch_bios", "reset", "await_post"}
  <2>1. Patches(s)
    BY <1>4, <1>5 DEF Patches
  <2>2. \A i \in DOMAIN s : s[i].op \in {"read_bios", "patch_bios", "reset", "await_post"}
    BY <1>4, <1>5
  <2>3. Ops(s) = {"read_bios", "patch_bios", "reset", "await_post"}
    BY <1>4, <1>5 DEF Ops
  <2> QED
    BY <2>1, <2>2, <2>3 DEF Sound, Leads, Bars
<1>6. /\ all \in Seq(Fatal) /\ Len(all) = 4 /\ all[1] = "read_bios" /\ all[2] = "patch_bios"
      /\ all[3] = "reset" /\ all[4] = "await_post"
  BY <1>0, CommonSteps
<1> HIDE DEF all
<1>7. /\ Must(all) \in Seq(Step) /\ DOMAIN Must(all) = 1..4
      /\ \A i \in 1..4 : Must(all)[i].op = all[i]
  BY <1>6, MustFacts
<1>8. /\ Must(all)[1].op = "read_bios" /\ Must(all)[2].op = "patch_bios"
      /\ Must(all)[3].op = "reset" /\ Must(all)[4].op = "await_post"
  BY <1>6, <1>7
<1>9. ConfigureBios = m \o w /\ SetBios = Must(all)
  BY DEF ConfigureBios, SetBios, m, w, all
<1> QED
  BY <1>1, <1>2, <1>3, <1>5, <1>7, <1>8, <1>9

\* The drives are cleared before they are made, and never after.
LEMMA RaidSound ==
    ASSUME spec.raid # "none"
    PROVE /\ Sound(ConfigureRaid) /\ Sound(CreateRaid)
          /\ {"create_drive"} \subseteq Ops(ConfigureRaid) \cap Ops(CreateRaid)
          /\ spec.raid = "clear" => "clear_drives" \in Ops(ConfigureRaid) \cap Ops(CreateRaid)
          /\ Ops(ConfigureRaid) \cup Ops(CreateRaid) \subseteq
                {"controllers", "clear_drives", "create_drive", "reset", "await_post"}
<1> DEFINE r == {"controllers"} \cup (IF spec.raid = "clear" THEN {"clear_drives"} ELSE {})
           m == Must(<<"controllers">>)
           x == Must(<<"clear_drives">>)
           f == m \o If(spec.raid = "clear", x)
           c == Must(<<"create_drive", "reset">>)
           d == Must(<<"create_drive", "reset", "await_post">>)
           w == May(<<"await_post">>)
<1>1. /\ {"controllers", "clear_drives", "create_drive", "reset", "await_post"} \subseteq Fatal
      /\ "await_post" \in Ignored
  BY DEF Fatal, Ignored, Step, Operations, Waits, ConfigOps, Names
<1>2. /\ m \in Seq(Step) /\ Ops(m) = {"controllers"}
      /\ x \in Seq(Step) /\ Ops(x) = {"clear_drives"} /\ DOMAIN x = 1..1 /\ x[1].op = "clear_drives"
      /\ w \in Seq(Step) /\ Ops(w) = {"await_post"}
  BY <1>1, Must1, May1
<1>3. /\ c \in Seq(Step) /\ Ops(c) = {"create_drive", "reset"}
      /\ DOMAIN c = 1..2 /\ c[1].op = "create_drive" /\ c[2].op = "reset"
  BY <1>1, Must2
<1>4. /\ d \in Seq(Step) /\ Ops(d) = {"create_drive", "reset", "await_post"}
      /\ DOMAIN d = 1..3 /\ d[1].op = "create_drive" /\ d[2].op = "reset" /\ d[3].op = "await_post"
  BY <1>1, Must3
<1> HIDE DEF m, x, c, d, w
<1>5. f \in Seq(Step) /\ Ops(f) = r
  <2>1. CASE spec.raid = "clear"
    BY <1>2, <2>1, OpsConcat DEF If
  <2>2. CASE spec.raid # "clear"
    <3>1. If(spec.raid = "clear", x) = <<>> /\ <<>> \in Seq(Step) /\ Ops(<<>>) = {}
      BY <2>2 DEF If, Ops
    <3>2. m \o <<>> \in Seq(Step) /\ Ops(m \o <<>>) = {"controllers"}
      BY <1>2, <3>1, OpsConcat
    <3>3. r = {"controllers"}
      BY <2>2
    <3> QED
      BY <3>1, <3>2, <3>3
  <2> QED
    BY <2>1, <2>2
<1> HIDE DEF f
<1>6. \A i \in DOMAIN f : f[i].op \in {"controllers", "clear_drives"}
  BY <1>5 DEF Ops
<1>7. /\ Patches(f) /\ Leads(f, Mounts, "eject") /\ Leads(f, UserOps, "remove_admin")
      /\ Bars(f, "create_drive", {"create_drive", "clear_drives"}) /\ Bars(f, "remove_admin", UserOps)
      /\ "create_drive" \notin Ops(f) /\ "remove_admin" \notin Ops(f)
  BY <1>5, <1>6 DEF Patches, Leads, Bars
<1>8. Sound(c) /\ Sound(d) /\ Sound(w)
  <2>1. \A i \in 1..2 : i = 1 \/ i = 2
    OBVIOUS
  <2>2. Sound(c)
    BY <1>3, <2>1 DEF Sound, Patches, Leads, Bars
  <2>3. \A i \in 1..3 : i = 1 \/ i = 2 \/ i = 3
    OBVIOUS
  <2>4. Sound(d)
    BY <1>4, <2>3 DEF Sound, Patches, Leads, Bars
  <2> QED
    BY <1>2, <2>2, <2>4, PlainSound DEF Special
<1>9. Sound(f \o c) /\ Ops(f \o c) = r \cup {"create_drive", "reset"}
  BY <1>3, <1>5, <1>7, <1>8, SoundConcat, OpsConcat
<1>10. Sound(f \o d) /\ Ops(f \o d) = r \cup {"create_drive", "reset", "await_post"}
  BY <1>4, <1>5, <1>7, <1>8, SoundConcat, OpsConcat
<1>11. Sound((f \o c) \o w) /\ Ops((f \o c) \o w) = r \cup {"create_drive", "reset", "await_post"}
  <2>1. "remove_admin" \notin Ops(f \o c)
    BY <1>9
  <2>2. Ops(w) \cap {"create_drive", "clear_drives"} = {}
    BY <1>2
  <2> QED
    BY <1>2, <1>8, <1>9, <2>1, <2>2, SoundBoth
<1>12. ConfigureRaid = (f \o c) \o w /\ CreateRaid = f \o d
  BY DEF ConfigureRaid, CreateRaid, f, m, x, c, d, w
<1> QED
  BY <1>10, <1>11, <1>12

\* Every mount is followed by an ejection.
LEMMA MediaSound ==
    /\ Sound(InstallSpp) /\ "eject" \in Ops(InstallSpp)
    /\ Sound(InstallOs) /\ "eject" \in Ops(InstallOs)
    /\ Ops(InstallSpp) \cup Ops(InstallOs) \subseteq
          {"mount_spp", "mount_os", "mount_ks", "one_time_boot", "reset", "await_post", "await_install", "eject"}
<1> DEFINE s == Must(<<"mount_spp", "one_time_boot", "reset">>)
           o == Must(<<"mount_os">>)
           k == Must(<<"mount_ks">>)
           b == Must(<<"one_time_boot", "reset">>)
           w == May(<<"await_post">>)
           v == May(<<"await_install">>)
           e == Must(<<"eject">>)
           media == {"mount_spp", "mount_os", "mount_ks", "one_time_boot", "reset", "await_post",
                     "await_install"}
           Media(q) == q \in Seq(Step) /\ Ops(q) \subseteq media
<1>1. /\ {"mount_spp", "mount_os", "mount_ks", "one_time_boot", "reset", "eject"} \subseteq Fatal
      /\ {"await_post", "await_install"} \subseteq Ignored
  BY DEF Fatal, Ignored, Step, Operations, Waits, ConfigOps, Names
<1>2. Media(s)
  BY <1>1, Must3
<1>3. Media(b)
  BY <1>1, Must2
<1>4. Media(o) /\ Media(k) /\ Media(w) /\ Media(v)
  BY <1>1, Must1, May1
<1>5. e \in Seq(Step) /\ Ops(e) = {"eject"}
  BY <1>1, Must1
<1>6. Media(If(spec.kickstart, k))
  <2>1. Media(<<>>)
    <3>1. <<>> \in Seq(Step)
      OBVIOUS
    <3> QED
      BY <3>1 DEF Ops
  <2> QED
    BY <1>4, <2>1 DEF If
<1> HIDE DEF s, o, k, b, w, v, e
<1>7. ASSUME NEW q, NEW r, Media(q), Media(r) PROVE Media(q \o r)
  BY <1>7, OpsConcat
<1>8. ASSUME NEW q, Media(q) PROVE Sound(q \o e) /\ Ops(q \o e) = Ops(q) \cup {"eject"}
  <2>1. \A i \in DOMAIN q : q[i].op \in media
    BY <1>8 DEF Ops
  <2>2. /\ Patches(q) /\ Leads(q, {"clear_drives"}, "create_drive") /\ Leads(q, UserOps, "remove_admin")
        /\ Bars(q, "create_drive", {"create_drive", "clear_drives"}) /\ Bars(q, "remove_admin", UserOps)
    BY <2>1 DEF Patches, Leads, Bars
  <2>3. Sound(e)
    BY <1>5, PlainSound DEF Special
  <2>4. "create_drive" \notin Ops(q) /\ "remove_admin" \notin Ops(q)
    BY <1>8
  <2> QED
    BY <1>5, <1>8, <2>2, <2>3, <2>4, SoundConcat, OpsConcat
<1>9. Media(s \o w)
  BY <1>2, <1>4, <1>7
<1>10. Media(((o \o If(spec.kickstart, k)) \o b) \o v)
  <2>1. Media(o \o If(spec.kickstart, k))
    BY <1>4, <1>6, <1>7
  <2>2. Media((o \o If(spec.kickstart, k)) \o b)
    BY <1>3, <1>7, <2>1
  <2> QED
    BY <1>4, <1>7, <2>2
<1>11. /\ InstallSpp = (s \o w) \o e
       /\ InstallOs = (((o \o If(spec.kickstart, k)) \o b) \o v) \o e
  BY DEF InstallSpp, InstallOs, s, o, k, b, w, v, e
<1> HIDE DEF Media
<1>12. /\ Sound((s \o w) \o e) /\ Ops((s \o w) \o e) = Ops(s \o w) \cup {"eject"}
       /\ Sound((((o \o If(spec.kickstart, k)) \o b) \o v) \o e)
       /\ Ops((((o \o If(spec.kickstart, k)) \o b) \o v) \o e)
             = Ops(((o \o If(spec.kickstart, k)) \o b) \o v) \cup {"eject"}
  BY <1>8, <1>9, <1>10
<1> QED
  BY <1>9, <1>10, <1>11, <1>12 DEF Media

LEMMA InstallSound == ASSUME spec.kind = "install" PROVE Sound(Install) /\ Ops(Install) \cap {"create_drive", "remove_admin"} = {}
<1> DEFINE o == Must(<<"mount_os">>)
           k == May(<<"mount_ks">>)
           b == Bare(<<"one_time_boot", "reset">>)
           w == Must(<<"await_install">>)
           e == May(<<"eject">>)
           media == {"mount_os", "mount_ks", "one_time_boot", "reset", "await_install"}
           q == ((o \o If(spec.kickstart, k)) \o b) \o w
<1>1. /\ {"mount_os", "await_install"} \subseteq Fatal /\ {"one_time_boot", "reset"} \subseteq Escaping
      /\ {"mount_ks", "eject"} \subseteq Ignored
  BY DEF Fatal, Ignored, Escaping, Step, Operations, Waits, ConfigOps, Names
<1>2. o \in Seq(Step) /\ Ops(o) = {"mount_os"}
  BY <1>1, Must1
<1>3. /\ k \in Seq(Step) /\ Ops(k) = {"mount_ks"} /\ e \in Seq(Step) /\ Ops(e) = {"eject"}
  BY <1>1, May1
<1>4. /\ b \in Seq(Step) /\ Ops(b) = {"one_time_boot", "reset"}
      /\ w \in Seq(Step) /\ Ops(w) = {"await_install"}
  BY <1>1, Bare2, Must1
<1>5. If(spec.kickstart, k) \in Seq(Step) /\ Ops(If(spec.kickstart, k)) \subseteq {"mount_ks"}
  <2>1. <<>> \in Seq(Step) /\ Ops(<<>>) = {}
    <3>1. <<>> \in Seq(Step)
      OBVIOUS
    <3> QED
      BY <3>1 DEF Ops
  <2> QED
    BY <1>3, <2>1 DEF If
<1> HIDE DEF o, k, b, w, e
<1>6. q \in Seq(Step) /\ Ops(q) \subseteq media
  <2>1. /\ o \o If(spec.kickstart, k) \in Seq(Step)
        /\ Ops(o \o If(spec.kickstart, k)) = Ops(o) \cup Ops(If(spec.kickstart, k))
    BY <1>2, <1>5, OpsConcat
  <2>2. /\ (o \o If(spec.kickstart, k)) \o b \in Seq(Step)
        /\ Ops((o \o If(spec.kickstart, k)) \o b) = Ops(o \o If(spec.kickstart, k)) \cup Ops(b)
    BY <1>4, <2>1, OpsConcat
  <2>3. /\ q \in Seq(Step)
        /\ Ops(q) = Ops((o \o If(spec.kickstart, k)) \o b) \cup Ops(w)
    BY <1>4, <2>2, OpsConcat
  <2>4. Ops(q) = ((Ops(o) \cup Ops(If(spec.kickstart, k))) \cup Ops(b)) \cup Ops(w)
    BY <2>1, <2>2, <2>3
  <2> QED
    BY <1>2, <1>4, <1>5, <2>3, <2>4
<1>7. Install = q \o e
  BY DEF Install, q, o, k, b, w, e
<1> HIDE DEF q
<1>8. \A i \in DOMAIN q : q[i].op \in media
  BY <1>6 DEF Ops
<1>9. /\ Patches(q) /\ Leads(q, {"clear_drives"}, "create_drive") /\ Leads(q, UserOps, "remove_admin")
      /\ Bars(q, "create_drive", {"create_drive", "clear_drives"}) /\ Bars(q, "remove_admin", UserOps)
      /\ "create_drive" \notin Ops(q) /\ "remove_admin" \notin Ops(q)
  BY <1>6, <1>8 DEF Patches, Leads, Bars
<1>10. Sound(e)
  BY <1>3, PlainSound DEF Special
<1> QED
  BY <1>3, <1>6, <1>7, <1>9, <1>10, SoundConcat, OpsConcat

UserSteps == {UserOp(n) : n \in spec.users}

\* The entry's users, each once, with what becomes of a failure.
LEMMA UsersSteps ==
    ASSUME spec \in Sections, spec.kind \in {"hpe", "ntp"}
    PROVE /\ Users \in Seq(Step) /\ Ops(Users) = UserSteps
          /\ spec.kind = "ntp" => ConfigureClockUsers \in Seq(Step) /\ Ops(ConfigureClockUsers) = UserSteps
<1> DEFINE a == Must(<<"user_ops">>)
           b == Must(<<"user_admin">>)
           x == If("ops" \in spec.users, a)
           y == If("admin" \in spec.users, b)
<1>1. /\ "ops" \in spec.users => "user_ops" \in Fatal
      /\ "admin" \in spec.users => "user_admin" \in Fatal
      /\ spec.users \subseteq Names /\ Names = {"admin", "ops"}
  BY DEF Fatal, Step, Operations, ConfigOps, Names, Sections
<1>2. <<>> \in Seq(Step) /\ Ops(<<>>) = {}
  <2>1. <<>> \in Seq(Step)
    OBVIOUS
  <2> QED
    BY <2>1 DEF Ops
<1>3. x \in Seq(Step) /\ Ops(x) = IF "ops" \in spec.users THEN {"user_ops"} ELSE {}
  <2>1. CASE "ops" \in spec.users
    BY <1>1, <2>1, Must1 DEF If
  <2>2. CASE "ops" \notin spec.users
    BY <1>2, <2>2 DEF If
  <2> QED
    BY <2>1, <2>2
<1>4. y \in Seq(Step) /\ Ops(y) = IF "admin" \in spec.users THEN {"user_admin"} ELSE {}
  <2>1. CASE "admin" \in spec.users
    BY <1>1, <2>1, Must1 DEF If
  <2>2. CASE "admin" \notin spec.users
    BY <1>2, <2>2 DEF If
  <2> QED
    BY <2>1, <2>2
<1>5. Users = y \o x \/ Users = x \o y
  BY DEF Users, AdminUser, OpsUser
<1> HIDE DEF x, y
<1>6. UserSteps = (IF "ops" \in spec.users THEN {"user_ops"} ELSE {})
                  \cup (IF "admin" \in spec.users THEN {"user_admin"} ELSE {})
  BY <1>1 DEF UserSteps
<1>7. Users \in Seq(Step) /\ Ops(Users) = UserSteps
  <2>1. /\ x \o y \in Seq(Step) /\ Ops(x \o y) = Ops(x) \cup Ops(y)
        /\ y \o x \in Seq(Step) /\ Ops(y \o x) = Ops(y) \cup Ops(x)
    BY <1>3, <1>4, OpsConcat
  <2>2. Ops(x) \cup Ops(y) = UserSteps
    BY <1>3, <1>4, <1>6
  <2> QED
    BY <1>5, <2>1, <2>2
<1>8. ASSUME spec.kind = "ntp"
      PROVE ConfigureClockUsers \in Seq(Step) /\ Ops(ConfigureClockUsers) = UserSteps
  <2> DEFINE l == [i \in DOMAIN Users |-> Users[i].op]
  <2>1. \A i \in DOMAIN Users : Users[i].op \in UserSteps
    BY <1>7 DEF Ops
  <2>2. UserSteps \subseteq Ignored
    BY <1>1, <1>6, <1>8 DEF Ignored, Step, Operations, ConfigOps, Names
  <2>3. Len(Users) \in Nat /\ DOMAIN Users = 1..Len(Users)
    BY <1>7
  <2>4. /\ l \in Seq(Ignored) /\ Len(l) = Len(Users) /\ DOMAIN l = DOMAIN Users
        /\ \A i \in DOMAIN Users : l[i] = Users[i].op
    BY <2>1, <2>2, <2>3
  <2> HIDE DEF l
  <2>5. /\ May(l) \in Seq(Step) /\ DOMAIN May(l) = DOMAIN Users
        /\ \A i \in DOMAIN Users : May(l)[i].op = Users[i].op
    BY <2>3, <2>4, MayFacts
  <2>6. Ops(May(l)) = Ops(Users)
    BY <2>5 DEF Ops
  <2>7. ConfigureClockUsers = May(l)
    BY DEF ConfigureClockUsers, l
  <2> QED
    BY <1>7, <2>5, <2>6, <2>7
<1> QED
  BY <1>7, <1>8

\* The default account goes after the accounts have been made.
LEMMA IloSound ==
    ASSUME spec \in Sections, spec.kind = "hpe"
    PROVE /\ Sound(ConfigureIlo)
          /\ Ops(ConfigureIlo) =
                (IF spec.network THEN {"network"} ELSE {}) \cup UserSteps
                \cup (IF spec.remove /\ spec.users # {} THEN {"remove_admin"} ELSE {})
                \cup (IF spec.services THEN {"services"} ELSE {})
<1> DEFINE n == If(spec.network, Must(<<"network">>))
           r == If(spec.remove /\ spec.users # {}, Must(<<"remove_admin">>))
           s == If(spec.services, Must(<<"services">>))
<1>1. /\ spec.network \in BOOLEAN /\ spec.services \in BOOLEAN /\ spec.remove \in BOOLEAN
      /\ spec.users \subseteq Names
  BY DEF Sections
<1>2. Sound(n) /\ Ops(n) = IF spec.network THEN {"network"} ELSE {}
  <2>1. Sound(Must(<<"network">>)) /\ Ops(Must(<<"network">>)) = {"network"}
    BY MustPlain DEF Common, Special
  <2> QED
    BY <1>1, <2>1, IfSound
<1>3. Sound(s) /\ Ops(s) = IF spec.services THEN {"services"} ELSE {}
  <2>1. Sound(Must(<<"services">>)) /\ Ops(Must(<<"services">>)) = {"services"}
    BY MustPlain DEF Common, Special
  <2> QED
    BY <1>1, <2>1, IfSound
<1>4. Sound(r) /\ Ops(r) = IF spec.remove /\ spec.users # {} THEN {"remove_admin"} ELSE {}
  <2>1. ASSUME spec.remove /\ spec.users # {}
        PROVE Sound(Must(<<"remove_admin">>)) /\ Ops(Must(<<"remove_admin">>)) = {"remove_admin"}
    <3> DEFINE m == Must(<<"remove_admin">>)
    <3>1. "remove_admin" \in Fatal
      BY <2>1 DEF Fatal, Step, Operations, ConfigOps, Names
    <3>2. m \in Seq(Step) /\ DOMAIN m = 1..1 /\ Ops(m) = {"remove_admin"} /\ m[1].op = "remove_admin"
      BY <3>1, Must1
    <3> HIDE DEF m
    <3>3. \A i \in DOMAIN m : i = 1
      BY <3>2
    <3>4. Sound(m)
      BY <3>2, <3>3 DEF Sound, Patches, Leads, Bars
    <3> QED
      BY <3>2, <3>4 DEF m
  <2>2. (spec.remove /\ spec.users # {}) \in BOOLEAN
    BY <1>1
  <2> QED
    BY <2>1, <2>2, IfSound
<1>5. Users \in Seq(Step) /\ Ops(Users) = UserSteps /\ UserSteps \subseteq UserOps
  BY <1>1, UsersSteps DEF UserSteps
<1> HIDE DEF n, r, s
<1> DEFINE u == n \o Users
<1>6. u \in Seq(Step) /\ Ops(u) = Ops(n) \cup UserSteps
  BY <1>2, <1>5, OpsConcat DEF Sound
<1> HIDE DEF u
<1>7. \A i \in DOMAIN u : u[i].op \in {"network"} \cup UserSteps
  BY <1>2, <1>6 DEF Ops
<1>8. /\ Patches(u) /\ Leads(u, Mounts, "eject") /\ Leads(u, {"clear_drives"}, "create_drive")
      /\ Bars(u, "create_drive", {"create_drive", "clear_drives"}) /\ Bars(u, "remove_admin", UserOps)
      /\ "create_drive" \notin Ops(u) /\ "remove_admin" \notin Ops(u)
  BY <1>2, <1>5, <1>6, <1>7 DEF Patches, Leads, Bars
<1>9. spec.remove => Leads(u, UserOps, "remove_admin") \/ "remove_admin" \in Ops(r)
  <2>1. CASE spec.users = {}
    BY <1>7, <2>1 DEF Leads, UserSteps
  <2>2. CASE spec.users # {}
    BY <1>4, <2>2
  <2> QED
    BY <2>1, <2>2
<1>10. Sound(u \o r) /\ Ops(u \o r) = Ops(u) \cup Ops(r)
  <2>1. r \in Seq(Step)
    BY <1>4 DEF Sound
  <2>2. Ops(u \o r) = Ops(u) \cup Ops(r)
    BY <1>6, <2>1, OpsConcat
  <2> QED
    BY <1>4, <1>6, <1>8, <1>9, <2>2, SoundConcat
<1>11. Sound((u \o r) \o s) /\ Ops((u \o r) \o s) = Ops(u \o r) \cup Ops(s)
  BY <1>3, <1>10, SoundBoth
<1>12. ConfigureIlo = (u \o r) \o s
  BY DEF ConfigureIlo, u, n, r, s
<1> QED
  BY <1>2, <1>3, <1>4, <1>6, <1>10, <1>11, <1>12

\* What the plans hold that the properties ask for.
ServerNeeds ==
    /\ spec.bios => "read_bios" \in Ops(Plan)
    /\ spec.raid # "none" => "create_drive" \in Ops(Plan)
    /\ spec.raid = "clear" => "clear_drives" \in Ops(Plan)
    /\ spec.spp \/ spec.os => "eject" \in Ops(Plan)
    /\ \A n \in spec.users : UserOp(n) \in Ops(Plan)
    /\ spec.remove /\ spec.users # {} => "remove_admin" \in Ops(Plan)
    /\ spec.services => "services" \in Ops(Plan)
    /\ spec.network => "network" \in Ops(Plan)

LEMMA ServerPlan ==
    ASSUME spec \in Sections, spec.kind = "hpe"
    PROVE Sound(Plan) /\ ServerNeeds
<1> DEFINE c == Must(<<"connect">>)
           f == If(spec.firmware, UpdateIloFirmware)
           b == If(spec.bios, ConfigureBios)
           r == If(spec.raid # "none", ConfigureRaid)
           s == If(spec.spp, InstallSpp)
           o == If(spec.os, InstallOs)
           Accounts == {"remove_admin"} \cup UserOps
           Drives == {"create_drive", "clear_drives"}
<1>1. /\ spec.firmware \in BOOLEAN /\ spec.bios \in BOOLEAN /\ (spec.raid # "none") \in BOOLEAN
      /\ spec.spp \in BOOLEAN /\ spec.os \in BOOLEAN
  BY DEF Sections
<1>2. Sound(c) /\ Ops(c) = {"connect"}
  BY MustPlain DEF Common, Special
<1>3. Sound(f) /\ Ops(f) \cap (Drives \cup Accounts) = {}
  BY <1>1, FirmwareSound, IfSound
<1>4. Sound(b) /\ Ops(b) \cap (Drives \cup Accounts) = {} /\ (spec.bios => "read_bios" \in Ops(b))
  BY <1>1, BiosSound, IfSound
<1>5. /\ Sound(r) /\ Ops(r) \cap Accounts = {}
      /\ spec.raid # "none" => "create_drive" \in Ops(r)
      /\ spec.raid = "clear" => "clear_drives" \in Ops(r)
  <2>1. Sound(r) /\ Ops(r) = IF spec.raid # "none" THEN Ops(ConfigureRaid) ELSE {}
    BY <1>1, RaidSound, IfSound
  <2> QED
    BY <2>1, RaidSound
<1>6. Sound(s) /\ Ops(s) \cap (Drives \cup Accounts) = {} /\ (spec.spp => "eject" \in Ops(s))
  <2>1. Sound(s) /\ Ops(s) = IF spec.spp THEN Ops(InstallSpp) ELSE {}
    BY <1>1, MediaSound, IfSound
  <2> QED
    BY <2>1, MediaSound
<1>7. Sound(o) /\ Ops(o) \cap (Drives \cup Accounts) = {} /\ (spec.os => "eject" \in Ops(o))
  <2>1. Sound(o) /\ Ops(o) = IF spec.os THEN Ops(InstallOs) ELSE {}
    BY <1>1, MediaSound, IfSound
  <2> QED
    BY <2>1, MediaSound
<1>8. /\ Sound(ConfigureIlo)
      /\ Ops(ConfigureIlo) =
            (IF spec.network THEN {"network"} ELSE {}) \cup UserSteps
            \cup (IF spec.remove /\ spec.users # {} THEN {"remove_admin"} ELSE {})
            \cup (IF spec.services THEN {"services"} ELSE {})
  BY IloSound
<1>9. Ops(ConfigureIlo) \cap Drives = {}
  BY <1>8 DEF UserSteps
<1> HIDE DEF c, f, b, r, s, o
<1>10. Sound(c \o f) /\ Ops(c \o f) = Ops(c) \cup Ops(f)
  BY <1>2, <1>3, SoundBoth
<1>11. Sound((c \o f) \o b) /\ Ops((c \o f) \o b) = Ops(c \o f) \cup Ops(b)
  BY <1>2, <1>3, <1>4, <1>10, SoundBoth
<1>12. /\ Sound(((c \o f) \o b) \o r)
       /\ Ops(((c \o f) \o b) \o r) = Ops((c \o f) \o b) \cup Ops(r)
  BY <1>2, <1>3, <1>4, <1>5, <1>10, <1>11, SoundBoth
<1>13. "remove_admin" \notin Ops(((c \o f) \o b) \o r)
  BY <1>2, <1>3, <1>4, <1>5, <1>10, <1>11, <1>12
<1>14. /\ Sound((((c \o f) \o b) \o r) \o s)
       /\ Ops((((c \o f) \o b) \o r) \o s) = Ops(((c \o f) \o b) \o r) \cup Ops(s)
  BY <1>6, <1>12, <1>13, SoundBoth
<1>15. "remove_admin" \notin Ops((((c \o f) \o b) \o r) \o s)
  BY <1>6, <1>13, <1>14
<1>16. /\ Sound(((((c \o f) \o b) \o r) \o s) \o o)
       /\ Ops(((((c \o f) \o b) \o r) \o s) \o o) = Ops((((c \o f) \o b) \o r) \o s) \cup Ops(o)
  BY <1>7, <1>14, <1>15, SoundBoth
<1>17. "remove_admin" \notin Ops(((((c \o f) \o b) \o r) \o s) \o o)
  BY <1>7, <1>15, <1>16
<1> DEFINE all == (((((c \o f) \o b) \o r) \o s) \o o) \o ConfigureIlo
<1>18. /\ Sound(all)
       /\ Ops(all) = Ops(((((c \o f) \o b) \o r) \o s) \o o) \cup Ops(ConfigureIlo)
  BY <1>8, <1>9, <1>16, <1>17, SoundBoth
<1>19. Plan = all
  BY DEF Plan, ProvisionServer, c, f, b, r, s, o
<1> HIDE DEF all
<1>20. Ops(Plan) = Ops(c) \cup Ops(f) \cup Ops(b) \cup Ops(r) \cup Ops(s) \cup Ops(o) \cup Ops(ConfigureIlo)
  BY <1>10, <1>11, <1>12, <1>14, <1>16, <1>18, <1>19
<1>21. ServerNeeds
  <2>1. \A n \in spec.users : UserOp(n) \in Ops(ConfigureIlo)
    BY <1>8 DEF UserSteps
  <2>2. /\ spec.remove /\ spec.users # {} => "remove_admin" \in Ops(ConfigureIlo)
        /\ spec.services => "services" \in Ops(ConfigureIlo)
        /\ spec.network => "network" \in Ops(ConfigureIlo)
    BY <1>8
  <2> QED
    BY <1>4, <1>5, <1>6, <1>7, <1>20, <2>1, <2>2 DEF ServerNeeds
<1> QED
  BY <1>18, <1>19, <1>21

ClockNeeds ==
    /\ spec.services => {"references", "ntp_service", "system"} \subseteq Ops(Plan)
    /\ spec.network => "network" \in Ops(Plan)

LEMMA ClockPlan ==
    ASSUME spec \in Sections, spec.kind = "ntp"
    PROVE Sound(Plan) /\ ClockNeeds /\ Ops(Plan) \cap {"create_drive", "remove_admin"} = {}
<1> DEFINE c == Must(<<"connect">>)
           i == May(<<"info">>)
           f == If(spec.firmware, UpdateClock)
           n == If(spec.network, ConfigureClockNetwork)
           t == (ConfigureNtpReferences \o ConfigureNtpService) \o ConfigureSystem
           s == If(spec.services, t)
           u == ConfigureClockUsers
           Not == {"create_drive", "remove_admin"}
<1>1. spec.firmware \in BOOLEAN /\ spec.network \in BOOLEAN /\ spec.services \in BOOLEAN
      /\ spec.users \subseteq Names
  BY DEF Sections
<1>2. Sound(c) /\ Ops(c) = {"connect"} /\ Sound(i) /\ Ops(i) = {"info"}
  BY MustPlain, MayPlain DEF Common, Special
<1>3. Sound(f) /\ Ops(f) \cap Not = {}
  BY <1>1, FirmwareSound, IfSound
<1>4. Sound(n) /\ Ops(n) \cap Not = {} /\ (spec.network => "network" \in Ops(n))
  <2>1. Sound(ConfigureClockNetwork) /\ Ops(ConfigureClockNetwork) = {"network"}
    BY MustPlain DEF ConfigureClockNetwork, Common, Special
  <2> QED
    BY <1>1, <2>1, IfSound
<1>5. Sound(t) /\ Ops(t) = {"references", "ntp_service", "system"}
  <2>1. /\ Sound(ConfigureNtpReferences) /\ Ops(ConfigureNtpReferences) = {"references"}
        /\ Sound(ConfigureNtpService) /\ Ops(ConfigureNtpService) = {"ntp_service"}
        /\ Sound(ConfigureSystem) /\ Ops(ConfigureSystem) = {"system"}
    BY MustPlain DEF ConfigureNtpReferences, ConfigureNtpService, ConfigureSystem, Common, Special
  <2>2. /\ Sound(ConfigureNtpReferences \o ConfigureNtpService)
        /\ Ops(ConfigureNtpReferences \o ConfigureNtpService) = {"references", "ntp_service"}
    BY <2>1, SoundBoth
  <2> QED
    BY <2>1, <2>2, SoundBoth
<1> HIDE DEF t
<1>6. /\ Sound(s) /\ Ops(s) \cap Not = {}
      /\ spec.services => {"references", "ntp_service", "system"} \subseteq Ops(s)
  BY <1>1, <1>5, IfSound
<1>7. Sound(u) /\ Ops(u) \cap Not = {}
  <2>1. u \in Seq(Step) /\ Ops(u) \subseteq UserOps
    BY <1>1, UsersSteps DEF UserSteps
  <2>2. \A k \in DOMAIN u : u[k].op \in UserOps
    BY <2>1 DEF Ops
  <2> QED
    BY <2>1, <2>2 DEF Sound, Patches, Leads, Bars
<1>8. Plan = ((((c \o i) \o f) \o n) \o s) \o u
  BY DEF Plan, ProvisionClock, c, i, f, n, s, t, u
<1> HIDE DEF c, i, f, n, s, u
<1>9. ASSUME NEW x, NEW y, Sound(x), Sound(y), Ops(x) \cap Not = {}, Ops(y) \cap Not = {}
      PROVE Sound(x \o y) /\ Ops(x \o y) = Ops(x) \cup Ops(y) /\ Ops(x \o y) \cap Not = {}
  BY <1>9, SoundBoth
<1>10. /\ Sound(c \o i) /\ Ops(c \o i) = Ops(c) \cup Ops(i) /\ Ops(c \o i) \cap Not = {}
  BY <1>2, <1>9
<1>11. /\ Sound((c \o i) \o f) /\ Ops((c \o i) \o f) \cap Not = {}
  BY <1>3, <1>9, <1>10
<1>12. /\ Sound(((c \o i) \o f) \o n) /\ Ops(((c \o i) \o f) \o n) = Ops((c \o i) \o f) \cup Ops(n)
       /\ Ops(((c \o i) \o f) \o n) \cap Not = {}
  BY <1>4, <1>9, <1>11
<1> DEFINE d == ((c \o i) \o f) \o n
<1> HIDE DEF d
<1>13. /\ Sound(d \o s) /\ Ops(d \o s) = Ops(d) \cup Ops(s) /\ Ops(d \o s) \cap Not = {}
  BY <1>6, <1>9, <1>12 DEF d
<1>14. /\ Sound((d \o s) \o u) /\ Ops((d \o s) \o u) = Ops(d \o s) \cup Ops(u)
       /\ Ops((d \o s) \o u) \cap Not = {}
  BY <1>7, <1>9, <1>13
<1>15. Plan = (d \o s) \o u
  BY <1>8 DEF d
<1>16. Ops(n) \subseteq Ops(d)
  BY <1>12 DEF d
<1>17. ClockNeeds
  BY <1>4, <1>6, <1>13, <1>14, <1>15, <1>16 DEF ClockNeeds
<1> QED
  BY <1>14, <1>15, <1>17

\* The plan of any entry.
LEMMA PlanSound ==
    ASSUME spec \in Specs
    PROVE /\ Sound(Plan)
          /\ spec.kind = "hpe" => ServerNeeds
          /\ spec.kind = "ntp" => ClockNeeds
          /\ spec.raid = "clear" /\ "create_drive" \in Ops(Plan) => "clear_drives" \in Ops(Plan)
          /\ "remove_admin" \in Ops(Plan) => spec.kind = "hpe"
<1>1. spec \in Sections /\ spec.kind \in {"hpe", "ntp", "bios", "raid", "install", "flash"}
      /\ (spec.kind = "raid" => spec.raid # "none")
  BY ProvisioningAssumption DEF Sections
<1>2. CASE spec.kind = "hpe"
  BY <1>1, <1>2, ServerPlan DEF ServerNeeds
<1>3. CASE spec.kind = "ntp"
  BY <1>1, <1>3, ClockPlan
<1>4. CASE spec.kind = "bios"
  <2>1. Plan = SetBios
    BY <1>4 DEF Plan
  <2> QED
    BY <1>4, <2>1, BiosSound
<1>5. CASE spec.kind = "flash"
  <2>1. Plan = FlashFirmware
    BY <1>5 DEF Plan
  <2> QED
    BY <1>5, <2>1, FirmwareSound
<1>6. CASE spec.kind = "raid"
  <2>1. Plan = CreateRaid
    BY <1>6 DEF Plan
  <2> QED
    BY <1>1, <1>6, <2>1, RaidSound
<1>7. CASE spec.kind = "install"
  <2>1. Plan = Install
    BY <1>7 DEF Plan
  <2> QED
    BY <1>7, <2>1, InstallSound
<1> QED
  BY <1>1, <1>2, <1>3, <1>4, <1>5, <1>6, <1>7

-----------------------------------------------------------------------------
(***************************************************************************)
(* What is left of a plan when its first request has been dealt with.      *)
(***************************************************************************)
LEMMA SuffixSound ==
    ASSUME NEW s \in Seq(Step), Sound(s), NEW t \in Seq(Step), NEW k \in Nat,
           Len(t) = Len(s) - k, \A i \in 1..Len(t) : t[i] = s[i + k]
    PROVE Sound(t) /\ Ops(t) \subseteq Ops(s)
<1>1. /\ Len(s) \in Nat /\ Len(t) \in Nat /\ DOMAIN s = 1..Len(s) /\ DOMAIN t = 1..Len(t)
      /\ \A i \in DOMAIN t : i + k \in DOMAIN s /\ t[i] = s[i + k]
      /\ \A i \in DOMAIN s : i > k => i - k \in DOMAIN t /\ t[i - k] = s[i]
  <2>1. Len(s) \in Nat /\ Len(t) \in Nat /\ DOMAIN s = 1..Len(s) /\ DOMAIN t = 1..Len(t)
    OBVIOUS
  <2>2. \A i \in DOMAIN t : i + k \in DOMAIN s
    BY <2>1
  <2>3. ASSUME NEW i \in DOMAIN s, i > k PROVE i - k \in DOMAIN t /\ t[i - k] = s[i]
    <3>1. i - k \in 1..Len(t) /\ (i - k) + k = i
      BY <2>1, <2>3
    <3>2. t[i - k] = s[(i - k) + k]
      BY <3>1
    <3> QED
      BY <2>1, <3>1, <3>2
  <2> QED
    BY <2>1, <2>2, <2>3
<1>2. ASSUME NEW A, NEW b, Leads(s, A, b) PROVE Leads(t, A, b)
  <2> SUFFICES ASSUME NEW i \in DOMAIN t, t[i].op \in A
               PROVE \E j \in DOMAIN t : j > i /\ t[j].op = b
    BY DEF Leads
  <2>1. i + k \in DOMAIN s /\ s[i + k].op \in A
    BY <1>1
  <2>2. PICK j \in DOMAIN s : j > i + k /\ s[j].op = b
    BY <1>2, <2>1 DEF Leads
  <2>3. j - k \in DOMAIN t /\ j - k > i /\ t[j - k].op = b
    BY <1>1, <2>2
  <2> QED
    BY <2>3
<1>3. ASSUME NEW a, NEW B, Bars(s, a, B) PROVE Bars(t, a, B)
  <2> SUFFICES ASSUME NEW i \in DOMAIN t, NEW j \in DOMAIN t, t[i].op = a, j > i PROVE t[j].op \notin B
    BY DEF Bars
  <2>1. i + k \in DOMAIN s /\ j + k \in DOMAIN s /\ j + k > i + k /\ s[i + k] = t[i] /\ s[j + k] = t[j]
    BY <1>1
  <2> QED
    BY <1>3, <2>1 DEF Bars
<1>4. Patches(t)
  <2> SUFFICES ASSUME NEW i \in DOMAIN t
               PROVE /\ t[i].op = "read_bios" =>
                           i + 3 \in DOMAIN t /\ t[i + 1].op = "patch_bios" /\ t[i + 3].op = "await_post"
                     /\ t[i].op = "patch_bios" => i + 1 \in DOMAIN t /\ t[i + 1].op = "reset"
    BY DEF Patches
  <2>1. i + k \in DOMAIN s /\ s[i + k] = t[i]
    BY <1>1
  <2>2. ASSUME NEW n \in {1, 3}, (i + k) + n \in DOMAIN s
        PROVE i + n \in DOMAIN t /\ t[i + n] = s[(i + k) + n]
    BY <1>1, <2>2
  <2>3. t[i].op = "read_bios" => (i + k) + 3 \in DOMAIN s /\ (i + k) + 1 \in DOMAIN s
    BY <1>1, <2>1 DEF Patches, Sound
  <2> QED
    BY <2>1, <2>2, <2>3 DEF Patches, Sound
<1>5. Ops(t) \subseteq Ops(s)
  BY <1>1 DEF Ops
<1> QED
  BY <1>2, <1>3, <1>4, <1>5 DEF Sound

\* When BIOS settings are in force, their patch and reset are left out.
Dropped == {Op} \cup IF Op = "read_bios" /\ box.bios THEN {"patch_bios", "reset", "await_post"} ELSE {}

LEMMA RestFacts ==
    ASSUME plan # <<>>, Sound(plan)
    PROVE /\ Op \in Operations /\ plan[1] \in Step
          /\ Sound(Rest) /\ Ops(Rest) \subseteq Ops(plan) /\ Ops(plan) \subseteq Ops(Rest) \cup Dropped
          /\ Op \in Mounts => "eject" \in Ops(Rest)
          /\ Op = "clear_drives" => "create_drive" \in Ops(Rest)
          /\ Op \in UserOps /\ spec.kind = "hpe" /\ spec.remove => "remove_admin" \in Ops(Rest)
          /\ Op = "create_drive" => Ops(Rest) \cap {"create_drive", "clear_drives"} = {}
          /\ Op = "remove_admin" => Ops(Rest) \cap UserOps = {}
          /\ Op = "read_bios" /\ ~box.bios => Rest # <<>> /\ Rest[1].op = "patch_bios"
          /\ Op = "patch_bios" => Rest # <<>> /\ Rest[1].op = "reset"
<1>1. /\ plan \in Seq(Step) /\ Len(plan) \in Nat /\ DOMAIN plan = 1..Len(plan) /\ 1 \in DOMAIN plan
      /\ plan[1] \in Step /\ Op = plan[1].op
  BY DEF Sound, Op
<1>2. Op \in Operations
  BY <1>1 DEF Step
<1>3. /\ Op = "read_bios" => /\ 4 \in DOMAIN plan /\ plan[2].op = "patch_bios"
                             /\ plan[3].op = "reset" /\ plan[4].op = "await_post"
      /\ Op = "patch_bios" => 2 \in DOMAIN plan /\ plan[2].op = "reset"
  <2>1. Patches(plan)
    BY DEF Sound
  <2>2. /\ Op = "read_bios" => 1 + 3 \in DOMAIN plan /\ plan[1 + 1].op = "patch_bios" /\ plan[1 + 3].op = "await_post"
        /\ Op = "patch_bios" => 1 + 1 \in DOMAIN plan /\ plan[1 + 1].op = "reset"
    BY <1>1, <2>1 DEF Patches
  <2>3. Op = "read_bios" => 2 \in DOMAIN plan
    BY <1>1, <2>2
  <2>4. Op = "read_bios" => plan[2 + 1].op = "reset"
    BY <2>1, <2>2, <2>3 DEF Patches
  <2> QED
    BY <2>2, <2>4
<1>4. CASE Op = "read_bios" /\ box.bios
  <2>1. Rest = SubSeq(plan, 5, Len(plan)) /\ Len(plan) >= 4
    BY <1>1, <1>3, <1>4 DEF Rest
  <2>2. /\ Rest \in Seq(Step) /\ Len(Rest) = Len(plan) - 4
        /\ \A i \in 1..Len(Rest) : Rest[i] = plan[i + 4]
    <3> DEFINE m == Len(plan)
    <3>1. m \in Nat /\ m >= 4
      BY <1>1, <2>1
    <3>2. SubSeq(plan, 5, m) = [i \in 1..(m - 4) |-> plan[i + 4]]
      <4>1. SubSeq(plan, 5, m) = [i \in 1..(1 + m - 5) |-> plan[i + 5 - 1]]
        BY DEF SubSeq
      <4>2. 1 + m - 5 = m - 4 /\ \A i \in 1..(m - 4) : i + 5 - 1 = i + 4
        BY <3>1
      <4> QED
        BY <4>1, <4>2
    <3>3. \A i \in 1..(m - 4) : plan[i + 4] \in Step
      BY <1>1, <3>1
    <3> DEFINE n == m - 4
               f == [i \in 1..n |-> plan[i + 4]]
    <3>4. n \in Nat /\ f \in [1..n -> Step] /\ \A i \in 1..n : f[i] = plan[i + 4]
      BY <3>1, <3>3
    <3>5. Rest = f
      BY <2>1, <3>2
    <3> HIDE DEF f, n
    <3>6. f \in Seq(Step) /\ Len(f) = n
      BY <3>4
    <3> QED
      BY <3>4, <3>5, <3>6 DEF n
  <2>3. Sound(Rest) /\ Ops(Rest) \subseteq Ops(plan)
    BY <1>1, <2>2, SuffixSound
  <2>4. ASSUME NEW i \in DOMAIN plan PROVE plan[i].op \in Ops(Rest) \cup Dropped
    <3>1. i \in 1..4 => plan[i].op \in Dropped
      <4>1. i \in 1..4 => i = 1 \/ i = 2 \/ i = 3 \/ i = 4
        OBVIOUS
      <4> QED
        BY <1>1, <1>3, <1>4, <4>1 DEF Dropped
    <3>2. i > 4 => i - 4 \in DOMAIN Rest /\ Rest[i - 4] = plan[i]
      BY <1>1, <2>2
    <3>3. i > 4 => plan[i].op \in Ops(Rest)
      BY <3>2 DEF Ops
    <3> QED
      BY <1>1, <3>1, <3>3
  <2>5. Ops(plan) \subseteq Ops(Rest) \cup Dropped
    BY <2>4 DEF Ops
  <2> QED
    BY <1>1, <1>2, <1>4, <2>3, <2>5
<1>5. CASE ~ (Op = "read_bios" /\ box.bios)
  <2>1. Rest = Tail(plan)
    BY <1>5 DEF Rest
  <2>2. /\ Rest \in Seq(Step) /\ Len(Rest) = Len(plan) - 1 /\ DOMAIN Rest = 1..Len(plan) - 1
        /\ \A i \in 1..Len(Rest) : Rest[i] = plan[i + 1]
    BY <1>1, <2>1
  <2>3. Sound(Rest) /\ Ops(Rest) \subseteq Ops(plan)
    BY <1>1, <2>2, SuffixSound
  <2>4. ASSUME NEW i \in DOMAIN plan, i > 1 PROVE plan[i].op \in Ops(Rest)
    <3>1. i - 1 \in DOMAIN Rest /\ Rest[i - 1] = plan[i]
      BY <1>1, <2>2, <2>4
    <3> QED
      BY <3>1 DEF Ops
  <2>5. Ops(plan) \subseteq Ops(Rest) \cup Dropped
    BY <1>1, <2>4 DEF Ops, Dropped
  <2>6. ASSUME NEW A, NEW b, Leads(plan, A, b), Op \in A PROVE b \in Ops(Rest)
    <3>1. PICK j \in DOMAIN plan : j > 1 /\ plan[j].op = b
      BY <1>1, <2>6 DEF Leads
    <3> QED
      BY <2>4, <3>1
  <2>7. ASSUME NEW a, NEW B, Bars(plan, a, B), Op = a PROVE Ops(Rest) \cap B = {}
    <3>1. \A j \in DOMAIN Rest : j + 1 \in DOMAIN plan /\ j + 1 > 1 /\ Rest[j] = plan[j + 1]
      BY <1>1, <2>2
    <3>2. \A j \in DOMAIN Rest : Rest[j].op \notin B
      BY <1>1, <2>7, <3>1 DEF Bars
    <3> QED
      BY <3>2 DEF Ops
  <2>8. /\ Leads(plan, Mounts, "eject") /\ Leads(plan, {"clear_drives"}, "create_drive")
        /\ spec.kind = "hpe" /\ spec.remove => Leads(plan, UserOps, "remove_admin")
        /\ Bars(plan, "create_drive", {"create_drive", "clear_drives"}) /\ Bars(plan, "remove_admin", UserOps)
    BY DEF Sound
  <2>9. Op \in {"read_bios", "patch_bios"} => Rest # <<>> /\ Rest[1] = plan[2]
    <3>1. Op \in {"read_bios", "patch_bios"} => 2 \in DOMAIN plan
      BY <1>1, <1>3
    <3>2. Op \in {"read_bios", "patch_bios"} => 1 \in 1..Len(Rest)
      BY <1>1, <2>2, <3>1
    <3> QED
      BY <2>2, <3>2
  <2>10. /\ Op \in Mounts => "eject" \in Ops(Rest)
         /\ Op = "clear_drives" => "create_drive" \in Ops(Rest)
         /\ Op \in UserOps /\ spec.kind = "hpe" /\ spec.remove => "remove_admin" \in Ops(Rest)
    BY <2>6, <2>8
  <2>11. /\ Op = "create_drive" => Ops(Rest) \cap {"create_drive", "clear_drives"} = {}
         /\ Op = "remove_admin" => Ops(Rest) \cap UserOps = {}
    BY <2>7, <2>8
  <2> QED
    BY <1>1, <1>2, <1>3, <1>5, <2>3, <2>5, <2>9, <2>10, <2>11
<1> QED
  BY <1>4, <1>5

\* A request that went well, and one that may fail, end in the same way.
LEMMA ContinueFacts ==
    ASSUME plan # <<>>, result = "none", Continue, device_state \in Endings
    PROVE /\ plan' = Rest /\ result' \in {"none", "true"} /\ (plan' # <<>> => result' = "none")
          /\ device_state' \in Endings
BY DEF Continue, Return, Endings

-----------------------------------------------------------------------------
(***************************************************************************)
(* What a request changes in the box, and what it leaves alone.            *)
(***************************************************************************)
Gains(op, b, c) ==
    /\ c \in BoxType
    /\ \A n \in Names : c.accounts[n] = IF op = UserOp(n) THEN Role
                                        ELSE IF op = "remove_admin" /\ n = "admin" THEN "none" ELSE b.accounts[n]
    /\ \A n \in Names : c.secrets[n] = IF op = UserOp(n) THEN spec.secret ELSE b.secrets[n]
    /\ op = "clear_drives" => c.drives = {}
    /\ op = "create_drive" => b.drives = {} /\ c.drives = {"data"}
    /\ op \notin {"clear_drives", "create_drive"} => c.drives = b.drives
    /\ op = "eject" => c.media = {}
    /\ op \notin Mounts \cup {"eject"} => c.media = b.media
    /\ c.bios = b.bios /\ (b.pending => c.pending) /\ (op = "patch_bios" => c.pending)
    /\ c.run = IF op = "reset" THEN "post" ELSE b.run
    /\ b.sections \subseteq c.sections
    /\ op \in {"network", "services", "references", "ntp_service", "system"} => op \in c.sections

LEMMA EffectGains ==
    ASSUME NEW b \in BoxType, NEW op \in Operations, op \notin Waits, NEW c \in Effect(op, b), spec \in Sections
    PROVE Gains(op, b, c)
<1>1. Role \in Rights /\ spec.secret \in {"old", "new"}
  BY DEF Role, Rights, Sections
<1>2. CASE op \in UserOps
  <2>1. c = IF op = "user_ops" THEN SetUser(b, "ops") ELSE SetUser(b, "admin")
    BY <1>2 DEF Effect
  <2>2. CASE op = "user_ops"
    <3>1. c = [b EXCEPT !.accounts = [b.accounts EXCEPT !["ops"] = Role],
                         !.secrets = [b.secrets EXCEPT !["ops"] = spec.secret]]
      BY <2>1, <2>2 DEF SetUser
    <3>2. /\ [b.accounts EXCEPT !["ops"] = Role] \in [Names -> Rights]
          /\ [b.secrets EXCEPT !["ops"] = spec.secret] \in [Names -> {"old", "new"}]
      BY <1>1 DEF BoxType, Names
    <3>3. /\ c \in BoxType /\ c.accounts = [b.accounts EXCEPT !["ops"] = Role]
          /\ c.secrets = [b.secrets EXCEPT !["ops"] = spec.secret]
      BY <3>1, <3>2 DEF BoxType
    <3> QED
      BY <2>2, <3>1, <3>3 DEF Gains, BoxType, Names
  <2>3. CASE op = "user_admin"
    <3>1. c = [b EXCEPT !.accounts = [b.accounts EXCEPT !["admin"] = Role],
                         !.secrets = [b.secrets EXCEPT !["admin"] = spec.secret]]
      BY <2>1, <2>3 DEF SetUser
    <3>2. /\ [b.accounts EXCEPT !["admin"] = Role] \in [Names -> Rights]
          /\ [b.secrets EXCEPT !["admin"] = spec.secret] \in [Names -> {"old", "new"}]
      BY <1>1 DEF BoxType, Names
    <3>3. /\ c \in BoxType /\ c.accounts = [b.accounts EXCEPT !["admin"] = Role]
          /\ c.secrets = [b.secrets EXCEPT !["admin"] = spec.secret]
      BY <3>1, <3>2 DEF BoxType
    <3> QED
      BY <2>3, <3>1, <3>3 DEF Gains, BoxType, Names
  <2> QED
    BY <1>2, <2>2, <2>3
<1>3. CASE op = "remove_admin"
  <2>1. c = [b EXCEPT !.accounts = [b.accounts EXCEPT !["admin"] = "none"]]
    BY <1>3 DEF Effect, RemoveDefaultAdmin
  <2>2. [b.accounts EXCEPT !["admin"] = "none"] \in [Names -> Rights]
    BY DEF BoxType, Names, Rights
  <2>3. c \in BoxType /\ c.accounts = [b.accounts EXCEPT !["admin"] = "none"]
    BY <2>1, <2>2 DEF BoxType
  <2> QED
    BY <1>3, <2>1, <2>3 DEF Gains, BoxType, Names
<1>4. CASE op \in {"services", "references", "ntp_service", "system"}
  <2>1. c = [b EXCEPT !.sections = b.sections \cup {op}]
    BY <1>4 DEF Effect, Written
  <2> QED
    BY <1>4, <2>1 DEF Gains, BoxType, Names
<1>5. CASE op = "network"
  <2>1. c \in SetNetwork(b)
    BY <1>5 DEF Effect
  <2>2. PICK m \in BOOLEAN : c = [Written(b, "network") EXCEPT !.moved = m]
    BY <2>1, Zenon DEF SetNetwork
  <2>3. c \in BoxType
    BY <2>2 DEF BoxType, Written
  <2> QED
    BY <1>5, <2>2, <2>3 DEF Gains, BoxType, Names, Written
<1>6. CASE op = "flash"
  <2>1. c = [b EXCEPT !.sections = b.sections \cup {"firmware"}, !.bmc = "restarting"]
    BY <1>6 DEF Effect, Flash, Written
  <2> QED
    BY <1>6, <2>1 DEF Gains, BoxType, Names
<1>7. CASE op = "patch_bios"
  <2>1. c = [b EXCEPT !.pending = TRUE]
    BY <1>7 DEF Effect
  <2> QED
    BY <1>7, <2>1 DEF Gains, BoxType, Names
<1>8. CASE op = "reset"
  <2>1. c = [b EXCEPT !.run = "post"]
    BY <1>8 DEF Effect, Reset
  <2> QED
    BY <1>8, <2>1 DEF Gains, BoxType, Names
<1>9. CASE op = "clear_drives"
  <2>1. c = [b EXCEPT !.drives = {}, !.installed = FALSE]
    BY <1>9 DEF Effect, ClearDrives
  <2> QED
    BY <1>9, <2>1 DEF Gains, BoxType, Names
<1>10. CASE op = "create_drive"
  <2>1. b.drives = {} /\ c = [b EXCEPT !.drives = {"data"}]
    BY <1>10 DEF Effect, CreateDrive
  <2> QED
    BY <1>10, <2>1 DEF Gains, BoxType, Names
<1>11. CASE op \in {"mount_spp", "mount_os"}
  <2>1. PICK iso \in {"spp", "os"} : c = Mount(b, iso)
    BY <1>11 DEF Effect
  <2>2. c = [b EXCEPT !.media = (b.media \ {"spp", "os"}) \cup {iso}, !.once = TRUE]
    BY <2>1 DEF Mount
  <2>3. c \in BoxType
    BY <2>2 DEF BoxType
  <2> QED
    BY <1>11, <2>2, <2>3 DEF Gains, BoxType, Names
<1>12. CASE op = "mount_ks"
  <2>1. c = [b EXCEPT !.media = b.media \cup {"ks"}]
    BY <1>12 DEF Effect, MountKickstart
  <2> QED
    BY <1>12, <2>1 DEF Gains, BoxType, Names
<1>13. CASE op = "one_time_boot"
  <2>1. c = [b EXCEPT !.once = TRUE]
    BY <1>13 DEF Effect, SetOneTimeBoot
  <2> QED
    BY <1>13, <2>1 DEF Gains, BoxType, Names
<1>14. CASE op = "eject"
  <2>1. c = [b EXCEPT !.media = {}]
    BY <1>14 DEF Effect, Eject
  <2> QED
    BY <1>14, <2>1 DEF Gains, BoxType, Names
<1>15. CASE op \in {"connect", "info", "manager", "upload", "read_bios", "controllers"}
  <2>1. c = b
    BY <1>15 DEF Effect
  <2> QED
    BY <1>15, <2>1 DEF Gains, BoxType, Names
<1> QED
  BY <1>2, <1>3, <1>4, <1>5, <1>6, <1>7, <1>8, <1>9, <1>10, <1>11, <1>12, <1>13, <1>14, <1>15 DEF Operations, ConfigOps

LEMMA NothingGained ==
    ASSUME NEW b \in BoxType, NEW op \in Waits \cup {"info"}
    PROVE Gains(op, b, b)
BY DEF Gains, Waits, Names

\* Only a drive that is not free is refused.
LEMMA EffectOf ==
    ASSUME NEW b, NEW op, Effect(op, b) = {}
    PROVE op = "create_drive" /\ b.drives # {}
<1>1. op # "create_drive" => Effect(op, b) # {}
  BY DEF Effect, SetNetwork
<1>2. op = "create_drive" /\ b.drives = {} => Effect(op, b) # {}
  BY DEF Effect, CreateDrive
<1> QED
  BY <1>1, <1>2

LEMMA SoundKept ==
    ASSUME spec' = spec, NEW s, Sound(s), plan' = s
    PROVE Sound(plan)' /\ Ops(plan)' = Ops(s)
<1>1. Step' = Step
  BY DEF Step
<1> QED
  BY <1>1 DEF Sound, Patches, Leads, Bars, Ops

\* Somebody keeps the right to configure.
Manned(b) == b.accounts["admin"] = "config" \/ b.accounts["ops"] = "config"

LEMMA AccessKept ==
    ASSUME ProvisioningInv, plan # <<>>, Gains(Op, box, box')
    PROVE /\ Provided => Manned(box')
          /\ Provided /\ "remove_admin" \in Ops(Rest) =>
                "user_ops" \in Ops(Rest) \/ box'.accounts["ops"] = "config"
<1>1. /\ Sound(plan) /\ AccessInv /\ box \in BoxType
      /\ Op \in Operations /\ plan[1] \in Step /\ Op = plan[1].op
      /\ Ops(Rest) \subseteq Ops(plan) /\ Ops(plan) \subseteq Ops(Rest) \cup Dropped
      /\ Op = "remove_admin" => Ops(Rest) \cap UserOps = {}
  BY RestFacts DEF ProvisioningInv, PlanInv, ProvisioningType, Op
<1>2. Op \in Ops(plan)
  <2>1. 1 \in DOMAIN plan
    BY <1>1 DEF Sound
  <2> QED
    BY <1>1, <2>1 DEF Ops
<1>3. /\ Op = "user_ops" => "ops" \in spec.users
      /\ Op = "user_admin" => "admin" \in spec.users
      /\ Op = "remove_admin" => spec.users # {}
  BY <1>1 DEF Step, Names
<1>4. /\ Op = "user_ops" => box'.accounts["ops"] = Role
      /\ Op = "user_admin" => box'.accounts["admin"] = Role
      /\ Op # "user_ops" => box'.accounts["ops"] = box.accounts["ops"]
      /\ Op \notin {"user_admin", "remove_admin"} => box'.accounts["admin"] = box.accounts["admin"]
  BY DEF Gains, Names
<1>5. ASSUME Provided PROVE Manned(box')
  <2>1. Manned(box) /\ (Op = "remove_admin" => box.accounts["ops"] = "config")
    <3>1. Op = "remove_admin" => "user_ops" \notin Ops(plan)
      BY <1>1 DEF Dropped
    <3> QED
      BY <1>1, <1>2, <1>5, <3>1 DEF AccessInv, Manned
  <2>2. Op # "user_admin"
    BY <1>3, <1>5 DEF Provided
  <2>3. Op = "user_ops" => Role = "config"
    BY <1>3, <1>5 DEF Provided
  <2> QED
    BY <1>4, <2>1, <2>2, <2>3 DEF Manned
<1>6. ASSUME Provided, "remove_admin" \in Ops(Rest), "user_ops" \notin Ops(Rest)
      PROVE box'.accounts["ops"] = "config"
  <2>1. CASE Op = "user_ops"
    BY <1>3, <1>4, <1>6, <2>1 DEF Provided
  <2>2. CASE Op # "user_ops"
    <3>1. "user_ops" \notin Ops(plan) /\ "remove_admin" \in Ops(plan)
      BY <1>1, <1>6, <2>2 DEF Dropped
    <3> QED
      BY <1>1, <1>4, <1>6, <2>2, <3>1 DEF AccessInv
  <2> QED
    BY <2>1, <2>2
<1> QED
  BY <1>5, <1>6

-----------------------------------------------------------------------------
(***************************************************************************)
(* Every step keeps the invariant.                                         *)
(***************************************************************************)
LEMMA InitInv == Init => ProvisioningInv
<1> SUFFICES ASSUME Init PROVE ProvisioningInv
  OBVIOUS
<1>1. spec \in Specs /\ plan = <<>> /\ login = "admin" /\ secret = "old" /\ hung = FALSE /\ result = "none" /\ device_state = "discovered"
      /\ calls = 0 /\ faults = 0 /\ rejected = FALSE
  BY DEF Init
<1>2. Factory \in BoxType /\ [Factory EXCEPT !.drives = {}] \in BoxType
  BY DEF Factory, BoxType, Names, Rights
<1>3. box \in BoxType /\ box.accounts["admin"] = "config"
  <2>1. box = Factory \/ box = [Factory EXCEPT !.drives = {}]
    BY DEF Init
  <2>2. Factory.accounts["admin"] = "config" /\ [Factory EXCEPT !.drives = {}].accounts["admin"] = "config"
    BY DEF Factory, Names
  <2> QED
    BY <1>2, <2>1, <2>2
<1>4. <<>> \in Seq(Step) /\ Ops(<<>>) = {}
  <2>1. <<>> \in Seq(Step)
    OBVIOUS
  <2> QED
    BY <2>1 DEF Ops
<1>5. Sound(<<>>)
  BY <1>4, PlainSound
<1>6. ProvisioningType
  BY <1>1, <1>3 DEF ProvisioningType, Names, Endings
<1> QED
  BY <1>1, <1>3, <1>4, <1>5, <1>6 
  DEF ProvisioningInv, PlanInv, AccessInv, WorkInv, Running, DrivesInv, RetrySucceeds

LEMMA CallInv == ASSUME ProvisioningInv, Call PROVE ProvisioningInv'
<1>1. /\ plan' = Plan /\ login' \in Names /\ secret' \in {"old", spec.secret} /\ hung' = FALSE /\ calls' = calls + 1 /\ faults' = 0 /\ rejected' = FALSE
      /\ device_state' = "discovered" /\ result' = "none" /\ spec' = spec /\ box' = box
  BY DEF Call
<1>2. /\ spec \in Specs /\ spec.users \in SUBSET Names /\ spec.secret \in {"old", "new"}
      /\ ProvisioningType
  BY ProvisioningAssumption DEF ProvisioningInv, ProvisioningType, Sections
<1>3. /\ Sound(Plan)
      /\ spec.kind = "hpe" => ServerNeeds
      /\ spec.kind = "ntp" => ClockNeeds
      /\ spec.raid = "clear" /\ "create_drive" \in Ops(Plan) => "clear_drives" \in Ops(Plan)
      /\ "remove_admin" \in Ops(Plan) => spec.kind = "hpe"
  BY <1>2, PlanSound
<1>4. Sound(plan)' /\ Ops(plan)' = Ops(Plan)
  BY <1>1, <1>3, SoundKept
<1>5. ProvisioningType'
  <2>1. calls + 1 \in Nat
    BY <1>2 DEF ProvisioningType
  <2>2. spec' \in Specs /\ box' \in BoxType /\ login' \in Names
    BY <1>1, <1>2 DEF ProvisioningType
  <2>3. calls' \in Nat /\ faults' \in Nat /\ rejected' \in BOOLEAN /\ secret' \in {"old", "new"}
    BY <1>1, <1>2, <2>1
  <2> QED
    BY <1>1, <2>2, <2>3 DEF ProvisioningType, Endings
<1>6. PlanInv'
  BY <1>1, <1>4 DEF PlanInv
<1>7. AccessInv'
  <2>1. Provided' = Provided
    BY <1>1 DEF Provided, Role
  <2>2. Provided /\ "remove_admin" \in Ops(Plan) => "user_ops" \in Ops(Plan)
    <3>1. ASSUME "remove_admin" \in Ops(Plan) PROVE spec.users # {}
      <4>1. \A i \in DOMAIN Plan : Plan[i].op = "remove_admin" => spec.users # {}
        BY <1>3 DEF Sound, Step
      <4> QED
        BY <3>1, <4>1 DEF Ops
    <3>2. Provided /\ spec.users # {} => "ops" \in spec.users
      BY DEF Provided
    <3>3. spec.kind = "hpe" /\ "ops" \in spec.users => "user_ops" \in Ops(Plan)
      BY <1>3 DEF ServerNeeds
    <3> QED
      BY <1>3, <3>1, <3>2, <3>3
  <2> QED
    BY <1>1, <1>4, <2>1, <2>2 DEF ProvisioningInv, AccessInv
<1>8. WorkInv'
  <2>1. spec.kind = "hpe" => ServerInv' /\ (spec.services => Sent("services")') /\ (spec.network => Sent("network")')
    BY <1>1, <1>3, <1>4 DEF ServerNeeds, ServerInv, BiosInv, Sent
  <2>2. spec.kind = "ntp" =>
           /\ spec.services => Sent("references")' /\ Sent("ntp_service")' /\ Sent("system")'
           /\ spec.network => Sent("network")'
    BY <1>1, <1>3, <1>4 DEF ClockNeeds, Sent
  <2> QED
    BY <1>1, <2>1, <2>2 DEF WorkInv, Running
<1>9. DrivesInv'
  BY <1>1, <1>3, <1>4 DEF DrivesInv
<1>10. RetrySucceeds'
  BY <1>1 DEF RetrySucceeds
<1> QED
  BY <1>5, <1>6, <1>7, <1>8, <1>9, <1>10 DEF ProvisioningInv

\* The call ends in failure, for one of the reasons that RetrySucceeds names.
LEMMA FailedInv ==
    ASSUME ProvisioningInv, Return(FALSE) \/ Raise, UNCHANGED <<spec, login, secret, hung, calls>>,
           box' \in BoxType, Provided => Manned(box'), faults' \in Nat, rejected' \in BOOLEAN,
           RetrySucceeds'
    PROVE ProvisioningInv'
<1>1. plan' = <<>> /\ result' \in {"false", "raised"} /\ device_state' \in Endings
  BY DEF Return, Raise, Endings, ProvisioningInv, ProvisioningType
<1>2. Sound(<<>>) /\ Ops(<<>>) = {}
  <2>1. <<>> \in Seq(Step)
    OBVIOUS
  <2>2. Ops(<<>>) = {}
    BY <2>1 DEF Ops
  <2> QED
    BY <2>1, <2>2, PlainSound
<1>3. Sound(plan)' /\ Ops(plan)' = {}
  BY <1>1, <1>2, SoundKept
<1>4. ProvisioningType'
  BY <1>1 DEF ProvisioningInv, ProvisioningType
<1>5. AccessInv'
  <2>1. Provided' = Provided
    BY DEF Provided, Role
  <2> QED
    BY <1>3, <2>1 DEF AccessInv, Manned
<1> QED
  BY <1>1, <1>3, <1>4, <1>5 DEF ProvisioningInv, PlanInv, WorkInv, DrivesInv, Running

\* The first request has done what it is for.
LEMMA ContinuedInv ==
    ASSUME ProvisioningInv, plan # <<>>, ~hung, Continue, UNCHANGED <<spec, login, secret, hung, calls>>,
           Gains(Op, box, box'), faults' \in Nat, rejected' \in BOOLEAN, faults' = 0 => faults = 0
    PROVE ProvisioningInv'
<1>1. /\ result = "none" /\ Sound(plan) /\ ProvisioningType /\ device_state \in Endings /\ box \in BoxType /\ box' \in BoxType
      /\ spec' = spec /\ Role' = Role
  BY DEF ProvisioningInv, PlanInv, ProvisioningType, Gains, Role
<1>2. /\ plan' = Rest /\ result' \in {"none", "true"} /\ (plan' # <<>> => result' = "none")
      /\ device_state' \in Endings
  BY <1>1, ContinueFacts
<1>3. /\ Op \in Operations /\ Sound(Rest) /\ Ops(Rest) \subseteq Ops(plan)
      /\ Ops(plan) \subseteq Ops(Rest) \cup Dropped
  BY <1>1, RestFacts
<1>4. Sound(plan)' /\ Ops(plan)' = Ops(Rest)
  BY <1>1, <1>2, <1>3, SoundKept
<1>5. ProvisioningType'
  BY <1>1, <1>2 DEF ProvisioningType
<1>6. PlanInv'
  BY <1>2, <1>4 DEF PlanInv
<1>7. AccessInv'
  <2>1. Provided' = Provided
    BY <1>1 DEF Provided
  <2> QED
    BY <1>4, <2>1, AccessKept DEF AccessInv, Manned
<1>8. ASSUME NEW op, op \in Ops(plan), op \notin Ops(Rest), op \notin {"patch_bios", "reset", "await_post"}
      PROVE op = Op
  BY <1>3, <1>8 DEF Dropped
<1>9. ASSUME NEW section \in {"network", "services", "references", "ntp_service", "system"}, Sent(section)
      PROVE Sent(section)'
  BY <1>4, <1>8, <1>9 DEF Sent, Gains
<1>10. ASSUME ServerInv, spec.kind = "hpe" PROVE ServerInv'
  <2>1. ASSUME spec.bios PROVE BiosInv'
    <3>1. BiosInv
      BY <1>10, <2>1 DEF ServerInv
    <3>2. Due(box) => Due(box')
      BY <1>1 DEF Due, Gains
    <3>3. ASSUME "read_bios" \in Ops(plan) PROVE BiosInv'
      <4>1. CASE "read_bios" \in Ops(Rest)
        BY <1>4, <4>1 DEF BiosInv
      <4>2. CASE "read_bios" \notin Ops(Rest)
        <5>1. Op = "read_bios"
          BY <1>8, <3>3, <4>2
        <5>2. ~box.bios => Rest # <<>> /\ Rest[1].op = "patch_bios"
          BY <1>1, <5>1, RestFacts
        <5>3. box.bios => Due(box')
          BY DEF Due, Gains
        <5> QED
          BY <1>2, <5>2, <5>3 DEF BiosInv
      <4> QED
        BY <4>1, <4>2
    <3>4. ASSUME plan[1].op = "patch_bios" PROVE BiosInv'
      <4>1. Op = "patch_bios"
        BY <3>4 DEF Op
      <4>2. Rest # <<>> /\ Rest[1].op = "reset" /\ box'.pending
        BY <1>1, <4>1, RestFacts DEF Gains
      <4> QED
        BY <1>2, <4>2 DEF BiosInv
    <3>5. ASSUME plan[1].op = "reset", box.pending \/ box.bios PROVE BiosInv'
      <4>1. Op = "reset"
        BY <3>5 DEF Op
      <4>2. Due(box')
        BY <3>5, <4>1 DEF Gains, Due
      <4> QED
        BY <4>2 DEF BiosInv
    <3>6. Due(box) => BiosInv'
      BY <3>2 DEF BiosInv
    <3> QED
      BY <3>1, <3>3, <3>4, <3>5, <3>6 DEF BiosInv
  <2>2. ASSUME spec.raid # "none" PROVE "create_drive" \in Ops(Rest) \/ box'.drives = {"data"}
    <3>1. "create_drive" \in Ops(plan) \/ box.drives = {"data"}
      BY <1>10, <2>2 DEF ServerInv
    <3>2. Op = "clear_drives" => "create_drive" \in Ops(Rest)
      BY <1>1, RestFacts
    <3> QED
      BY <1>8, <3>1, <3>2 DEF Gains
  <2>3. ASSUME spec.spp \/ spec.os PROVE "eject" \in Ops(Rest) \/ box'.media = {}
    <3>1. "eject" \in Ops(plan) \/ box.media = {}
      BY <1>10, <2>3 DEF ServerInv
    <3>2. Op \in Mounts => "eject" \in Ops(Rest)
      BY <1>1, RestFacts
    <3> QED
      BY <1>8, <3>1, <3>2 DEF Gains
  <2>4. ASSUME NEW n \in spec.users
        PROVE UserOp(n) \in Ops(Rest) \/ AsGiven(n)' \/ (n = "admin" /\ spec.remove)
    <3>1. UserOp(n) \in Ops(plan) \/ AsGiven(n) \/ (n = "admin" /\ spec.remove)
      BY <1>10 DEF ServerInv
    <3>2. n \in Names
      BY <1>1, ProvisioningAssumption DEF ProvisioningType, Sections
    <3>3. Op = "remove_admin" /\ n = "admin" => spec.remove
      <4>1. plan[1] \in Step
        BY <1>1, RestFacts
      <4> QED
        BY <4>1 DEF Step, Op
    <3>4. Op = UserOp(n) => AsGiven(n)'
      BY <1>1, <3>2 DEF Gains, AsGiven
    <3>5. Op # UserOp(n) /\ ~ (Op = "remove_admin" /\ n = "admin") => (AsGiven(n) => AsGiven(n)')
      BY <1>1, <3>2 DEF Gains, AsGiven
    <3>6. UserOp(n) \in UserOps
      OBVIOUS
    <3> QED
      BY <1>8, <3>1, <3>3, <3>4, <3>5, <3>6
  <2>5. ASSUME spec.remove /\ spec.users # {}
        PROVE "remove_admin" \in Ops(Rest) \/ box'.accounts["admin"] = "none"
    <3>1. "remove_admin" \in Ops(plan) \/ box.accounts["admin"] = "none"
      BY <1>10, <2>5 DEF ServerInv
    <3>2. Op \in UserOps => "remove_admin" \in Ops(Rest)
      BY <1>1, <1>10, <2>5, RestFacts
    <3> QED
      BY <1>8, <3>1, <3>2 DEF Gains, Names
  <2> QED
    BY <1>1, <1>4, <2>1, <2>2, <2>3, <2>4, <2>5 DEF ServerInv
<1>11. WorkInv'
  BY <1>1, <1>9, <1>10 DEF ProvisioningInv, WorkInv, Running
<1>12. DrivesInv'
  <2> SUFFICES ASSUME faults' = 0, spec.raid = "clear", "create_drive" \in Ops(Rest)
               PROVE "clear_drives" \in Ops(Rest) \/ box'.drives = {}
    BY <1>1, <1>4 DEF DrivesInv
  <2>1. "clear_drives" \in Ops(plan) \/ box.drives = {}
    BY <1>3 DEF ProvisioningInv, DrivesInv
  <2>2. Op # "create_drive"
    BY <1>1, RestFacts
  <2> QED
    BY <1>8, <2>1, <2>2 DEF Gains
<1>13. RetrySucceeds'
  BY <1>2 DEF RetrySucceeds
<1> QED
  BY <1>5, <1>6, <1>7, <1>11, <1>12, <1>13 DEF ProvisioningInv


\* What a reader of the first request may use.
LEMMA FirstStep ==
    ASSUME ProvisioningInv, plan # <<>>
    PROVE /\ result = "none" /\ Sound(plan) /\ box \in BoxType /\ spec \in Sections /\ faults \in Nat
          /\ Op \in Operations /\ Op \in Ops(plan) /\ plan[1] \in Step /\ plan[1].op = Op
          /\ \A o \in Ops(plan) :
                /\ o = "remove_admin" => spec.kind = "hpe"
                /\ o \in UserOps => spec.kind \in {"hpe", "ntp"}
<1>1. result = "none" /\ Sound(plan) /\ box \in BoxType /\ spec \in Sections /\ faults \in Nat
  BY ProvisioningAssumption DEF ProvisioningInv, PlanInv, ProvisioningType
<1>2. Op \in Operations /\ plan[1] \in Step /\ plan[1].op = Op
  BY <1>1, RestFacts DEF Op
<1>3. 1 \in DOMAIN plan /\ \A i \in DOMAIN plan : plan[i] \in Step
  BY <1>1 DEF Sound
<1>4. Op \in Ops(plan)
  BY <1>2, <1>3 DEF Ops
<1>5. \A i \in DOMAIN plan :
         /\ plan[i].op = "remove_admin" => spec.kind = "hpe"
         /\ plan[i].op \in UserOps => spec.kind \in {"hpe", "ntp"}
  BY <1>3 DEF Step
<1>6. \A o \in Ops(plan) :
         /\ o = "remove_admin" => spec.kind = "hpe"
         /\ o \in UserOps => spec.kind \in {"hpe", "ntp"}
  BY <1>5 DEF Ops
<1> QED
  BY <1>1, <1>2, <1>4, <1>6

\* A clock's users and an installation's media are passed over undone.
LEMMA SkippedInv ==
    ASSUME ProvisioningInv, plan # <<>>, ~hung, Continue, UNCHANGED <<spec, login, secret, hung, calls, box>>,
           \/ spec.kind = "ntp" /\ Op \in UserOps
           \/ spec.kind = "install" /\ Op \in {"mount_ks", "eject"},
           faults' \in Nat, rejected' \in BOOLEAN, faults' = 0 => faults = 0
    PROVE ProvisioningInv'
<1>1. /\ result = "none" /\ Sound(plan) /\ spec' = spec /\ box' = box
      /\ \A o \in Ops(plan) : o = "remove_admin" => spec.kind = "hpe"
  BY FirstStep
<1>2. /\ plan' = Rest /\ result' \in {"none", "true"} /\ (plan' # <<>> => result' = "none")
      /\ device_state' \in Endings
  BY <1>1, ContinueFacts DEF ProvisioningInv, ProvisioningType
<1>3. Sound(Rest) /\ Ops(Rest) \subseteq Ops(plan) /\ Ops(plan) \subseteq Ops(Rest) \cup {Op}
  BY <1>1, RestFacts DEF Dropped
<1>4. Sound(plan)' /\ Ops(plan)' = Ops(Rest)
  BY <1>1, <1>2, <1>3, SoundKept
<1>5. ProvisioningType'
  BY <1>1, <1>2 DEF ProvisioningInv, ProvisioningType
<1>6. PlanInv'
  BY <1>2, <1>4 DEF PlanInv
<1>7. AccessInv'
  <2>1. Provided' = Provided
    BY <1>1 DEF Provided, Role
  <2>2. "remove_admin" \notin Ops(Rest)
    BY <1>1, <1>3
  <2> QED
    BY <1>1, <1>4, <2>1, <2>2 DEF ProvisioningInv, AccessInv
<1>8. WorkInv'
  <2>1. ASSUME NEW section \in {"network", "references", "ntp_service", "system"}, Sent(section)
        PROVE Sent(section)'
    BY <1>1, <1>3, <1>4, <2>1 DEF Sent
  <2> QED
    BY <1>1, <2>1 DEF ProvisioningInv, WorkInv, Running
<1>9. DrivesInv'
  BY <1>1, <1>3, <1>4 DEF ProvisioningInv, DrivesInv
<1>10. RetrySucceeds'
  BY <1>2 DEF RetrySucceeds
<1> QED
  BY <1>5, <1>6, <1>7, <1>8, <1>9, <1>10 DEF ProvisioningInv

\* Whatever a failed request changed, nothing that must not be is passed over.
LEMMA IgnoredInv ==
    ASSUME ProvisioningInv, plan # <<>>, ~hung, plan[1].on = "ignored", Continue,
           UNCHANGED <<spec, login, secret, hung, calls>>,
           box' = box \/ (Op \notin Waits /\ box' \in Effect(Op, box)),
           faults' \in Nat, rejected' \in BOOLEAN, faults' = 0 => faults = 0
    PROVE ProvisioningInv'
<1>1. Op \in Operations /\ box \in BoxType /\ spec \in Sections /\ plan[1] \in Step /\ plan[1].op = Op
  BY FirstStep
<1>2. \/ Op \in Waits \cup {"info"}
      \/ spec.kind = "ntp" /\ Op \in UserOps
      \/ spec.kind = "install" /\ Op \in {"mount_ks", "eject"}
  BY <1>1 DEF Step
<1>3. CASE Op \notin Waits /\ box' \in Effect(Op, box)
  BY <1>1, <1>3, EffectGains, ContinuedInv
<1>4. CASE box' = box /\ Op \in Waits \cup {"info"}
  <2>1. Gains(Op, box, box')
    BY <1>1, <1>4, NothingGained
  <2> QED
    BY <2>1, ContinuedInv
<1>5. CASE box' = box /\ Op \notin Waits \cup {"info"}
  BY <1>2, <1>5, SkippedInv
<1> QED
  BY <1>3, <1>4, <1>5

\* A failure without a fault has its reason in the address or the login.
LEMMA FailureInv ==
    ASSUME ProvisioningInv, plan # <<>>, ~hung, Failed \/ Return(FALSE), UNCHANGED <<spec, login, secret, hung, calls>>,
           box' = box \/ (Op \notin Waits /\ box' \in Effect(Op, box)),
           faults' \in Nat, rejected' \in BOOLEAN,
           faults' = 0 => faults = 0 /\ Shut /\ box' = box
    PROVE ProvisioningInv'
<1>1. CASE plan[1].on = "ignored" /\ Continue
  BY <1>1, IgnoredInv
<1>2. CASE Return(FALSE) \/ Raise
  <2>1. box' \in BoxType /\ (Provided => Manned(box'))
    <3>1. Op \in Operations /\ box \in BoxType /\ spec \in Sections
      BY FirstStep
    <3>2. CASE box' = box
      BY <3>1, <3>2 DEF ProvisioningInv, AccessInv, Manned
    <3>3. CASE Op \notin Waits /\ box' \in Effect(Op, box)
      <4>1. Gains(Op, box, box')
        BY <3>1, <3>3, EffectGains
      <4> QED
        BY <4>1, AccessKept DEF Gains
    <3> QED
      BY <3>2, <3>3
  <2>2. RetrySucceeds'
    BY DEF RetrySucceeds, Shut, Authorised
  <2> QED
    BY <1>2, <2>1, <2>2, FailedInv
<1> QED
  BY <1>1, <1>2 DEF Failed

LEMMA RequestInv == ASSUME ProvisioningInv, Request PROVE ProvisioningInv'
<1>1. /\ plan # <<>> /\ ~hung /\ Op \notin Waits
      /\ UNCHANGED <<spec, login, secret, hung, calls>> /\ faults' = faults
      /\ rejected' = (rejected \/ (Op = "create_drive" /\ box.drives # {}))
  BY DEF Request, Running
<1>2. /\ Sound(plan) /\ box \in BoxType /\ spec \in Sections /\ faults \in Nat
      /\ Op \in Operations /\ Op \in Ops(plan) /\ plan[1] \in Step /\ plan[1].op = Op
  BY <1>1, FirstStep
<1>3. CASE Effect(Op, box) = {}
  <2>1. Op = "create_drive" /\ box.drives # {} /\ Failed /\ box' = box
    BY <1>3, EffectOf DEF Request
  <2>2. plan[1].on \in {"fails", "escapes"} /\ spec.raid \in {"keep", "clear"}
    BY <1>2, <2>1 DEF Step, Sections, Waits
  <2>3. Return(FALSE) \/ Raise
    BY <2>1, <2>2 DEF Failed
  <2>4. ~ (faults = 0 /\ spec.raid = "clear")
    <3>1. "clear_drives" \notin Ops(plan)
      BY <1>1, <1>2, <2>1, RestFacts DEF Dropped
    <3> QED
      BY <1>2, <2>1, <3>1 DEF ProvisioningInv, DrivesInv
  <2>5. RetrySucceeds'
    BY <1>1, <2>1, <2>2, <2>4 DEF RetrySucceeds
  <2>6. Provided => Manned(box')
    BY <2>1 DEF ProvisioningInv, AccessInv, Manned
  <2> QED
    BY <1>1, <1>2, <2>1, <2>3, <2>5, <2>6, FailedInv
<1>4. CASE Effect(Op, box) # {}
  <2>1. box' \in Effect(Op, box) /\ Continue
    BY <1>4 DEF Request
  <2>2. Gains(Op, box, box')
    BY <1>1, <1>2, <2>1, EffectGains
  <2>3. rejected' \in BOOLEAN
    BY <1>1 DEF ProvisioningInv, ProvisioningType
  <2> QED
    BY <1>1, <1>2, <2>1, <2>2, <2>3, ContinuedInv
<1> QED
  BY <1>3, <1>4

LEMMA RequestRepeatedInv == ASSUME ProvisioningInv, RequestRepeated PROVE ProvisioningInv'
<1>1. /\ plan # <<>> /\ ~hung /\ Op \notin Waits /\ faults' = faults + 1 /\ spec.kind \notin {"hpe", "ntp"}
      /\ box' \in Effect(Op, box) \cup {box}
      /\ UNCHANGED <<spec, login, secret, hung, plan, device_state, result, calls, rejected>>
  BY DEF RequestRepeated, Fault, Running
<1>2. /\ result = "none" /\ Sound(plan) /\ box \in BoxType /\ spec \in Sections /\ faults \in Nat
      /\ Op \in Operations /\ Op \in Ops(plan)
      /\ \A o \in Ops(plan) :
            /\ o = "remove_admin" => spec.kind = "hpe"
            /\ o \in UserOps => spec.kind \in {"hpe", "ntp"}
  BY <1>1, FirstStep
<1>3. Op \notin UserOps /\ Op # "remove_admin" /\ "remove_admin" \notin Ops(plan)
  BY <1>1, <1>2
<1>4. box' \in BoxType /\ \A n \in Names : box'.accounts[n] = box.accounts[n]
  <2>1. box' # box => Gains(Op, box, box')
    BY <1>1, <1>2, EffectGains
  <2> QED
    BY <1>2, <1>3, <2>1 DEF Gains
<1>5. Sound(plan)' /\ Ops(plan)' = Ops(plan)
  BY <1>1, <1>2, SoundKept
<1>6. ProvisioningType'
  BY <1>1, <1>2, <1>4 DEF ProvisioningInv, ProvisioningType
<1>7. AccessInv'
  <2>1. Provided' = Provided
    BY <1>1 DEF Provided, Role
  <2> QED
    BY <1>3, <1>4, <1>5, <2>1 DEF ProvisioningInv, AccessInv, Names
<1>8. PlanInv' /\ WorkInv' /\ DrivesInv' /\ RetrySucceeds'
  BY <1>1, <1>2, <1>5 DEF PlanInv, WorkInv, DrivesInv, RetrySucceeds
<1> QED
  BY <1>6, <1>7, <1>8 DEF ProvisioningInv

\* A request without an answer: what it did is kept, and the call does nothing more.
LEMMA RequestHangsInv == ASSUME ProvisioningInv, RequestHangs PROVE ProvisioningInv'
<1>1. /\ plan # <<>> /\ faults' = faults + 1 /\ hung' = TRUE
      /\ box' \in Effect(Op, box) \cup {box}
      /\ UNCHANGED <<spec, plan, login, secret, device_state, result, calls, rejected>>
  BY DEF RequestHangs, Fault, Running
<1>2. /\ result = "none" /\ Sound(plan) /\ box \in BoxType /\ spec \in Sections /\ faults \in Nat
      /\ Op \in Operations /\ Op \in Ops(plan) /\ plan[1] \in Step /\ plan[1].op = Op
  BY <1>1, FirstStep
<1>3. box' = box \/ Gains(Op, box, box')
  <2>1. Op \in Waits => Effect(Op, box) = {box}
    BY DEF Effect, Waits
  <2> QED
    BY <1>1, <1>2, <2>1, EffectGains
<1>4. box' \in BoxType
  BY <1>2, <1>3 DEF Gains
<1>5. Sound(plan)' /\ Ops(plan)' = Ops(plan)
  BY <1>1, <1>2, SoundKept
<1>6. ProvisioningType'
  BY <1>1, <1>2, <1>4 DEF ProvisioningInv, ProvisioningType
<1>7. AccessInv'
  <2>1. Provided' = Provided
    BY <1>1 DEF Provided, Role
  <2>2. Provided => Manned(box')
    BY <1>3, <1>1, AccessKept DEF ProvisioningInv, AccessInv, Manned
  <2>3. ASSUME Provided, "remove_admin" \in Ops(plan), "user_ops" \notin Ops(plan)
        PROVE box'.accounts["ops"] = "config"
    <3>1. Op # "user_ops"
      BY <1>2, <2>3
    <3>2. box.accounts["ops"] = "config"
      BY <2>3 DEF ProvisioningInv, AccessInv
    <3> QED
      BY <1>3, <3>1, <3>2 DEF Gains, Names
  <2> QED
    BY <1>1, <1>5, <2>1, <2>2, <2>3 DEF AccessInv, Manned
<1>8. PlanInv' /\ WorkInv' /\ DrivesInv' /\ RetrySucceeds'
  BY <1>1, <1>2, <1>5 DEF PlanInv, WorkInv, DrivesInv, RetrySucceeds, Running
<1> QED
  BY <1>6, <1>7, <1>8 DEF ProvisioningInv

LEMMA AnswerInv ==
    ASSUME ProvisioningInv, RequestRefused \/ RequestLost \/ TaskFails \/ WaitTimesOut
    PROVE ProvisioningInv'
<1>1. plan # <<>> /\ ~hung /\ UNCHANGED <<spec, login, secret, hung, calls, rejected>> /\ (Failed \/ Return(FALSE))
  BY DEF RequestRefused, RequestLost, TaskFails, WaitTimesOut, Running
<1>2. faults \in Nat /\ rejected' \in BOOLEAN
  BY <1>1 DEF ProvisioningInv, ProvisioningType
<1>3. box' = box \/ (Op \notin Waits /\ box' \in Effect(Op, box))
  BY DEF RequestRefused, RequestLost, TaskFails, WaitTimesOut
<1>4. faults' = faults + 1 \/ (faults' = faults /\ Shut /\ box' = box)
  BY DEF RequestRefused, RequestLost, TaskFails, WaitTimesOut, Fault
<1>5. faults' \in Nat /\ (faults' = 0 => faults = 0 /\ Shut /\ box' = box)
  BY <1>2, <1>4
<1>6. UNCHANGED <<spec, login, secret, hung, calls>>
  BY <1>1
<1> QED
  BY <1>1, <1>2, <1>3, <1>5, <1>6, FailureInv

LEMMA WaitEndsInv == ASSUME ProvisioningInv, WaitEnds PROVE ProvisioningInv'
<1>1. plan # <<>> /\ ~hung /\ Op \in Waits /\ Continue /\ UNCHANGED <<spec, box, login, secret, hung, calls, faults, rejected>>
  BY DEF WaitEnds, Running
<1>2. Gains(Op, box, box')
  BY <1>1, FirstStep, NothingGained
<1>3. faults' \in Nat /\ rejected' \in BOOLEAN /\ (faults' = 0 => faults = 0)
  BY <1>1 DEF ProvisioningInv, ProvisioningType
<1> QED
  BY <1>1, <1>2, <1>3, ContinuedInv

\* What the box does by itself undoes nothing that was asked of it.
LEMMA BoxInv == ASSUME ProvisioningInv, BoxMoves PROVE ProvisioningInv'
<1>1. /\ spec' = spec /\ plan' = plan /\ login' = login /\ device_state' = device_state /\ result' = result
      /\ calls' = calls /\ faults' = faults /\ rejected' = rejected /\ secret' = secret /\ hung' = hung
  BY DEF BoxMoves, BmcReturns, PostEnds, InstallerEnds
<1>2. box \in BoxType /\ Sound(plan)
  BY DEF ProvisioningInv, ProvisioningType, PlanInv
<1>3. /\ box' \in BoxType /\ box'.accounts = box.accounts /\ box'.secrets = box.secrets /\ box'.drives = box.drives
      /\ box'.media = box.media /\ box'.moved = box.moved /\ box.sections \subseteq box'.sections
      /\ Due(box) => Due(box')
      /\ box.pending \/ box.bios => box'.pending \/ box'.bios
  <2>1. CASE BmcReturns
    BY <1>2, <2>1 DEF BmcReturns, BoxType, Due
  <2>2. CASE PostEnds
    BY <1>2, <2>2 DEF PostEnds, BoxType, Due
  <2>3. CASE InstallerEnds
    BY <1>2, <2>3 DEF InstallerEnds, BoxType, Due
  <2> QED
    BY <2>1, <2>2, <2>3 DEF BoxMoves
<1>4. Sound(plan)' /\ Ops(plan)' = Ops(plan)
  BY <1>1, <1>2, SoundKept
<1>5. ProvisioningType'
  BY <1>1, <1>3 DEF ProvisioningInv, ProvisioningType
<1>6. PlanInv'
  BY <1>1, <1>4 DEF ProvisioningInv, PlanInv
<1>7. AccessInv'
  <2>1. Provided' = Provided
    BY <1>1 DEF Provided, Role
  <2> QED
    BY <1>3, <1>4, <2>1 DEF ProvisioningInv, AccessInv
<1>8. WorkInv'
  <2>1. Role' = Role
    BY <1>1 DEF Role
  <2>2. BiosInv => BiosInv'
    BY <1>1, <1>3, <1>4 DEF BiosInv
  <2>3. ServerInv => ServerInv'
    BY <1>1, <1>3, <1>4, <2>1, <2>2 DEF ServerInv, AsGiven
  <2>4. \A section \in {"network", "services", "references", "ntp_service", "system"} :
           Sent(section) => (section \in Ops(plan)' \/ section \in box'.sections)
    BY <1>3, <1>4 DEF Sent
  <2> QED
    BY <1>1, <2>3, <2>4 DEF ProvisioningInv, WorkInv, Running, Sent
<1>9. DrivesInv' /\ RetrySucceeds'
  BY <1>1, <1>3, <1>4 DEF ProvisioningInv, DrivesInv, RetrySucceeds
<1> QED
  BY <1>5, <1>6, <1>7, <1>8, <1>9 DEF ProvisioningInv


LEMMA NextInv == ASSUME ProvisioningInv, [Next]_vars PROVE ProvisioningInv'
<1>1. CASE Next
  BY <1>1, CallInv, RequestInv, AnswerInv, RequestRepeatedInv, RequestHangsInv, WaitEndsInv, BoxInv DEF Next, Caller
<1>2. CASE UNCHANGED vars
  <2>1. UNCHANGED <<spec, box, plan, login, secret, hung, device_state, result, calls, faults, rejected>>
    BY <1>2 DEF vars
  <2>2. Sound(plan)' /\ Ops(plan)' = Ops(plan)
    BY <2>1, SoundKept DEF ProvisioningInv, PlanInv
  <2>3. ProvisioningType' /\ PlanInv' /\ RetrySucceeds'
    BY <2>1, <2>2 DEF ProvisioningInv, ProvisioningType, PlanInv, RetrySucceeds
  <2>4. AccessInv'
    <3>1. Provided' = Provided
      BY <2>1 DEF Provided, Role
    <3> QED
      BY <2>1, <2>2, <3>1 DEF ProvisioningInv, AccessInv
  <2>5. DrivesInv'
    BY <2>1, <2>2 DEF ProvisioningInv, DrivesInv
  <2>6. WorkInv'
    <3>1. Role' = Role
      BY <2>1 DEF Role
    <3>2. BiosInv => BiosInv'
      BY <2>1, <2>2 DEF BiosInv, Due
    <3>3. ServerInv => ServerInv'
      BY <2>1, <2>2, <3>1, <3>2 DEF ServerInv, AsGiven
    <3> QED
      BY <2>1, <2>2, <3>3 DEF ProvisioningInv, WorkInv, Running, Sent
  <2> QED
    BY <2>3, <2>4, <2>5, <2>6 DEF ProvisioningInv
<1> QED
  BY <1>1, <1>2

LEMMA InvHolds == Spec => []ProvisioningInv
BY InitInv, NextInv, PTL DEF Spec

LEMMA InvImplies == ProvisioningInv => AccessNeverLost /\ ProvisionedAsSpecified /\ RetrySucceeds
<1> SUFFICES ASSUME ProvisioningInv PROVE AccessNeverLost /\ ProvisionedAsSpecified /\ RetrySucceeds
  OBVIOUS
<1>1. AccessNeverLost
  BY DEF ProvisioningInv, AccessInv, AccessNeverLost, Names
<1>2. ASSUME result = "true" PROVE plan = <<>> /\ Ops(plan) = {}
  <2>1. plan = <<>>
    BY <1>2 DEF ProvisioningInv, PlanInv
  <2>2. DOMAIN plan = {}
    BY <2>1
  <2> QED
    BY <2>1, <2>2 DEF Ops
<1>3. ASSUME result = "true", spec.kind = "hpe" PROVE ServerInv /\ Ops(plan) = {} /\ (spec.bios => Due(box))
  <2>1. ServerInv
    BY <1>3 DEF ProvisioningInv, WorkInv
  <2> QED
    BY <1>2, <1>3, <2>1 DEF ServerInv, BiosInv
<1>4. ProvisionedAsSpecified
  <2>1. ASSUME result = "true", spec.kind = "hpe"
        PROVE /\ spec.services => "services" \in box.sections
              /\ spec.network => "network" \in box.sections
    BY <1>3, <2>1 DEF ProvisioningInv, WorkInv, Sent
  <2>2. ASSUME result = "true", spec.kind = "ntp"
        PROVE /\ spec.services => {"references", "ntp_service", "system"} \subseteq box.sections
              /\ spec.network => "network" \in box.sections
    BY <1>2, <2>2 DEF ProvisioningInv, WorkInv, Sent
  <2> QED
    BY <1>3, <2>1, <2>2 DEF ProvisionedAsSpecified, ServerInv, AsGiven, Due
<1> QED
  BY <1>1, <1>4 DEF ProvisioningInv

(* The state of a provisioning has its types, and what is left of a call   *)
(* are requests that the entry asks for, in an order in which no mount is  *)
(* without its ejection, no drive is cleared after it was made, and no     *)
(* account is made after the default one has gone.                         *)
THEOREM PlanIsOrdered == Spec => [](ProvisioningType /\ PlanInv)
BY InvHolds, PTL DEF ProvisioningInv

(* However a call of provision() is cut off, the box keeps an account that *)
(* can configure it: _configure_ilo_users (server.py) removes the default  *)
(* account last.                                                           *)
THEOREM AccessIsKept == Spec => []AccessNeverLost
BY InvHolds, InvImplies, PTL

(* A server or clock that counts as provisioned has its BIOS settings,     *)
(* drives, empty media, accounts, services and address as its inventory    *)
(* entry says, through any number of calls, lost requests and restarts.    *)
THEOREM ProvisionedIsDone == Spec => []ProvisionedAsSpecified
BY InvHolds, InvImplies, PTL

(* A call in which nothing is lost fails only because of the address, the  *)
(* rights or the password of its login, or drives that configure_raid was  *)
(* told to keep.                                                           *)
THEOREM RetryEndsWell == Spec => []RetrySucceeds
BY InvHolds, InvImplies, PTL
=============================================================================
