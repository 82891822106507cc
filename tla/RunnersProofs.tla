---------------------------- MODULE RunnersProofs ----------------------------
(***************************************************************************)
(* The safety properties of Runners for any number of requests, calls and  *)
(* restarts.                                                               *)
(***************************************************************************)
EXTENDS Runners, FiniteSetTheorems, TLAPS

Record == [by : Trio, phase : Phase]

Requests == [runner : Runner \cup {"none"}, kind : {"none", "start", "resume"}, left : Seq(Runner)]

TypeInv ==
    /\ request \in [Request -> Requests]
    /\ live \in [Runner -> {0, 1}]
    /\ step \in [Runner -> {"idle", "begin", "run", "settle", "cleanup"}]
    /\ resuming \in [Runner -> BOOLEAN]
    /\ outcome \in [Runner -> {"none", "working", "failed", "complete"}]
    /\ stop \in [Runner -> BOOLEAN]
    /\ asked \in [Runner -> BOOLEAN]
    /\ records \in Seq(Record)
    /\ mine \in [Runner -> 0..Len(records)]
    /\ saved \in SUBSET Resumable
    /\ overlap \in BOOLEAN

(* What a thread has done at each step.  A run that is settled has ended   *)
(* well, or badly, or was stopped.                                         *)
StepInv ==
    \A x \in Runner :
        /\ live[x] = 0 <=> step[x] = "idle"
        /\ step[x] \in {"idle", "begin"} => mine[x] = 0
        /\ x \in Resumable /\ step[x] \in {"run", "settle"} => mine[x] # 0
        /\ live[x] = 0 => ~asked[x]
        /\ live[x] # 0 => (stop[x] <=> asked[x])
        /\ step[x] = "settle" =>
              /\ x \in Resumable
              /\ outcome[x] \in {"complete", "failed"} \/ (outcome[x] = "working" /\ stop[x])

(* The record of a deployment that shows a phase in progress is held by a  *)
(* thread that will still write to it.                                     *)
OwnInv ==
    /\ mine["prepare"] = 0
    /\ mine["simulation"] # 0 => records[mine["simulation"]].by = "simulation"
    /\ \A i \in 1..Len(records) :
         i \notin orphans /\ records[i].by = "deployment" /\ records[i].phase = "working" =>
           \E x \in Resumable : mine[x] = i /\ step[x] \in {"run", "settle"}

Named(s) == {s[i] : i \in 1..Len(s)}

(* Requests that do not overlap see what they looked at unchanged.         *)
AskInv ==
    ~overlap =>
      /\ \A p, q \in Request : p = q \/ request[p] = Idle \/ request[q] = Idle
      /\ \A q \in Request : request[q].runner \in Trio =>
           \A y \in Trio \ {request[q].runner} : y \in Named(request[q].left) \/ live[y] = 0
      /\ \A x, y \in Trio : x = y \/ live[x] = 0 \/ live[y] = 0

(* The newest record, when it is that of a stopped deployment, has a file  *)
(* beside it, or belongs to a run that has completed and will say so.      *)
ResumeInv ==
    ~overlap =>
      /\ \A x \in Resumable : mine[x] # 0 => mine[x] = Len(records)
      /\ \A x \in Resumable : step[x] = "settle" /\ outcome[x] = "working" => saved # {}
      /\ \A i \in 1..Len(records) :
           /\ i = Len(records) /\ i \notin orphans
           /\ records[i].by = "deployment" /\ records[i].phase = "stopped"
           => \/ saved # {}
              \/ /\ step["deployment"] = "settle" /\ outcome["deployment"] = "complete"
                 /\ mine["deployment"] = i

IInv == TypeInv /\ StepInv /\ OwnInv /\ AskInv /\ ResumeInv

USE DEF Runner, Trio, Resumable

LEMMA InitIInv == Init => IInv
<1> SUFFICES ASSUME Init PROVE IInv
  OBVIOUS
<1>1. TypeInv
  <2>1. <<>> \in Seq(Runner) /\ <<>> \in Seq(Record) /\ Len(<<>>) = 0
    OBVIOUS
  <2>2. Idle \in Requests
    BY <2>1 DEF Idle, Requests
  <2>3. request \in [Request -> Requests]
    BY <2>2 DEF Init
  <2>4. records \in Seq(Record) /\ mine \in [Runner -> 0..Len(records)]
    BY <2>1 DEF Init
  <2>5. /\ live \in [Runner -> {0, 1}]
        /\ step \in [Runner -> {"idle", "begin", "run", "settle", "cleanup"}]
        /\ resuming \in [Runner -> BOOLEAN] /\ stop \in [Runner -> BOOLEAN]
        /\ asked \in [Runner -> BOOLEAN]
        /\ outcome \in [Runner -> {"none", "working", "failed", "complete"}]
        /\ saved \in SUBSET Resumable /\ overlap \in BOOLEAN
    BY DEF Init
  <2> QED
    BY <2>3, <2>4, <2>5 DEF TypeInv
<1>2. StepInv /\ OwnInv /\ AskInv /\ ResumeInv
  BY DEF Init, StepInv, OwnInv, AskInv, ResumeInv, Idle
<1> QED
  BY <1>1, <1>2 DEF IInv

(* The record that a run holds is given a phase, the others stay.          *)
Writes(x) ==
    /\ records' \in Seq(Record) /\ Len(records') = Len(records)
    /\ \A i \in 1..Len(records) :
         /\ records'[i].by = records[i].by
         /\ i = mine[x] \/ records'[i].phase = records[i].phase

LEMMA SetPhaseWrites ==
    ASSUME TypeInv, NEW x \in Runner, NEW p \in Phase, SetPhase(x, p)
    PROVE Writes(x) /\ (mine[x] # 0 => records'[mine[x]].phase = p)
<1>1. CASE mine[x] = 0
  BY <1>1 DEF SetPhase, Writes, TypeInv
<1>2. CASE mine[x] # 0
  <2>1. mine[x] \in 1..Len(records)
    BY <1>2 DEF TypeInv
  <2>2. records' = [records EXCEPT ![mine[x]] = [records[mine[x]] EXCEPT !.phase = p]]
    BY <1>2 DEF SetPhase
  <2>3. [records[mine[x]] EXCEPT !.phase = p] = [by |-> records[mine[x]].by, phase |-> p]
    <3>1. records[mine[x]] \in Record
      BY <2>1 DEF TypeInv
    <3> QED
      BY <3>1 DEF Record
  <2>4. [records[mine[x]] EXCEPT !.phase = p] \in Record
    BY <2>1, <2>3 DEF TypeInv, Record
  <2>5. records' \in Seq(Record) /\ Len(records') = Len(records)
    BY <2>1, <2>2, <2>4 DEF TypeInv
  <2>6. \A i \in 1..Len(records) :
          records'[i] = IF i = mine[x] THEN [by |-> records[mine[x]].by, phase |-> p] ELSE records[i]
    BY <2>1, <2>2, <2>3 DEF TypeInv
  <2> QED
    BY <2>1, <2>5, <2>6 DEF Writes
<1> QED
  BY <1>1, <1>2

(* A new record is the newest. *)
LEMMA AppendIs ==
    ASSUME TypeInv, NEW x \in Trio, records' = Append(records, NewRecord(x))
    PROVE /\ records' \in Seq(Record) /\ Len(records') = Len(records) + 1
          /\ \A i \in 1..Len(records) : records'[i] = records[i]
          /\ records'[Len(records) + 1] = [by |-> x, phase |-> "working"]
<1>1. NewRecord(x) \in Record
  BY DEF NewRecord, Record, Phase
<1> QED
  BY <1>1 DEF TypeInv, NewRecord

(* A step of a thread leaves the requests alone. *)
LEMMA GoToAsk ==
    ASSUME AskInv, UNCHANGED <<request, live, overlap>>
    PROVE AskInv'
BY DEF AskInv, Named

(* A step of a run under way that writes to its record. *)
LEMMA RunIInv ==
    ASSUME IInv, NEW x \in Runner, step[x] \in {"run", "settle"},
           NEW t \in {"run", "settle", "cleanup"}, GoTo(x, t),
           UNCHANGED mine, Writes(x),
           outcome' \in [Runner -> {"none", "working", "failed", "complete"}],
           \A y \in Runner \ {x} : outcome'[y] = outcome[y],
           saved' \in SUBSET Resumable,
           t = "settle" =>
              /\ x \in Resumable
              /\ outcome'[x] \in {"complete", "failed"} \/ (outcome'[x] = "working" /\ stop[x]),
           t = "cleanup" /\ x # "simulation" /\ mine[x] # 0 => records'[mine[x]].phase # "working"
    PROVE TypeInv' /\ StepInv' /\ OwnInv' /\ AskInv'
<1>1. /\ step' = [step EXCEPT ![x] = t]
      /\ UNCHANGED <<request, live, resuming, stop, asked, overlap, orphans, mine>>
  BY DEF GoTo, history
<1>2. TypeInv'
  BY <1>1 DEF IInv, TypeInv, Writes
<1>3. StepInv'
  BY <1>1 DEF IInv, TypeInv, StepInv
<1>4. OwnInv'
  <2>1. mine["prepare"]' = 0
    BY <1>1 DEF IInv, OwnInv
  <2>2. mine["simulation"] # 0 => records'[mine["simulation"]].by = "simulation"
    BY DEF IInv, TypeInv, OwnInv, Writes
  <2>3. ASSUME NEW i \in 1..Len(records), i \notin orphans,
               records'[i].by = "deployment", records'[i].phase = "working"
        PROVE \E y \in Resumable : mine[y] = i /\ step'[y] \in {"run", "settle"}
    <3>1. records[i].by = "deployment"
      BY <2>3 DEF Writes
    <3>2. CASE i = mine[x]
      <4>1. x \in Resumable
        BY <3>1, <3>2 DEF IInv, OwnInv
      <4>2. t # "cleanup"
        BY <2>3, <3>2, <4>1
      <4> QED
        BY <1>1, <3>2, <4>1, <4>2 DEF IInv, TypeInv
    <3>3. CASE i # mine[x]
      <4>1. records[i].phase = "working"
        BY <2>3, <3>3 DEF Writes
      <4>2. PICK y \in Resumable : mine[y] = i /\ step[y] \in {"run", "settle"}
        BY <2>3, <3>1, <4>1 DEF IInv, OwnInv
      <4>3. y # x
        BY <3>3, <4>2
      <4> QED
        BY <1>1, <4>2, <4>3 DEF IInv, TypeInv
    <3> QED
      BY <3>2, <3>3
  <2> QED
    BY <1>1, <2>1, <2>2, <2>3 DEF OwnInv, Writes
<1>5. AskInv'
  BY <1>1, GoToAsk DEF IInv
<1> QED
  BY <1>2, <1>3, <1>4, <1>5

(* The same for the checkpoint files, when none is removed. *)
LEMMA KeepIInv ==
    ASSUME IInv, NEW x \in Runner, NEW t \in {"run", "settle", "cleanup"}, GoTo(x, t),
           UNCHANGED mine, Writes(x),
           \A y \in Runner \ {x} : outcome'[y] = outcome[y],
           saved \subseteq saved',
           t = "settle" /\ outcome'[x] = "working" => saved' # {},
           mine[x] # 0 /\ records'[mine[x]].by = "deployment" /\ records'[mine[x]].phase = "stopped"
             => saved' # {} \/ (x # "deployment" /\ records[mine[x]].phase = "stopped")
    PROVE ResumeInv'
<1>1. /\ step' = [step EXCEPT ![x] = t]
      /\ UNCHANGED <<overlap, orphans, mine>>
  BY DEF GoTo, history
<1> SUFFICES ASSUME ~overlap PROVE ResumeInv'
  BY <1>1 DEF ResumeInv
<1>2. \A y \in Resumable : mine[y] # 0 => mine[y] = Len(records')
  BY DEF IInv, ResumeInv, Writes
<1>3. \A y \in Resumable : step'[y] = "settle" /\ outcome'[y] = "working" => saved' # {}
  BY <1>1 DEF IInv, TypeInv, ResumeInv
<1>4. ASSUME NEW i \in 1..Len(records), i = Len(records), i \notin orphans,
             records'[i].by = "deployment", records'[i].phase = "stopped", saved' = {}
      PROVE /\ step'["deployment"] = "settle" /\ outcome'["deployment"] = "complete"
            /\ mine["deployment"] = i
  <2>1. i # mine[x] \/ (x # "deployment" /\ records[i].phase = "stopped")
    BY <1>4
  <2>2. records[i].by = "deployment" /\ records[i].phase = "stopped" /\ saved = {}
    BY <1>4, <2>1 DEF Writes
  <2>3. /\ step["deployment"] = "settle" /\ outcome["deployment"] = "complete"
        /\ mine["deployment"] = i
    BY <1>4, <2>2 DEF IInv, ResumeInv
  <2>4. x # "deployment"
    BY <2>1, <2>3
  <2> QED
    BY <1>1, <2>3, <2>4 DEF IInv, TypeInv
<1> QED
  BY <1>1, <1>2, <1>3, <1>4 DEF ResumeInv, Writes

LEMMA ProgressIInv == ASSUME IInv, NEW x \in Runner, Progress(x) PROVE IInv'
<1>1. /\ step[x] = "run" /\ SetPhase(x, "working") /\ GoTo(x, "run")
      /\ UNCHANGED <<mine, outcome>> /\ saved \subseteq saved' /\ saved' \in SUBSET Resumable
  BY DEF Progress, KeepsFile, IInv, TypeInv
<1>2. Writes(x) /\ (mine[x] # 0 => records'[mine[x]].phase = "working")
  BY <1>1, SetPhaseWrites DEF IInv, Phase
<1>3. TypeInv' /\ StepInv' /\ OwnInv' /\ AskInv'
  BY <1>1, <1>2, RunIInv DEF IInv, TypeInv
<1>4. ResumeInv'
  BY <1>1, <1>2, KeepIInv
<1> QED
  BY <1>3, <1>4 DEF IInv

LEMMA StoppedIInv == ASSUME IInv, NEW x \in Runner, RunStopped(x) PROVE IInv'
<1>1. /\ x \in Resumable /\ step[x] = "run" /\ stop[x]
      /\ SetPhase(x, "working") /\ GoTo(x, "settle") /\ UNCHANGED mine
      /\ outcome' = [outcome EXCEPT ![x] = "working"]
      /\ saved' = saved \cup {x}
  BY DEF RunStopped, KeepsFile
<1>2. Writes(x) /\ (mine[x] # 0 => records'[mine[x]].phase = "working")
  BY <1>1, SetPhaseWrites DEF IInv, Phase
<1>3. /\ outcome' \in [Runner -> {"none", "working", "failed", "complete"}]
      /\ outcome'[x] = "working" /\ \A y \in Runner \ {x} : outcome'[y] = outcome[y]
      /\ saved' \in SUBSET Resumable /\ saved \subseteq saved' /\ saved' # {}
  BY <1>1 DEF IInv, TypeInv
<1>4. TypeInv' /\ StepInv' /\ OwnInv' /\ AskInv'
  BY <1>1, <1>2, <1>3, RunIInv
<1>5. ResumeInv'
  BY <1>1, <1>2, <1>3, KeepIInv
<1> QED
  BY <1>4, <1>5 DEF IInv

LEMMA FailsIInv == ASSUME IInv, NEW x \in Runner, RunFails(x) PROVE IInv'
<1>1. /\ x \in Resumable /\ step[x] = "run" /\ GoTo(x, "settle") /\ UNCHANGED mine
      /\ outcome' = [outcome EXCEPT ![x] = "failed"]
  BY DEF RunFails
<1>2. /\ outcome' \in [Runner -> {"none", "working", "failed", "complete"}]
      /\ outcome'[x] = "failed" /\ \A y \in Runner \ {x} : outcome'[y] = outcome[y]
  BY <1>1 DEF IInv, TypeInv
<1>3. saved' \in SUBSET Resumable /\ saved \subseteq saved'
  <2>1. saved' = saved \cup {x} \/ saved' = saved
    BY DEF RunFails
  <2> QED
    BY <1>1, <2>1 DEF IInv, TypeInv
<1>4. /\ Writes(x)
      /\ mine[x] # 0 => \/ records'[mine[x]].phase = "failed"
                        \/ x # "deployment" /\ records' = records
  <2>1. CASE x = "deployment"
    <3>1. SetPhase(x, "failed")
      BY <2>1 DEF RunFails
    <3> QED
      BY <3>1, SetPhaseWrites DEF IInv, Phase
  <2>2. CASE x = "rollback"
    BY <2>2 DEF RunFails, IInv, TypeInv, Writes
  <2> QED
    BY <1>1, <2>1, <2>2
<1>5. TypeInv' /\ StepInv' /\ OwnInv' /\ AskInv'
  BY <1>1, <1>2, <1>3, <1>4, RunIInv
<1>6. ResumeInv'
  BY <1>1, <1>2, <1>3, <1>4, KeepIInv
<1> QED
  BY <1>5, <1>6 DEF IInv

(* A run that completes removes its file; the record is the newest one, so *)
(* that it is not shown as stopped without a file.                         *)
LEMMA CompletesIInv == ASSUME IInv, NEW x \in Runner, RunCompletes(x) PROVE IInv'
<1>1. /\ x \in Resumable /\ step[x] = "run" /\ GoTo(x, "settle") /\ UNCHANGED mine
      /\ outcome' = [outcome EXCEPT ![x] = "complete"]
      /\ saved' \in SUBSET Resumable
  BY DEF RunCompletes, IInv, TypeInv
<1>2. /\ outcome' \in [Runner -> {"none", "working", "failed", "complete"}]
      /\ outcome'[x] = "complete" /\ \A y \in Runner \ {x} : outcome'[y] = outcome[y]
  BY <1>1 DEF IInv, TypeInv
<1>3. /\ Writes(x)
      /\ mine[x] # 0 /\ x # "deployment" => records'[mine[x]].phase = "complete"
  <2>1. CASE x = "deployment"
    BY <2>1 DEF RunCompletes, IInv, TypeInv, Writes
  <2>2. CASE x = "rollback"
    <3>1. SetPhase(x, "complete")
      BY <2>2 DEF RunCompletes
    <3> QED
      BY <3>1, SetPhaseWrites DEF IInv, Phase
  <2> QED
    BY <1>1, <2>1, <2>2
<1>4. TypeInv' /\ StepInv' /\ OwnInv' /\ AskInv'
  BY <1>1, <1>2, <1>3, RunIInv
<1>5. ResumeInv'
  <2>1. /\ step' = [step EXCEPT ![x] = "settle"]
        /\ UNCHANGED <<overlap, orphans, mine>>
    BY <1>1 DEF GoTo, history
  <2> SUFFICES ASSUME ~overlap PROVE ResumeInv'
    BY <2>1 DEF ResumeInv
  <2>2. mine[x] = Len(records) /\ mine[x] # 0
    BY <1>1 DEF IInv, StepInv, ResumeInv
  <2>3. \A y \in Resumable : mine[y] # 0 => mine[y] = Len(records')
    BY <1>3 DEF IInv, ResumeInv, Writes
  <2>4. \A y \in Resumable : y # x => step[y] = "idle"
    BY <1>1 DEF IInv, AskInv, StepInv, TypeInv
  <2>5. \A y \in Resumable : ~(step'[y] = "settle" /\ outcome'[y] = "working")
    BY <1>2, <2>1, <2>4 DEF IInv, TypeInv
  <2>6. ASSUME NEW i \in 1..Len(records), i = Len(records), records'[i].phase = "stopped"
        PROVE /\ step'["deployment"] = "settle" /\ outcome'["deployment"] = "complete"
              /\ mine["deployment"] = i
    <3>1. x = "deployment"
      BY <1>3, <2>2, <2>6
    <3> QED
      BY <1>2, <2>1, <2>2, <2>6, <3>1 DEF IInv, TypeInv
  <2> QED
    BY <1>3, <2>1, <2>3, <2>5, <2>6 DEF ResumeInv, Writes
<1> QED
  BY <1>4, <1>5 DEF IInv

LEMMA RaisesIInv == ASSUME IInv, NEW x \in Runner, RunRaises(x) PROVE IInv'
<1>1. /\ step[x] = "run" /\ SetPhase(x, "failed") /\ GoTo(x, "cleanup")
      /\ UNCHANGED <<mine, outcome, saved>>
  BY DEF RunRaises
<1>2. Writes(x) /\ (mine[x] # 0 => records'[mine[x]].phase = "failed")
  BY <1>1, SetPhaseWrites DEF IInv, Phase
<1>3. TypeInv' /\ StepInv' /\ OwnInv' /\ AskInv'
  BY <1>1, <1>2, RunIInv DEF IInv, TypeInv
<1>4. ResumeInv'
  BY <1>1, <1>2, KeepIInv
<1> QED
  BY <1>3, <1>4 DEF IInv

(* A simulation's record is never taken for a deployment's. *)
LEMMA SimulationEndsIInv == ASSUME IInv, SimulationEnds PROVE IInv'
<1> DEFINE x == "simulation"
<1>1. /\ step[x] = "run" /\ GoTo(x, "cleanup") /\ UNCHANGED <<mine, outcome, saved>>
  BY DEF SimulationEnds
<1>2. Writes(x)
  <2>1. CASE \E p \in {"complete", "failed", "stopped"} : SetPhase(x, p)
    BY <2>1, SetPhaseWrites DEF IInv, Phase
  <2>2. CASE UNCHANGED records
    BY <2>2 DEF IInv, TypeInv, Writes
  <2> QED
    BY <2>1, <2>2 DEF SimulationEnds
<1>3. mine[x] # 0 => records'[mine[x]].by = "simulation"
  BY <1>2 DEF IInv, TypeInv, OwnInv, Writes
<1>4. TypeInv' /\ StepInv' /\ OwnInv' /\ AskInv'
  BY <1>1, <1>2, RunIInv DEF IInv, TypeInv
<1>5. ResumeInv'
  BY <1>1, <1>2, <1>3, KeepIInv
<1> QED
  BY <1>4, <1>5 DEF IInv

LEMMA PrepareEndsIInv == ASSUME IInv, PrepareEnds PROVE IInv'
<1> DEFINE x == "prepare"
<1>1. /\ step[x] = "run" /\ GoTo(x, "cleanup") /\ mine[x] = 0
      /\ UNCHANGED <<mine, outcome, records, saved>>
  BY DEF PrepareEnds, IInv, OwnInv
<1>2. Writes(x)
  BY <1>1 DEF IInv, TypeInv, Writes
<1>3. TypeInv' /\ StepInv' /\ OwnInv' /\ AskInv'
  BY <1>1, <1>2, RunIInv DEF IInv, TypeInv
<1>4. ResumeInv'
  BY <1>1, <1>2, KeepIInv
<1> QED
  BY <1>3, <1>4 DEF IInv

LEMMA SettleIInv == ASSUME IInv, NEW x \in Runner, Settle(x) PROVE IInv'
<1>1. /\ step[x] = "settle" /\ SetPhase(x, FinalPhase(x)) /\ GoTo(x, "cleanup")
      /\ UNCHANGED <<mine, outcome, saved>>
  BY DEF Settle
<1>2. /\ x \in Resumable /\ FinalPhase(x) \in {"stopped", "failed", "complete"}
      /\ FinalPhase(x) = "stopped" => outcome[x] = "working"
  BY <1>1 DEF IInv, StepInv, FinalPhase
<1>3. Writes(x) /\ (mine[x] # 0 => records'[mine[x]].phase = FinalPhase(x))
  BY <1>1, <1>2, SetPhaseWrites DEF IInv, Phase
<1>4. TypeInv' /\ StepInv' /\ OwnInv' /\ AskInv'
  BY <1>1, <1>2, <1>3, RunIInv DEF IInv, TypeInv
<1>5. ResumeInv'
  <2>1. CASE overlap
    BY <1>1, <2>1 DEF ResumeInv, GoTo, history
  <2>2. CASE ~overlap
    <3>1. FinalPhase(x) = "stopped" => saved # {}
      BY <1>1, <1>2, <2>2 DEF IInv, ResumeInv
    <3> QED
      BY <1>1, <1>3, <3>1, KeepIInv
  <2> QED
    BY <2>1, <2>2
<1> QED
  BY <1>4, <1>5 DEF IInv

(* Requests change neither threads nor records, until one launches a run.  *)
LEMMA RequestIInv ==
    ASSUME IInv, TypeInv', AskInv', overlap => overlap',
           UNCHANGED <<live, step, outcome, stop, asked, mine, records, saved, orphans>>
    PROVE IInv'
<1>1. StepInv' /\ OwnInv'
  BY DEF IInv, StepInv, OwnInv
<1>2. ResumeInv'
  BY DEF IInv, ResumeInv
<1> QED
  BY <1>1, <1>2 DEF IInv

LEMMA PairNamed ==
    ASSUME NEW y \in Runner, NEW z \in Runner
    PROVE <<y, z>> \in Seq(Runner) /\ Named(<<y, z>>) = {y, z}
<1>1. <<y, z>> \in Seq(Runner) /\ Len(<<y, z>>) = 2 /\ <<y, z>>[1] = y /\ <<y, z>>[2] = z
  OBVIOUS
<1>2. 1..2 = {1, 2}
  OBVIOUS
<1> QED
  BY <1>1, <1>2 DEF Named

LEMMA AskIInv ==
    ASSUME IInv, NEW q \in Request, NEW x \in Runner, NEW kind \in {"start", "resume"}, Ask(q, x, kind)
    PROVE IInv'
<1> DEFINE asks == [runner |-> x, kind |-> kind, left |-> Checks(x)]
<1>1. /\ request[q] = Idle /\ request' = [request EXCEPT ![q] = asks]
      /\ overlap' = (overlap \/ \E p \in Request : request[p] # Idle)
      /\ UNCHANGED <<live, step, resuming, outcome, stop, asked, mine, records, saved, orphans>>
  BY DEF Ask, thread
<1>2. Checks(x) \in Seq(Runner) /\ (x \in Trio => Trio \ {x} \subseteq Named(Checks(x)))
  <2>1. CASE x = "deployment"
    <3>1. Checks(x) = <<"simulation", "rollback">>
      BY <2>1 DEF Checks
    <3> QED
      BY <2>1, <3>1, PairNamed
  <2>2. CASE x = "rollback"
    <3>1. Checks(x) = <<"deployment", "simulation">>
      BY <2>2 DEF Checks
    <3> QED
      BY <2>2, <3>1, PairNamed
  <2>3. CASE x = "simulation"
    <3>1. Checks(x) = <<"deployment", "rollback">>
      BY <2>3 DEF Checks
    <3> QED
      BY <2>3, <3>1, PairNamed
  <2>4. CASE x = "prepare"
    <3>1. Checks(x) = <<"deployment", "simulation", "rollback">>
      BY <2>4 DEF Checks
    <3>2. <<"deployment", "simulation", "rollback">> \in Seq(Runner)
      OBVIOUS
    <3> QED
      BY <2>4, <3>1, <3>2
  <2> QED
    BY <2>1, <2>2, <2>3, <2>4
<1>3. asks \in Requests
  BY <1>2 DEF Requests
<1>4. TypeInv'
  BY <1>1, <1>3 DEF IInv, TypeInv
<1>5. AskInv'
  <2> SUFFICES ASSUME ~overlap' PROVE AskInv'
    BY DEF AskInv
  <2>1. ~overlap /\ \A p \in Request : request[p] = Idle
    BY <1>1
  <2>2. \A p \in Request : request'[p] = IF p = q THEN asks ELSE Idle
    BY <1>1, <2>1 DEF IInv, TypeInv
  <2>3. Idle.runner \notin Trio
    BY DEF Idle
  <2>4. \A p \in Request : request'[p].runner \in Trio =>
          \A y \in Trio \ {request'[p].runner} : y \in Named(request'[p].left)
    BY <1>2, <2>2, <2>3
  <2>5. \A p, r \in Request : p = r \/ request'[p] = Idle \/ request'[r] = Idle
    BY <2>2
  <2>6. \A y, z \in Trio : y = z \/ live'[y] = 0 \/ live'[z] = 0
    BY <1>1, <2>1 DEF IInv, AskInv
  <2> QED
    BY <2>4, <2>5, <2>6 DEF AskInv, Named
<1> QED
  BY <1>1, <1>4, <1>5, RequestIInv

LEMMA RefuseIInv == ASSUME IInv, NEW q \in Request, Refuse(q) PROVE IInv'
<1>1. /\ request' = [request EXCEPT ![q] = Idle]
      /\ UNCHANGED <<live, step, resuming, outcome, stop, asked, mine, records, saved, overlap, orphans>>
  BY DEF Refuse, thread, history
<1>2. Idle \in Requests /\ Idle.runner \notin Trio
  <2>1. <<>> \in Seq(Runner)
    OBVIOUS
  <2> QED
    BY <2>1 DEF Idle, Requests
<1>3. TypeInv'
  BY <1>1, <1>2 DEF IInv, TypeInv
<1>4. \A p \in Request : request'[p] = IF p = q THEN Idle ELSE request[p]
  BY <1>1 DEF IInv, TypeInv
<1>5. AskInv'
  BY <1>1, <1>2, <1>4 DEF IInv, AskInv, Named
<1> QED
  BY <1>1, <1>3, <1>5, RequestIInv

LEMMA DropIs ==
    ASSUME NEW r \in Requests
    PROVE [r EXCEPT !.left = Tail(r.left)] = [runner |-> r.runner, kind |-> r.kind, left |-> Tail(r.left)]
<1>1. PICK a, b, c : r = [runner |-> a, kind |-> b, left |-> c]
  BY DEF Requests
<1>2. \A t : [r EXCEPT !.left = t] = [runner |-> a, kind |-> b, left |-> t]
  BY <1>1
<1>3. r.runner = a /\ r.kind = b
  BY <1>1
<1> QED
  BY <1>2, <1>3

(* A runner that is found idle is dropped from those still to be looked at.*)
LEMMA LookIInv == ASSUME IInv, NEW q \in Request, LookAtOther(q) PROVE IInv'
<1> DEFINE left == request[q].left
           goesOn == [runner |-> request[q].runner, kind |-> request[q].kind, left |-> Tail(left)]
<1>1. /\ left # <<>>
      /\ UNCHANGED <<live, step, resuming, outcome, stop, asked, mine, records, saved, overlap, orphans>>
  BY DEF LookAtOther, thread, history
<1>2. request[q] \in Requests
  BY DEF IInv, TypeInv
<1>3. left \in Seq(Runner)
  BY <1>2 DEF Requests
<1>4. [request[q] EXCEPT !.left = Tail(left)] = goesOn
  BY <1>2, DropIs
<1>5. request' = [request EXCEPT ![q] = IF live[Head(left)] > 0 THEN Idle ELSE goesOn]
  <2>1. request' = [request EXCEPT ![q] = IF live[Head(left)] > 0
                                           THEN Idle ELSE [request[q] EXCEPT !.left = Tail(left)]]
    BY DEF LookAtOther
  <2> HIDE DEF goesOn
  <2> QED
    BY <1>4, <2>1, Zenon
<1>6. Tail(left) \in Seq(Runner) /\ Head(left) \in Runner
      /\ \A y \in Named(left) : y = Head(left) \/ y \in Named(Tail(left))
  <2>1. Tail(left) \in Seq(Runner) /\ Head(left) = left[1] /\ left[1] \in Runner
        /\ Len(Tail(left)) = Len(left) - 1
    BY <1>1, <1>3
  <2>2. \A i \in 1..Len(left) - 1 : Tail(left)[i] = left[i + 1]
    BY <1>1, <1>3
  <2>3. ASSUME NEW i \in 1..Len(left), i # 1
        PROVE left[i] \in Named(Tail(left))
    <3>1. i - 1 \in 1..Len(left) - 1 /\ (i - 1) + 1 = i
      BY <1>3, <2>3
    <3>2. Tail(left)[i - 1] = left[i] /\ i - 1 \in 1..Len(Tail(left))
      BY <2>1, <2>2, <3>1
    <3> QED
      BY <3>2 DEF Named
  <2> QED
    BY <2>1, <2>3 DEF Named
<1>7. Idle \in Requests /\ Idle.runner \notin Trio /\ goesOn \in Requests
  <2>1. <<>> \in Seq(Runner)
    OBVIOUS
  <2> QED
    BY <1>2, <1>6, <2>1 DEF Idle, Requests
<1>8. TypeInv'
  BY <1>1, <1>5, <1>7 DEF IInv, TypeInv
<1>9. AskInv'
  <2> SUFFICES ASSUME ~overlap PROVE AskInv'
    BY <1>1 DEF AskInv
  <2>1. /\ \A p \in Request \ {q} : request'[p] = request[p]
        /\ request'[q] = Idle \/ (request'[q] = goesOn /\ ~(live[Head(left)] > 0))
    BY <1>5 DEF IInv, TypeInv
  <2>2. request[q] # Idle
    BY <1>1 DEF Idle
  <2>3. \A p \in Request \ {q} : request'[p] = Idle
    BY <2>1, <2>2 DEF IInv, AskInv
  <2>4. ASSUME request'[q] = goesOn, ~(live[Head(left)] > 0),
               goesOn.runner \in Trio, NEW y \in Trio \ {goesOn.runner}
        PROVE y \in Named(goesOn.left) \/ live[y] = 0
    <3>1. y \in Named(left) \/ live[y] = 0
      BY <2>4 DEF IInv, AskInv
    <3>2. live[y] \in {0, 1}
      BY DEF IInv, TypeInv
    <3>3. y = Head(left) => live[y] = 0
      BY <2>4, <3>2
    <3> QED
      BY <1>6, <3>1, <3>3
  <2>5. \A p \in Request : request'[p].runner \in Trio =>
          \A y \in Trio \ {request'[p].runner} : y \in Named(request'[p].left) \/ live[y] = 0
    BY <1>7, <2>1, <2>3, <2>4
  <2>6. \A p, r \in Request : p = r \/ request'[p] = Idle \/ request'[r] = Idle
    BY <2>3
  <2>7. \A y, z \in Trio : y = z \/ live[y] = 0 \/ live[z] = 0
    BY DEF IInv, AskInv
  <2> QED
    BY <1>1, <2>5, <2>6, <2>7 DEF AskInv, Named
<1> QED
  BY <1>1, <1>8, <1>9, RequestIInv

(* The lock section of a runner tests its own thread; that the others are  *)
(* idle is still true of a request that nothing overlapped.                *)
LEMMA LaunchIInv == ASSUME IInv, NEW q \in Request, Launch(q) PROVE IInv'
<1> DEFINE x == request[q].runner
<1>1. /\ request[q] # Idle /\ request[q].left = <<>> /\ live[x] = 0
      /\ request' = [request EXCEPT ![q] = Idle]
      /\ stop' = [stop EXCEPT ![x] = FALSE]
      /\ live' = [live EXCEPT ![x] = @ + 1]
      /\ step' = [step EXCEPT ![x] = "begin"]
      /\ resuming' = [resuming EXCEPT ![x] = (request[q].kind = "resume")]
      /\ UNCHANGED <<outcome, mine, records, saved, asked, overlap, orphans>>
  BY DEF Launch, MayLaunch, StopCleared, history
<1>2. CASE x \notin Runner
  <2>1. UNCHANGED <<live, step, resuming, outcome, stop, asked, mine, records, saved, overlap, orphans>>
    BY <1>1, <1>2 DEF IInv, TypeInv
  <2>2. Idle \in Requests /\ Idle.runner \notin Trio
    <3>1. <<>> \in Seq(Runner)
      OBVIOUS
    <3> QED
      BY <3>1 DEF Idle, Requests
  <2>3. TypeInv'
    BY <1>1, <2>1, <2>2 DEF IInv, TypeInv
  <2>4. \A p \in Request : request'[p] = IF p = q THEN Idle ELSE request[p]
    BY <1>1 DEF IInv, TypeInv
  <2>5. AskInv'
    BY <2>1, <2>2, <2>4 DEF IInv, AskInv, Named
  <2> QED
    BY <2>1, <2>3, <2>5, RequestIInv
<1>3. CASE x \in Runner
  <2>1. step[x] = "idle" /\ mine[x] = 0 /\ ~asked[x]
    BY <1>1, <1>3 DEF IInv, StepInv
  <2>2. Idle \in Requests /\ Idle.runner \notin Trio
    <3>1. <<>> \in Seq(Runner)
      OBVIOUS
    <3> QED
      BY <3>1 DEF Idle, Requests
  <2>3. live' = [live EXCEPT ![x] = 1]
    BY <1>1
  <2>4. TypeInv'
    <3>1. request' \in [Request -> Requests]
      BY <1>1, <2>2 DEF IInv, TypeInv
    <3>2. resuming' \in [Runner -> BOOLEAN]
      <4>1. (request[q].kind = "resume") \in BOOLEAN
        OBVIOUS
      <4> QED
        BY <1>1, <4>1 DEF IInv, TypeInv
    <3>3. live' \in [Runner -> {0, 1}]
      BY <2>3 DEF IInv, TypeInv
    <3>4. stop' \in [Runner -> BOOLEAN]
      BY <1>1 DEF IInv, TypeInv
    <3>5. step' \in [Runner -> {"idle", "begin", "run", "settle", "cleanup"}]
      BY <1>1 DEF IInv, TypeInv
    <3> QED
      BY <1>1, <3>1, <3>2, <3>3, <3>4, <3>5 DEF IInv, TypeInv
  <2>5. StepInv'
    BY <1>1, <1>3, <2>1, <2>3 DEF IInv, TypeInv, StepInv
  <2>6. OwnInv'
    BY <1>1, <2>1 DEF IInv, TypeInv, OwnInv
  <2>7. ResumeInv'
    BY <1>1, <2>1 DEF IInv, TypeInv, ResumeInv
  <2>8. AskInv'
    <3> SUFFICES ASSUME ~overlap PROVE AskInv'
      BY <1>1 DEF AskInv
    <3>1. \A p \in Request : request'[p] = Idle
      BY <1>1 DEF IInv, TypeInv, AskInv
    <3>2. x \in Trio => \A y \in Trio \ {x} : live[y] = 0
      BY <1>1 DEF IInv, AskInv, Named
    <3>3. \A y, z \in Trio : y = z \/ live'[y] = 0 \/ live'[z] = 0
      BY <2>3, <3>2 DEF IInv, TypeInv, AskInv
    <3> QED
      BY <2>2, <3>1, <3>3 DEF AskInv
  <2> QED
    BY <2>4, <2>5, <2>6, <2>7, <2>8 DEF IInv
<1> QED
  BY <1>2, <1>3

LEMMA StopIInv == ASSUME IInv, NEW x \in Runner, Stop(x) PROVE IInv'
<1>1. /\ live[x] > 0
      /\ stop' = [stop EXCEPT ![x] = TRUE] /\ asked' = [asked EXCEPT ![x] = TRUE]
      /\ UNCHANGED <<request, live, step, resuming, outcome, mine, records, saved, overlap, orphans>>
  BY DEF Stop, thread
<1>2. TypeInv'
  BY <1>1 DEF IInv, TypeInv
<1>3. StepInv'
  BY <1>1 DEF IInv, TypeInv, StepInv
<1>4. OwnInv' /\ ResumeInv'
  BY <1>1 DEF IInv, OwnInv, ResumeInv
<1>5. AskInv'
  BY <1>1, GoToAsk DEF IInv
<1> QED
  BY <1>2, <1>3, <1>4, <1>5 DEF IInv

(* A thread that begins takes or makes the newest record, and no other     *)
(* runner of the three is at work unless requests have overlapped.         *)
LEMMA BeginIInv ==
    ASSUME IInv, NEW x \in Trio, step[x] = "begin",
           NEW t \in {"run", "cleanup"}, GoTo(x, t),
           UNCHANGED <<outcome, saved>>,
           records' \in Seq(Record), Len(records') \in {Len(records), Len(records) + 1},
           mine' = [mine EXCEPT ![x] = Len(records')],
           t = "run" /\ x \in Resumable => Len(records') # 0,
           x = "simulation" => /\ Len(records') = Len(records) + 1
                               /\ records'[Len(records')].by = "simulation",
           \A i \in 1..Len(records) : records'[i].by = records[i].by,
           \A i \in 1..Len(records') : records'[i] = records[i] \/ i = Len(records'),
           Len(records') # 0 /\ records'[Len(records')].by = "deployment" =>
              \/ records'[Len(records')].phase = "working" /\ t = "run"
              \/ records'[Len(records')].phase = "failed"
              \/ Len(records') = Len(records) /\ records' = records /\ t = "run"
    PROVE IInv'
<1>1. /\ step' = [step EXCEPT ![x] = t]
      /\ UNCHANGED <<request, live, resuming, stop, asked, overlap, orphans>>
  BY DEF GoTo, history
<1>2. /\ mine[x] = 0 /\ live[x] # 0 /\ Len(records) \in Nat /\ Len(records') \in Nat
      /\ \A y \in Runner : mine[y] \in 0..Len(records)
  BY DEF IInv, TypeInv, StepInv
<1>3. /\ mine'[x] = Len(records') /\ \A y \in Runner \ {x} : mine'[y] = mine[y]
      /\ step'[x] = t /\ \A y \in Runner \ {x} : step'[y] = step[y]
  BY <1>1 DEF IInv, TypeInv
<1>4. TypeInv'
  <2>1. mine' \in [Runner -> 0..Len(records')]
    BY <1>2 DEF IInv, TypeInv
  <2> QED
    BY <1>1, <2>1 DEF IInv, TypeInv
<1>5. StepInv'
  BY <1>1, <1>2, <1>3 DEF IInv, TypeInv, StepInv
<1>6. OwnInv'
  <2>1. mine'["prepare"] = 0
    BY <1>3 DEF IInv, OwnInv
  <2>2. mine'["simulation"] # 0 => records'[mine'["simulation"]].by = "simulation"
    BY <1>2, <1>3 DEF IInv, OwnInv
  <2>3. ASSUME NEW i \in 1..Len(records'), i \notin orphans,
               records'[i].by = "deployment", records'[i].phase = "working"
        PROVE \E y \in Resumable : mine'[y] = i /\ step'[y] \in {"run", "settle"}
    <3>1. CASE i = Len(records') /\ x \in Resumable
      <4>1. t = "run"
        BY <2>3, <3>1
      <4> QED
        BY <1>3, <3>1, <4>1
    <3>2. CASE i = Len(records') /\ x = "simulation"
      BY <2>3, <3>2
    <3>3. CASE i # Len(records')
      <4>1. i \in 1..Len(records) /\ records[i] = records'[i]
        BY <1>2, <3>3
      <4>2. PICK y \in Resumable : mine[y] = i /\ step[y] \in {"run", "settle"}
        BY <2>3, <4>1 DEF IInv, OwnInv
      <4>3. y # x
        BY <4>2
      <4> QED
        BY <1>3, <4>2, <4>3
    <3> QED
      BY <3>1, <3>2, <3>3
  <2> QED
    BY <1>1, <2>1, <2>2, <2>3 DEF OwnInv
<1>7. AskInv'
  BY <1>1, GoToAsk DEF IInv
<1>8. ResumeInv'
  <2> SUFFICES ASSUME ~overlap PROVE ResumeInv'
    BY <1>1 DEF ResumeInv
  <2>1. \A y \in Trio \ {x} : step[y] = "idle" /\ mine[y] = 0
    BY <1>2 DEF IInv, AskInv, StepInv
  <2>2. \A y \in Resumable : /\ mine'[y] # 0 => mine'[y] = Len(records')
                             /\ step'[y] # "settle"
    BY <1>3, <2>1
  <2>3. ASSUME NEW i \in 1..Len(records'), i = Len(records'), i \notin orphans,
               records'[i].by = "deployment", records'[i].phase = "stopped"
        PROVE saved # {}
    <3>1. Len(records') = Len(records) /\ records' = records
      BY <1>2, <2>3
    <3>2. step["deployment"] # "settle"
      BY <2>1
    <3> QED
      BY <2>3, <3>1, <3>2 DEF IInv, ResumeInv
  <2> QED
    BY <1>1, <2>2, <2>3 DEF ResumeInv
<1> QED
  BY <1>4, <1>5, <1>6, <1>7, <1>8 DEF IInv

LEMMA BeginDeploymentIInv == ASSUME IInv, BeginDeployment PROVE IInv'
<1> DEFINE x == "deployment"
<1>1. /\ step[x] = "begin" /\ GoTo(x, "run") /\ UNCHANGED <<outcome, saved>>
      /\ mine' = [mine EXCEPT ![x] = Len(records')]
  BY DEF BeginDeployment
<1>2. CASE resuming[x] /\ records # <<>>
  <2>1. records' = records
    BY <1>2 DEF BeginDeployment
  <2>2. records \in Seq(Record) /\ Len(records) # 0
    BY <1>2 DEF IInv, TypeInv
  <2> QED
    BY <1>1, <2>1, <2>2, BeginIInv
<1>3. CASE ~(resuming[x] /\ records # <<>>)
  <2>1. records' = Append(records, NewRecord(x))
    BY <1>3 DEF BeginDeployment
  <2>2. /\ records' \in Seq(Record) /\ Len(records') = Len(records) + 1
        /\ \A i \in 1..Len(records) : records'[i] = records[i]
        /\ records'[Len(records) + 1] = [by |-> x, phase |-> "working"]
    BY <2>1, AppendIs DEF IInv
  <2>3. Len(records) \in Nat
    BY DEF IInv, TypeInv
  <2> QED
    BY <1>1, <2>2, <2>3, BeginIInv
<1> QED
  BY <1>2, <1>3

LEMMA BeginSimulationIInv == ASSUME IInv, BeginSimulation PROVE IInv'
<1> DEFINE x == "simulation"
<1>1. /\ step[x] = "begin" /\ GoTo(x, "run") /\ UNCHANGED <<outcome, saved>>
      /\ mine' = [mine EXCEPT ![x] = Len(records')]
      /\ records' = Append(records, NewRecord(x))
  BY DEF BeginSimulation
<1>2. /\ records' \in Seq(Record) /\ Len(records') = Len(records) + 1
      /\ \A i \in 1..Len(records) : records'[i] = records[i]
      /\ records'[Len(records) + 1] = [by |-> x, phase |-> "working"]
  BY <1>1, AppendIs DEF IInv
<1>3. Len(records) \in Nat
  BY DEF IInv, TypeInv
<1> QED
  BY <1>1, <1>2, <1>3, BeginIInv

(* Giving a record a phase. *)
LEMMA RewriteIs ==
    ASSUME TypeInv, NEW n \in 1..Len(records), NEW p \in Phase,
           records' = [records EXCEPT ![n].phase = p]
    PROVE /\ records' \in Seq(Record) /\ Len(records') = Len(records)
          /\ records'[n] = [by |-> records[n].by, phase |-> p]
          /\ \A i \in 1..Len(records) : i # n => records'[i] = records[i]
          /\ \A i \in 1..Len(records) : records'[i].by = records[i].by
<1>1. records' = [records EXCEPT ![n] = [records[n] EXCEPT !.phase = p]]
  OBVIOUS
<1>2. [records[n] EXCEPT !.phase = p] = [by |-> records[n].by, phase |-> p]
  <2>1. records[n] \in Record
    BY DEF TypeInv
  <2> QED
    BY <2>1 DEF Record
<1>3. [records[n] EXCEPT !.phase = p] \in Record
  BY <1>2 DEF TypeInv, Record
<1>4. records' \in Seq(Record) /\ Len(records') = Len(records)
  BY <1>1, <1>3 DEF TypeInv
<1>5. \A i \in 1..Len(records) :
        records'[i] = IF i = n THEN [by |-> records[n].by, phase |-> p] ELSE records[i]
  BY <1>1, <1>2 DEF TypeInv
<1> QED
  BY <1>4, <1>5

LEMMA BeginRollbackIInv == ASSUME IInv, BeginRollback PROVE IInv'
<1>1. /\ step["rollback"] = "begin" /\ UNCHANGED <<outcome, saved>>
      /\ mine' = [mine EXCEPT !["rollback"] = Len(records)]
  BY DEF BeginRollback
<1>2. CASE records = <<>>
  <2>1. /\ GoTo("rollback", "cleanup") /\ records' = <<>>
        /\ Len(records) = 0 /\ records \in Seq(Record)
    BY <1>2 DEF BeginRollback, IInv, TypeInv
  <2> QED
    BY <1>1, <1>2, <2>1, BeginIInv
<1>3. CASE records # <<>>
  <2>1. Len(records) \in 1..Len(records) /\ Len(records) # 0
    BY <1>3 DEF IInv, TypeInv
  <2>2. ASSUME NEW p \in {"working", "failed"}, NEW t \in {"run", "cleanup"},
               records' = [records EXCEPT ![Len(records)].phase = p],
               GoTo("rollback", t), p = "working" => t = "run"
        PROVE IInv'
    <3>1. p \in Phase /\ TypeInv
      BY DEF Phase, IInv
    <3>2. /\ records' \in Seq(Record) /\ Len(records') = Len(records)
          /\ records'[Len(records)] = [by |-> records[Len(records)].by, phase |-> p]
          /\ \A i \in 1..Len(records) : i # Len(records) => records'[i] = records[i]
          /\ \A i \in 1..Len(records) : records'[i].by = records[i].by
      BY <2>1, <2>2, <3>1, RewriteIs
    <3>3. records'[Len(records')].phase = p
      BY <3>2
    <3> QED
      BY <1>1, <2>1, <2>2, <3>2, <3>3, BeginIInv
  <2>3. CASE resuming["rollback"] /\ "rollback" \notin saved
    <3>1. GoTo("rollback", "cleanup") /\ records' = [records EXCEPT ![Len(records)].phase = "failed"]
      BY <1>3, <2>3 DEF BeginRollback
    <3> QED
      BY <2>2, <3>1
  <2>4. CASE ~(resuming["rollback"] /\ "rollback" \notin saved)
    <3>1. GoTo("rollback", "run") /\ records' = [records EXCEPT ![Len(records)].phase = "working"]
      BY <1>3, <2>4 DEF BeginRollback
    <3> QED
      BY <2>2, <3>1
  <2> QED
    BY <2>3, <2>4
<1> QED
  BY <1>2, <1>3

(* A preparation has no record, and a deployment that cannot read its      *)
(* inventory has none yet.                                                 *)
LEMMA BeginQuietIInv == ASSUME IInv, BeginDeploymentRaises \/ BeginPrepare PROVE IInv'
<1>1. PICK x \in {"deployment", "prepare"}, t \in {"run", "cleanup"} :
        step[x] = "begin" /\ GoTo(x, t) /\ (x = "deployment" => t = "cleanup")
  BY DEF BeginDeploymentRaises, BeginPrepare
<1>2. /\ step' = [step EXCEPT ![x] = t]
      /\ UNCHANGED <<request, live, resuming, stop, asked, overlap, orphans>>
  BY <1>1 DEF GoTo, history
<1>3. UNCHANGED <<mine, outcome, records, saved>>
  BY DEF BeginDeploymentRaises, BeginPrepare
<1>4. TypeInv' /\ StepInv'
  BY <1>1, <1>2, <1>3 DEF IInv, TypeInv, StepInv
<1>5. OwnInv' /\ ResumeInv'
  BY <1>1, <1>2, <1>3 DEF IInv, TypeInv, OwnInv, ResumeInv
<1>6. AskInv'
  BY <1>2, GoToAsk DEF IInv
<1> QED
  BY <1>4, <1>5, <1>6 DEF IInv

LEMMA CleanupIInv == ASSUME IInv, NEW x \in Runner, Cleanup(x) PROVE IInv'
<1>1. /\ step[x] = "cleanup" /\ live' = [live EXCEPT ![x] = @ - 1]
      /\ step' = [step EXCEPT ![x] = "idle"] /\ mine' = [mine EXCEPT ![x] = 0]
      /\ outcome' = [outcome EXCEPT ![x] = "none"]
      /\ resuming' = [resuming EXCEPT ![x] = FALSE]
      /\ asked' = [asked EXCEPT ![x] = FALSE]
      /\ UNCHANGED <<request, stop, records, saved, overlap, orphans>>
  BY DEF Cleanup
<1>2. live[x] = 1
  BY <1>1 DEF IInv, TypeInv, StepInv
<1>3. live' = [live EXCEPT ![x] = 0]
  BY <1>1, <1>2
<1>4. TypeInv'
  <2>1. mine' \in [Runner -> 0..Len(records)]
    BY <1>1 DEF IInv, TypeInv
  <2>2. live' \in [Runner -> {0, 1}]
    BY <1>3 DEF IInv, TypeInv
  <2>3. /\ step' \in [Runner -> {"idle", "begin", "run", "settle", "cleanup"}]
        /\ outcome' \in [Runner -> {"none", "working", "failed", "complete"}]
    BY <1>1 DEF IInv, TypeInv
  <2>4. resuming' \in [Runner -> BOOLEAN] /\ asked' \in [Runner -> BOOLEAN]
    BY <1>1 DEF IInv, TypeInv
  <2> QED
    BY <1>1, <2>1, <2>2, <2>3, <2>4 DEF IInv, TypeInv
<1>5. StepInv'
  BY <1>1, <1>3 DEF IInv, TypeInv, StepInv
<1>6. OwnInv'
  BY <1>1 DEF IInv, TypeInv, OwnInv
<1>7. AskInv'
  <2>1. \A y \in Runner : live'[y] = 0 \/ live'[y] = live[y]
    BY <1>3 DEF IInv, TypeInv
  <2>2. \A q \in Request : Named(request'[q].left) = Named(request[q].left)
    BY <1>1
  <2>3. SUFFICES ASSUME ~overlap PROVE AskInv'
    BY <1>1 DEF AskInv
  <2>4. \A p, q \in Request : p = q \/ request'[p] = Idle \/ request'[q] = Idle
    BY <1>1, <2>3 DEF IInv, AskInv
  <2>5. ASSUME NEW q \in Request, request'[q].runner \in Trio,
               NEW y \in Trio \ {request'[q].runner}
        PROVE y \in Named(request'[q].left) \/ live'[y] = 0
    <3>1. y \in Named(request[q].left) \/ live[y] = 0
      BY <1>1, <2>3, <2>5 DEF IInv, AskInv
    <3> QED
      BY <2>1, <2>2, <3>1
  <2>6. \A y, z \in Trio : y = z \/ live'[y] = 0 \/ live'[z] = 0
    BY <2>1, <2>3 DEF IInv, AskInv
  <2> QED
    BY <2>4, <2>5, <2>6 DEF AskInv, Named
<1>8. ResumeInv'
  BY <1>1 DEF IInv, TypeInv, ResumeInv
<1> QED
  BY <1>4, <1>5, <1>6, <1>7, <1>8 DEF IInv

(* A restart cuts short the runs whose records are in progress. *)
LEMMA RestartIInv == ASSUME IInv, RestartServer PROVE IInv'
<1>1. /\ orphans' = orphans \cup ({mine[x] : x \in Runner} \ {0})
      /\ request' = [q \in Request |-> Idle]
      /\ live' = [x \in Runner |-> 0] /\ step' = [x \in Runner |-> "idle"]
      /\ resuming' = [x \in Runner |-> FALSE] /\ outcome' = [x \in Runner |-> "none"]
      /\ mine' = [x \in Runner |-> 0]
      /\ stop' = [x \in Runner |-> FALSE] /\ asked' = [x \in Runner |-> FALSE]
      /\ UNCHANGED <<records, saved, overlap>>
  BY DEF RestartServer
<1>2. TypeInv'
  <2>1. <<>> \in Seq(Runner)
    OBVIOUS
  <2>2. request' \in [Request -> Requests]
    BY <1>1, <2>1 DEF Idle, Requests
  <2>3. Len(records) \in Nat
    BY DEF IInv, TypeInv
  <2>4. mine' \in [Runner -> 0..Len(records)]
    BY <1>1, <2>3
  <2> QED
    BY <1>1, <2>2, <2>4 DEF IInv, TypeInv
<1>3. StepInv' /\ AskInv'
  BY <1>1 DEF StepInv, AskInv, Idle
<1>4. OwnInv'
  <2>1. ASSUME NEW i \in 1..Len(records), i \notin orphans',
               records[i].by = "deployment", records[i].phase = "working"
        PROVE FALSE
    <3>1. PICK x \in Resumable : mine[x] = i
      BY <1>1, <2>1 DEF IInv, OwnInv
    <3>2. i # 0
      OBVIOUS
    <3> QED
      BY <1>1, <2>1, <3>1, <3>2
  <2> QED
    BY <1>1, <2>1 DEF OwnInv
<1>5. ResumeInv'
  <2> SUFFICES ASSUME ~overlap PROVE ResumeInv'
    BY <1>1 DEF ResumeInv
  <2>1. ASSUME NEW i \in 1..Len(records), i = Len(records), i \notin orphans',
               records[i].by = "deployment", records[i].phase = "stopped"
        PROVE saved # {}
    <3>1. mine["deployment"] # i
      BY <1>1, <2>1
    <3> QED
      BY <1>1, <2>1, <3>1 DEF IInv, ResumeInv
  <2> QED
    BY <1>1, <2>1 DEF ResumeInv
<1> QED
  BY <1>2, <1>3, <1>4, <1>5 DEF IInv

LEMMA NextIInv == IInv /\ [Next]_vars => IInv'
<1> SUFFICES ASSUME IInv, [Next]_vars PROVE IInv'
  OBVIOUS
<1>1. CASE UNCHANGED vars
  <2>1. UNCHANGED <<request, live, step, resuming, outcome, stop, asked, mine, records, saved,
                    overlap, orphans>>
    BY <1>1 DEF vars, thread, history
  <2>2. TypeInv' /\ AskInv'
    BY <2>1, GoToAsk DEF IInv, TypeInv
  <2> QED
    BY <2>1, <2>2, RequestIInv
<1>2. CASE \E q \in Request : Handle(q)
  BY <1>2, AskIInv, LookIInv, RefuseIInv, LaunchIInv DEF Handle
<1>3. CASE \E x \in Runner : Stop(x) \/ RunnerThread(x)
  <2>1. PICK x \in Runner : Stop(x) \/ RunnerThread(x)
    BY <1>3
  <2> QED
    BY <2>1, StopIInv, BeginDeploymentIInv, BeginQuietIInv, BeginRollbackIInv, BeginSimulationIInv,
       SimulationEndsIInv, PrepareEndsIInv, ProgressIInv, StoppedIInv, FailsIInv, CompletesIInv,
       RaisesIInv, SettleIInv, CleanupIInv DEF RunnerThread
<1>4. CASE RestartServer
  BY <1>4, RestartIInv
<1> QED
  BY <1>1, <1>2, <1>3, <1>4 DEF Next

LEMMA Safety == Spec => []IInv
BY InitIInv, NextIInv, PTL DEF Spec

(* No stop request is lost to another one's clearing, and none is left     *)
(* over for the next run (deployment.py:281, rollback.py, simulation.py).  *)
THEOREM StopsAreHeard == Spec => []StopReachesItsRun
<1>1. IInv => StopReachesItsRun
  BY DEF IInv, TypeInv, StepInv, StopReachesItsRun
<1> QED
  BY <1>1, Safety, PTL

(* Requests that do not overlap keep deployment, rollback and simulation   *)
(* apart, although each looks at the others before it takes its lock.      *)
THEOREM RunsExcludeEachOther == Spec => []ExclusiveUnlessRequestsOverlap
<1>1. IInv => ExclusiveUnlessRequestsOverlap
  <2> SUFFICES ASSUME IInv, ~overlap
               PROVE Cardinality({x \in Trio : live[x] > 0}) <= 1
    BY DEF ExclusiveUnlessRequestsOverlap
  <2>1. \A x, y \in Trio : x = y \/ live[x] = 0 \/ live[y] = 0
    BY DEF IInv, AskInv
  <2>2. CASE {x \in Trio : live[x] > 0} = {}
    BY <2>2, FS_EmptySet
  <2>3. CASE {x \in Trio : live[x] > 0} # {}
    <3>1. PICK x \in Trio : live[x] > 0
      BY <2>3
    <3>2. {y \in Trio : live[y] > 0} = {x}
      BY <2>1, <3>1
    <3> QED
      BY <3>2, FS_Singleton
  <2> QED
    BY <2>2, <2>3
<1> QED
  BY <1>1, Safety, PTL

(* A record left in progress is that of a run that a restart cut short:    *)
(* every other thread settles the record it holds (deployment.py:175).     *)
THEOREM RecordsAreSettled == Spec => []RecordsSettle
<1>1. IInv => RecordsSettle
  <2> SUFFICES ASSUME IInv, Quiet, NEW i \in 1..Len(records) \ orphans,
                      records[i].by = "deployment", records[i].phase = "working"
               PROVE FALSE
    BY DEF RecordsSettle
  <2>1. PICK x \in Resumable : step[x] \in {"run", "settle"}
    BY DEF IInv, OwnInv
  <2> QED
    BY <2>1 DEF Quiet, IInv, StepInv
<1> QED
  BY <1>1, Safety, PTL

(* A deployment shown as stopped can be resumed: a file is there           *)
(* (deployment.py:175, against the removals of a completed run).           *)
THEOREM StoppedIsResumable == Spec => []StoppedCanBeResumed
<1>1. IInv => StoppedCanBeResumed
  <2> SUFFICES ASSUME IInv, NEW i \in 1..Len(records) \ orphans, Quiet, ~overlap,
                      i = Len(records), records[i] = [by |-> "deployment", phase |-> "stopped"]
               PROVE saved # {}
    BY DEF StoppedCanBeResumed
  <2>1. step["deployment"] # "settle"
    BY DEF Quiet, IInv, StepInv
  <2> QED
    BY <2>1 DEF IInv, ResumeInv
<1> QED
  BY <1>1, Safety, PTL
=============================================================================
