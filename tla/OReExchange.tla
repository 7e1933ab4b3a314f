---------------------------- MODULE OReExchange ----------------------------
(***************************************************************************)
(* The exchange between the simulator and the controller of the O-Re and   *)
(* D-Re experiments (scratch/{O,D}-Re_experiments/run.py).  They are two   *)
(* processes.  A block of shared memory is passed back and forth between   *)
(* them, but the heard packets and the selected resources are too long for *)
(* it and travel in files next to it.                                      *)
(*                                                                         *)
(* The simulator works on one UE at a time.  GetNrSlTxOpportunities sends  *)
(* what the UE sensed and does not wait for it to be read; only the        *)
(* scheduler, if it is called at all, asks for an answer and waits for it. *)
(*                                                                         *)
(* Data is abstracted to the sensing pass it stems from: packets, number   *)
(* of exclusions and time carry the number of the pass.  A file and the    *)
(* string read from it are a pass and a number of packets.                 *)
(***************************************************************************)
EXTENDS Integers

CONSTANTS
  Ues, NoUe,
  EdgeUes,        (* UEs at the end of the road, whose estimate is forced   *)
  NumPasses,      (* bound of the model: passes are numbered modulo this    *)
  MaxPackets,     (* bound of the model: packets heard in one pass          *)
  Scenarios       (* which controller runs, under which load                *)

(* mayIdle: a sensing pass may remain without a question, because the RLC   *)
(* has no data, or no slot is left after filtering.  mayBeDeaf: a UE may    *)
(* look for slots before it has sensed anything.                            *)
Scenario == [controller : {"O-Re", "D-Re"}, mayIdle : BOOLEAN, mayBeDeaf : BOOLEAN]

ASSUME ExAssumption ==
  /\ NoUe \notin Ues
  /\ NumPasses \in Nat \ {0}
  /\ MaxPackets \in Nat
  /\ Scenarios \subseteq Scenario

VARIABLES
  scenario,       (* never changes                                          *)
  simPc, ue, pass, packets, atMax, heard, simFile,    (* the simulator      *)
  turn, env,      (* the shared memory: who may use it, and its contents    *)
  files,          (* the four files of heard packets                        *)
  instructions,   (* encodedSelectionInstructions.txt                       *)
  ctlPc, ctlFile, lastImsi, lastNumExclusions,        (* the controller     *)
  lastRecievedPackets, strings

simVars == <<simPc, ue, pass, packets, atMax, heard, simFile>>
ctlVars == <<ctlPc, ctlFile, lastImsi, lastNumExclusions, lastRecievedPackets, strings>>
vars == <<scenario, simVars, turn, env, files, instructions, ctlVars>>

Passes == 0 .. NumPasses - 1

(* encodedSrcRnti.txt, encodedRc.txt, encodedSrcSlot.txt, encodedSrcSc.txt  *)
File == 1 .. 4
ScFile == 4

Content == [pass : Passes, n : 0 .. MaxPackets]
NoFile == [pass |-> 0, n |-> -1]     (* also a variable not yet assigned    *)
OnDisk == Content \cup {NoFile}

Exclusions == [pass : Passes, inTable : BOOLEAN]

Instructions == [ue : Ues \cup {NoUe}, from : SUBSET Passes]

Init ==
  /\ scenario \in Scenarios
  /\ simPc = "slot" /\ ue \in Ues /\ pass = 0 /\ packets = 0
  /\ atMax = FALSE /\ heard = FALSE /\ simFile = 1
  /\ turn = "sim"
  /\ env = [sensningDataFlag |-> 0, imsi |-> NoUe, pass |-> 0, inTable |-> FALSE]
  /\ files = [f \in File |-> NoFile]
  /\ instructions = [ue |-> NoUe, from |-> {}]
  /\ ctlPc = "acquire" /\ ctlFile = 1 /\ lastImsi = NoUe
  /\ lastNumExclusions = [u \in Ues |-> [pass |-> 0, inTable |-> FALSE]]
  /\ lastRecievedPackets = [u \in Ues |-> {}]
  /\ strings = [f \in File |-> NoFile]

-----------------------------------------------------------------------------
(* The simulator: NrUeMac::GetNrSlTxOpportunities for a UE.                 *)

(* m_sensingData is empty: slots are returned, but nothing is sent.         *)
SenseNothing(u) ==
  /\ simPc = "slot"
  /\ scenario.mayBeDeaf
  /\ ue' = u /\ heard' = FALSE /\ atMax' = FALSE
  /\ simPc' = "trigger"
  /\ UNCHANGED <<scenario, pass, packets, simFile, turn, env, files, instructions, ctlVars>>

(* The threshold loop ends with few enough resources eliminated, or with    *)
(* the maximum threshold and then with no slot at all.                      *)
Sense(u) ==
  /\ simPc = "slot"
  /\ ue' = u
  /\ pass' = (pass + 1) % NumPasses
  /\ packets' \in 0 .. MaxPackets
  /\ atMax' \in (IF scenario.mayIdle THEN BOOLEAN ELSE {FALSE})
  /\ heard' = TRUE
  /\ simFile' = 1
  /\ simPc' = "open"
  /\ UNCHANGED <<scenario, turn, env, files, instructions, ctlVars>>

(* std::ofstream creates the file or makes it empty.                        *)
OpenFile ==
  /\ simPc = "open"
  /\ files' = [files EXCEPT ![simFile] = [pass |-> pass, n |-> 0]]
  /\ simPc' = "write"
  /\ UNCHANGED <<scenario, ue, pass, packets, atMax, heard, simFile, turn, env,
                 instructions, ctlVars>>

WriteFile_LeavesOutLast ==
  /\ simPc = "write"
  /\ files' = [files EXCEPT ![simFile] =
                 IF @ = NoFile THEN NoFile ELSE [pass |-> pass, n |-> packets]]
  /\ IF simFile = ScFile - 1
     THEN simPc' = "pass" /\ UNCHANGED simFile
     ELSE simPc' = "open" /\ simFile' = simFile + 1
  /\ UNCHANGED <<scenario, ue, pass, packets, atMax, heard, turn, env, instructions, ctlVars>>

(* What is written to a file that has been removed since is lost.           *)
WriteFile ==
  /\ simPc = "write"
  /\ files' = [files EXCEPT ![simFile] =
                 IF @ = NoFile THEN NoFile ELSE [pass |-> pass, n |-> packets]]
  /\ IF simFile = ScFile
     THEN simPc' = "pass" /\ UNCHANGED simFile
     ELSE simPc' = "open" /\ simFile' = simFile + 1
  /\ UNCHANGED <<scenario, ue, pass, packets, atMax, heard, turn, env, instructions, ctlVars>>

PassSensingData_WithoutUe ==
  /\ simPc = "pass" /\ turn = "sim"
  /\ \E inTable \in BOOLEAN :
       /\ ~atMax => inTable
       /\ env' = [sensningDataFlag |-> 1, imsi |-> NoUe, pass |-> pass, inTable |-> inTable]
  /\ turn' = "controller"
  /\ simPc' = "trigger"
  /\ UNCHANGED <<scenario, ue, pass, packets, atMax, heard, simFile, files, instructions, ctlVars>>

(* OREENV::passSensingData.  The table of the controller has a row for      *)
(* every number of exclusions the loop accepts, but not for all resources.  *)
PassSensingData ==
  /\ simPc = "pass" /\ turn = "sim"
  /\ \E inTable \in BOOLEAN :
       /\ ~atMax => inTable
       /\ env' = [sensningDataFlag |-> 1, imsi |-> ue, pass |-> pass, inTable |-> inTable]
  /\ turn' = "controller"
  /\ simPc' = "trigger"
  /\ UNCHANGED <<scenario, ue, pass, packets, atMax, heard, simFile, files, instructions, ctlVars>>

(* FilterTxOpportunities leaves nothing, or the scheduler has no data.      *)
DoNotAsk ==
  /\ simPc = "trigger"
  /\ scenario.mayIdle
  /\ simPc' = "slot"
  /\ UNCHANGED <<scenario, ue, pass, packets, atMax, heard, simFile, turn, env, files,
                 instructions, ctlVars>>

GetResourceSelections_WithoutWaiting ==
  /\ simPc = "trigger"
  /\ ~atMax
  /\ env' = [env EXCEPT !.sensningDataFlag = 0]
  /\ turn' = "controller"
  /\ simPc' = "answer"
  /\ UNCHANGED <<scenario, ue, pass, packets, atMax, heard, simFile, files, instructions, ctlVars>>

(* OREENV::getResourceSelections: only the flag is set; UE and time are     *)
(* still those of the last pass.                                            *)
GetResourceSelections ==
  /\ simPc = "trigger" /\ turn = "sim"
  /\ ~atMax
  /\ env' = [env EXCEPT !.sensningDataFlag = 0]
  /\ turn' = "controller"
  /\ simPc' = "answer"
  /\ UNCHANGED <<scenario, ue, pass, packets, atMax, heard, simFile, files, instructions, ctlVars>>

(* The scheduler reads the file and allocates.                              *)
ReadInstructions ==
  /\ simPc = "answer" /\ turn = "sim"
  /\ simPc' = "slot"
  /\ UNCHANGED <<scenario, ue, pass, packets, atMax, heard, simFile, turn, env, files,
                 instructions, ctlVars>>

Simulator ==
  \/ \E u \in Ues : SenseNothing(u) \/ Sense(u)
  \/ OpenFile \/ WriteFile \/ PassSensingData
  \/ DoNotAsk \/ GetResourceSelections \/ ReadInstructions

-----------------------------------------------------------------------------
(* The controller: one turn of `with rl as data`.                           *)

LoadSensingData ==
  /\ ctlPc = "acquire" /\ turn = "controller" /\ env.sensningDataFlag = 1
  /\ lastImsi' = env.imsi
  /\ lastNumExclusions' =
       [lastNumExclusions EXCEPT ![env.imsi] = [pass |-> env.pass, inTable |-> env.inTable]]
  /\ IF scenario.controller = "O-Re"
     THEN ctlPc' = "read" /\ ctlFile' = 1 /\ UNCHANGED turn
     ELSE turn' = "sim" /\ UNCHANGED <<ctlPc, ctlFile>>
  /\ UNCHANGED <<scenario, simVars, env, files, instructions, lastRecievedPackets, strings>>

AfterFile == IF ctlFile = ScFile
             THEN ctlPc' = "decode" /\ UNCHANGED ctlFile
             ELSE ctlPc' = "read" /\ ctlFile' = ctlFile + 1

(* A file that does not exist leaves the string of the last time.           *)
ReadFile ==
  /\ ctlPc = "read"
  /\ IF files[ctlFile] = NoFile
     THEN AfterFile /\ UNCHANGED strings
     ELSE /\ strings' = [strings EXCEPT ![ctlFile] = files[ctlFile]]
          /\ ctlPc' = "remove" /\ UNCHANGED ctlFile
  /\ UNCHANGED <<scenario, simVars, turn, env, files, instructions, lastImsi,
                 lastNumExclusions, lastRecievedPackets>>

RemoveFile ==
  /\ ctlPc = "remove"
  /\ files' = [files EXCEPT ![ctlFile] = NoFile]
  /\ AfterFile
  /\ UNCHANGED <<scenario, simVars, turn, env, instructions, lastImsi, lastNumExclusions,
                 lastRecievedPackets, strings>>

(* An exception ends the loop: 'Something wrong'.                           *)
Fail == ctlPc' = "failed"

(* The string of subchannels says how many packets there are.  An           *)
(* unassigned string, or a shorter one, raises an exception.                *)
Decodable ==
  \/ strings[ScFile].n = 0
  \/ \A f \in File : strings[ScFile].n \in 1 .. strings[f].n

DecodePackets_WithoutClear ==
  /\ ctlPc = "decode"
  /\ IF Decodable
     THEN /\ lastRecievedPackets' = [lastRecievedPackets EXCEPT ![lastImsi] = @ \cup
               IF strings[ScFile].n = 0 THEN {} ELSE {strings[f].pass : f \in File}]
          /\ strings' = [f \in File |-> [strings[f] EXCEPT !.n = @ - strings[ScFile].n]]
          /\ turn' = "sim"
          /\ ctlPc' = "acquire"
     ELSE Fail /\ UNCHANGED <<lastRecievedPackets, strings, turn>>
  /\ UNCHANGED <<scenario, simVars, env, files, instructions, ctlFile, lastImsi, lastNumExclusions>>

DecodePackets ==
  /\ ctlPc = "decode"
  /\ IF Decodable
     THEN /\ lastRecievedPackets' = [lastRecievedPackets EXCEPT ![lastImsi] =
               IF strings[ScFile].n = 0 THEN {} ELSE {strings[f].pass : f \in File}]
          /\ strings' = [f \in File |-> [strings[f] EXCEPT !.n = @ - strings[ScFile].n]]
          /\ turn' = "sim"
          /\ ctlPc' = "acquire"
     ELSE Fail /\ UNCHANGED <<lastRecievedPackets, strings, turn>>
  /\ UNCHANGED <<scenario, simVars, env, files, instructions, ctlFile, lastImsi, lastNumExclusions>>

(* The estimate of a UE that is not at the edge is looked up in the table.  *)
OutsideTable ==
  /\ lastImsi \in Ues \ EdgeUes
  /\ ~lastNumExclusions[lastImsi].inTable

(* The answer depends on the exclusions, and with O-Re on packets and time. *)
SelectFor(u) ==
  [ue |-> u, from |-> {lastNumExclusions[u].pass} \cup
     (IF scenario.controller = "O-Re" THEN {env.pass} \cup lastRecievedPackets[u] ELSE {})]

SelectResources_KeepsLock ==
  /\ ctlPc = "acquire" /\ turn = "controller" /\ env.sensningDataFlag = 0
  /\ IF OutsideTable
     THEN Fail /\ UNCHANGED <<instructions, turn>>
     ELSE /\ IF lastImsi = NoUe
             THEN instructions' = [ue |-> NoUe, from |-> {}] /\ UNCHANGED turn
             ELSE instructions' = SelectFor(lastImsi) /\ turn' = "sim"
          /\ UNCHANGED ctlPc
  /\ UNCHANGED <<scenario, simVars, env, files, ctlFile, lastImsi, lastNumExclusions,
                 lastRecievedPackets, strings>>

SelectResources ==
  /\ ctlPc = "acquire" /\ turn = "controller" /\ env.sensningDataFlag = 0
  /\ IF OutsideTable
     THEN Fail /\ UNCHANGED <<instructions, turn>>
     ELSE /\ instructions' = IF lastImsi = NoUe THEN [ue |-> NoUe, from |-> {}]
                                                 ELSE SelectFor(lastImsi)
          /\ turn' = "sim"
          /\ UNCHANGED ctlPc
  /\ UNCHANGED <<scenario, simVars, env, files, ctlFile, lastImsi, lastNumExclusions,
                 lastRecievedPackets, strings>>

Controller ==
  LoadSensingData \/ ReadFile \/ RemoveFile \/ DecodePackets \/ SelectResources

Next == Simulator \/ Controller

Spec == Init /\ [][Next]_vars

FairSpec == Spec /\ WF_vars(Simulator) /\ WF_vars(Controller)

-----------------------------------------------------------------------------
(* The variables keep their types.                                          *)
ExTypeOK ==
  /\ scenario \in Scenarios
  /\ simPc \in {"slot", "open", "write", "pass", "trigger", "answer"}
  /\ ue \in Ues /\ pass \in Passes /\ packets \in 0 .. MaxPackets
  /\ atMax \in BOOLEAN /\ heard \in BOOLEAN /\ simFile \in File
  /\ turn \in {"sim", "controller"}
  /\ env \in [sensningDataFlag : {0, 1}, imsi : Ues \cup {NoUe},
              pass : Passes, inTable : BOOLEAN]
  /\ env.sensningDataFlag = 1 => env.imsi \in Ues
  /\ files \in [File -> OnDisk]
  /\ instructions \in Instructions
  /\ ctlPc \in {"acquire", "read", "remove", "decode", "failed"}
  /\ ctlFile \in File /\ lastImsi \in Ues \cup {NoUe}
  /\ ctlPc \in {"read", "remove", "decode"} => lastImsi \in Ues
  /\ lastNumExclusions \in [Ues -> Exclusions]
  /\ lastRecievedPackets \in [Ues -> SUBSET Passes]
  /\ strings \in [File -> OnDisk]

(* O-Re/run.py:264-266: the end character of the files keeps the controller *)
(* from reading one that is still being written, which would result in      *)
(* errors.  So the controller, on whose answers the simulator waits, never  *)
(* stops with an exception.                                                 *)
ControllerNeverFails == ctlPc # "failed"

(* When the scheduler is about to read the instructions for a UE that has   *)
(* just sent what it sensed, they were made for this UE, and all they are   *)
(* derived from - exclusions, the four files, the time - is of that pass.   *)
AboutToRead == simPc = "answer" /\ turn = "sim"

AnswerIsOwn ==
  AboutToRead /\ heard => instructions = [ue |-> ue, from |-> {pass}]

(* No packet is lost on the way: after the files were loaded the controller *)
(* has packets of the UE exactly if some were written.                      *)
PacketsArrive ==
  AboutToRead /\ heard /\ scenario.controller = "O-Re" =>
    (lastRecievedPackets[ue] = {} <=> packets = 0)

(* The refinement mapping: what the simulator sees of the two processes, of *)
(* the shared memory and of the files.                                      *)
CallStage ==
  IF simPc = "slot" THEN "none"
  ELSE IF simPc # "answer" THEN "sensed"
  ELSE IF AboutToRead THEN "answered" ELSE "asked"

SensedByUe == [ue |-> ue, heard |-> heard, pass |-> pass, some |-> packets # 0]

(* The controller of D-Re does not use the packets.                         *)
PacketsKnown ==
  IF scenario.controller = "O-Re" THEN lastRecievedPackets[ue] # {} ELSE packets # 0

AnswerInFile ==
  IF AboutToRead
  THEN [ue |-> instructions.ue, from |-> instructions.from, some |-> PacketsKnown]
  ELSE [ue |-> NoUe, from |-> {}, some |-> FALSE]

Call == INSTANCE ControllerCall WITH
  call <- CallStage, sensed <- SensedByUe, answer <- AnswerInFile

(* ORE-env.cc:153-181, nr-ue-mac.cc:1519 and                                *)
(* nr-sl-ue-mac-scheduler-simple.cc:83-108: although what was sensed is     *)
(* sent without waiting, in pieces and in files, the scheduler's question   *)
(* is a call of a function of what its UE has just sensed.                  *)
AskIsACall == Call!Spec

(* A question is answered and the simulation goes on.                       *)
AskIsAnswered == simPc = "answer" ~> simPc = "slot"
=============================================================================
