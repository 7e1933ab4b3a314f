------------------------- MODULE OReExchangeProofs -------------------------
(* The invariant of OReExchange, for any UEs, packets and passes.           *)
EXTENDS OReExchangeInv, TLAPS

LEMMA SenseNothingKeeps ==
  ASSUME OrderKept, ExInv, NEW u \in Ues, SenseNothing(u)
  PROVE  ExInv'
<1> USE ExAssumption DEF ExInv, simVars, ctlVars
<1>1. ExTypeOK'
  BY DEF SenseNothing, ExTypeOK
<1>2. Alternation'
  BY DEF SenseNothing, Alternation, Loading
<1>3. RowsExist'
  BY DEF SenseNothing, RowsExist
<1>4. Sent'
  BY DEF SenseNothing, Sent, Alternation, ExTypeOK, OrderKept
<1>5. Loaded'
  BY DEF SenseNothing, Loaded, Received, Loading
<1>6. FilesFollow'
  BY DEF SenseNothing, FilesFollow, Received, Unread, Loading, Written, Alternation, ExTypeOK, OrderKept
<1>7. LoadsAll'
  BY DEF SenseNothing, LoadsAll
<1>8. AnswerIsOwn'
  BY DEF SenseNothing, AnswerIsOwn, AboutToRead
<1> QED BY <1>1, <1>2, <1>3, <1>4, <1>5, <1>6, <1>7, <1>8

LEMMA SenseKeeps ==
  ASSUME OrderKept, ExInv, NEW u \in Ues, Sense(u)
  PROVE  ExInv'
<1> USE ExAssumption DEF ExInv, simVars, ctlVars
<1>1. ExTypeOK'
  <2>1. pass' \in Passes
    BY SMT DEF Sense, ExTypeOK, Passes
  <2>2. atMax' \in BOOLEAN
    BY DEF Sense
  <2>3. ue' \in Ues /\ packets' \in 0 .. MaxPackets /\ heard' \in BOOLEAN /\ simFile' \in File
    BY DEF Sense, File
  <2>4. UNCHANGED <<scenario, turn, env, files, instructions, ctlPc, ctlFile, lastImsi,
                    lastNumExclusions, lastRecievedPackets, strings>>
    BY DEF Sense
  <2>5. simPc' = "open"
    BY DEF Sense
  <2> QED BY <2>1, <2>2, <2>3, <2>4, <2>5
          DEF ExTypeOK, OnDisk, Content, Exclusions, Instructions
<1>2. Alternation'
  BY DEF Sense, Alternation, Loading
<1>3. RowsExist'
  BY DEF Sense, RowsExist
<1>4. Sent'
  BY DEF Sense, Sent
<1>5. Loaded'
  BY DEF Sense, Loaded, Received, Loading
<1>6. FilesFollow'
  BY DEF Sense, FilesFollow, Received, Unread, Loading, Written, Alternation, File, ScFile
<1>7. LoadsAll'
  BY DEF Sense, LoadsAll
<1>8. AnswerIsOwn'
  BY DEF Sense, AnswerIsOwn, AboutToRead
<1> QED BY <1>1, <1>2, <1>3, <1>4, <1>5, <1>6, <1>7, <1>8

LEMMA OpenFileKeeps ==
  ASSUME OrderKept, ExInv, OpenFile
  PROVE  ExInv'
<1> USE ExAssumption DEF ExInv, simVars, ctlVars
<1>1. ExTypeOK'
  BY DEF OpenFile, ExTypeOK, OnDisk, Content
<1>2. Alternation'
  BY DEF OpenFile, Alternation, Loading
<1>3. RowsExist'
  BY DEF OpenFile, RowsExist
<1>4. Sent'
  BY DEF OpenFile, Sent
<1>5. Loaded'
  BY DEF OpenFile, Loaded, Received, Loading
<1>6. FilesFollow'
  BY DEF OpenFile, FilesFollow, Received, Unread, Loading, Written, NoFile, Alternation, ExTypeOK, File
<1>7. LoadsAll'
  BY DEF OpenFile, LoadsAll
<1>8. AnswerIsOwn'
  BY DEF OpenFile, AnswerIsOwn, AboutToRead
<1> QED BY <1>1, <1>2, <1>3, <1>4, <1>5, <1>6, <1>7, <1>8

LEMMA WriteFileKeeps ==
  ASSUME OrderKept, ExInv, WriteFile
  PROVE  ExInv'
<1> USE ExAssumption DEF ExInv, simVars, ctlVars
<1>1. ExTypeOK'
  BY DEF WriteFile, ExTypeOK, OnDisk, Content, File, ScFile
<1>2. Alternation'
  BY DEF WriteFile, Alternation, Loading
<1>3. RowsExist'
  BY DEF WriteFile, RowsExist
<1>4. Sent'
  BY DEF WriteFile, Sent
<1>5. Loaded'
  BY DEF WriteFile, Loaded, Received, Loading
<1>6. FilesFollow'
  BY DEF WriteFile, FilesFollow, Received, Unread, Loading, Written, ExTypeOK, File, ScFile
<1>7. LoadsAll'
  BY DEF WriteFile, LoadsAll
<1>8. AnswerIsOwn'
  BY DEF WriteFile, AnswerIsOwn, AboutToRead
<1> QED BY <1>1, <1>2, <1>3, <1>4, <1>5, <1>6, <1>7, <1>8

LEMMA PassSensingDataKeeps ==
  ASSUME OrderKept, ExInv, PassSensingData
  PROVE  ExInv'
<1> USE ExAssumption DEF ExInv, simVars, ctlVars
<1>0. PICK inTable \in BOOLEAN :
        /\ ~atMax => inTable
        /\ env' = [sensningDataFlag |-> 1, imsi |-> ue, pass |-> pass, inTable |-> inTable]
  BY DEF PassSensingData
<1>1. ExTypeOK'
  BY DEF PassSensingData, ExTypeOK
<1>2. Alternation'
  <2>1. env'.sensningDataFlag = 1
    BY <1>0
  <2>2. /\ turn' = "controller" /\ simPc' = "trigger"
        /\ UNCHANGED <<scenario, heard, ctlPc>>
    BY DEF PassSensingData
  <2>3. ctlPc = "acquire" /\ (~scenario.mayBeDeaf => heard)
    BY DEF PassSensingData, Alternation
  <2> QED BY <2>1, <2>2, <2>3 DEF Alternation, Loading
<1>3. RowsExist'
  BY DEF PassSensingData, RowsExist
<1>4. Sent'
  <2>1. env'.imsi = ue /\ env'.pass = pass /\ (~atMax => env'.inTable)
    BY <1>0
  <2>2. UNCHANGED <<heard, ue, pass, atMax>>
    BY DEF PassSensingData
  <2>3. heard
    BY DEF PassSensingData, Alternation, ExTypeOK
  <2> QED BY <2>1, <2>2, <2>3 DEF Sent
<1>5. Loaded'
  BY DEF PassSensingData, Loaded, Received, Loading, Alternation
<1>6. FilesFollow'
  BY DEF PassSensingData, FilesFollow, Received, Unread, Loading, Written, Alternation
<1>7. LoadsAll'
  BY DEF PassSensingData, LoadsAll
<1>8. AnswerIsOwn'
  BY DEF PassSensingData, AnswerIsOwn, AboutToRead
<1> QED BY <1>1, <1>2, <1>3, <1>4, <1>5, <1>6, <1>7, <1>8

LEMMA DoNotAskKeeps ==
  ASSUME OrderKept, ExInv, DoNotAsk
  PROVE  ExInv'
<1> USE ExAssumption DEF ExInv, simVars, ctlVars
<1>1. ExTypeOK'
  BY DEF DoNotAsk, ExTypeOK
<1>2. Alternation'
  BY DEF DoNotAsk, Alternation, Loading, ExTypeOK, OrderKept
<1>3. RowsExist'
  BY DEF DoNotAsk, RowsExist
<1>4. Sent'
  BY DEF DoNotAsk, Sent
<1>5. Loaded'
  BY DEF DoNotAsk, Loaded, Received, Loading
<1>6. FilesFollow'
  BY DEF DoNotAsk, FilesFollow, ExTypeOK, OrderKept
<1>7. LoadsAll'
  BY DEF DoNotAsk, LoadsAll
<1>8. AnswerIsOwn'
  BY DEF DoNotAsk, AnswerIsOwn, AboutToRead
<1> QED BY <1>1, <1>2, <1>3, <1>4, <1>5, <1>6, <1>7, <1>8

LEMMA GetResourceSelectionsKeeps ==
  ASSUME OrderKept, ExInv, GetResourceSelections
  PROVE  ExInv'
<1> USE ExAssumption DEF ExInv, simVars, ctlVars
<1>1. ExTypeOK'
  BY DEF GetResourceSelections, ExTypeOK
<1>2. Alternation'
  BY DEF GetResourceSelections, Alternation, Loading
<1>3. RowsExist'
  BY DEF GetResourceSelections, RowsExist
<1>4. Sent'
  BY DEF GetResourceSelections, Sent
<1>5. Loaded'
  BY DEF GetResourceSelections, Loaded, Received, Loading
<1>6. FilesFollow'
  BY DEF GetResourceSelections, FilesFollow, Received, Unread, Loading, Written, Alternation
<1>7. LoadsAll'
  BY DEF GetResourceSelections, LoadsAll
<1>8. AnswerIsOwn'
  BY DEF GetResourceSelections, AnswerIsOwn, AboutToRead
<1> QED BY <1>1, <1>2, <1>3, <1>4, <1>5, <1>6, <1>7, <1>8

LEMMA ReadInstructionsKeeps ==
  ASSUME OrderKept, ExInv, ReadInstructions
  PROVE  ExInv'
<1> USE ExAssumption DEF ExInv, simVars, ctlVars
<1>1. ExTypeOK'
  BY DEF ReadInstructions, ExTypeOK
<1>2. Alternation'
  BY DEF ReadInstructions, Alternation, Loading
<1>3. RowsExist'
  BY DEF ReadInstructions, RowsExist
<1>4. Sent'
  BY DEF ReadInstructions, Sent
<1>5. Loaded'
  BY DEF ReadInstructions, Loaded, Received, Loading
<1>6. FilesFollow'
  BY DEF ReadInstructions, FilesFollow, Received, Unread, Loading, Written
<1>7. LoadsAll'
  BY DEF ReadInstructions, LoadsAll
<1>8. AnswerIsOwn'
  BY DEF ReadInstructions, AnswerIsOwn, AboutToRead
<1> QED BY <1>1, <1>2, <1>3, <1>4, <1>5, <1>6, <1>7, <1>8

LEMMA LoadSensingDataKeeps ==
  ASSUME OrderKept, ExInv, LoadSensingData
  PROVE  ExInv'
<1> USE ExAssumption DEF ExInv, simVars, ctlVars
<1>1. ExTypeOK'
  BY DEF LoadSensingData, ExTypeOK, Exclusions, File
<1>2. Alternation'
  BY DEF LoadSensingData, Alternation, Loading, ExTypeOK, OrderKept
<1>3. RowsExist'
  BY DEF LoadSensingData, AfterFile, RowsExist, ExTypeOK
<1>4. Sent'
  BY DEF LoadSensingData, AfterFile, Sent
<1>5. Loaded'
  BY DEF LoadSensingData, AfterFile, Loaded, Received, Loading, ExTypeOK, Alternation, Sent
<1>6. FilesFollow'
  BY DEF LoadSensingData, FilesFollow, Received, Unread, Loading, Written, Alternation, ExTypeOK, OrderKept, File
<1>7. LoadsAll'
  BY DEF LoadSensingData, AfterFile, LoadsAll
<1>8. AnswerIsOwn'
  BY DEF LoadSensingData, AfterFile, AnswerIsOwn, AboutToRead, Alternation, Loading
<1> QED BY <1>1, <1>2, <1>3, <1>4, <1>5, <1>6, <1>7, <1>8

LEMMA ReadFileKeeps ==
  ASSUME OrderKept, ExInv, ReadFile
  PROVE  ExInv'
<1> USE ExAssumption DEF ExInv, simVars, ctlVars
<1>1. ExTypeOK'
  BY DEF ReadFile, AfterFile, ExTypeOK, File, ScFile
<1>2. Alternation'
  BY DEF ReadFile, AfterFile, Alternation, Loading
<1>3. RowsExist'
  BY DEF ReadFile, AfterFile, RowsExist
<1>4. Sent'
  BY DEF ReadFile, AfterFile, Sent
<1>5. Loaded'
  BY DEF ReadFile, AfterFile, Loaded, Received, Loading
<1>6. FilesFollow'
  BY DEF ReadFile, AfterFile, FilesFollow, Received, Unread, Loading, Written, NoFile, Alternation, ExTypeOK, File, ScFile
<1>7. LoadsAll'
  BY DEF ReadFile, AfterFile, LoadsAll
<1>8. AnswerIsOwn'
  BY DEF ReadFile, AfterFile, AnswerIsOwn, AboutToRead
<1> QED BY <1>1, <1>2, <1>3, <1>4, <1>5, <1>6, <1>7, <1>8

LEMMA RemoveFileKeeps ==
  ASSUME OrderKept, ExInv, RemoveFile
  PROVE  ExInv'
<1> USE ExAssumption DEF ExInv, simVars, ctlVars
<1>1. ExTypeOK'
  BY DEF RemoveFile, AfterFile, ExTypeOK, OnDisk, File, ScFile
<1>2. Alternation'
  BY DEF RemoveFile, AfterFile, Alternation, Loading
<1>3. RowsExist'
  BY DEF RemoveFile, AfterFile, RowsExist
<1>4. Sent'
  BY DEF RemoveFile, AfterFile, Sent
<1>5. Loaded'
  BY DEF RemoveFile, AfterFile, Loaded, Received, Loading
<1>6. FilesFollow'
  BY DEF RemoveFile, AfterFile, FilesFollow, Received, Unread, Loading, Written, Alternation, ExTypeOK, File, ScFile
<1>7. LoadsAll'
  BY DEF RemoveFile, AfterFile, LoadsAll
<1>8. AnswerIsOwn'
  BY DEF RemoveFile, AfterFile, AnswerIsOwn, AboutToRead
<1> QED BY <1>1, <1>2, <1>3, <1>4, <1>5, <1>6, <1>7, <1>8

LEMMA DecodePacketsKeeps ==
  ASSUME OrderKept, ExInv, DecodePackets
  PROVE  ExInv'
<1> USE ExAssumption DEF ExInv, simVars, ctlVars
<1>1. ExTypeOK'
  BY DEF DecodePackets, Fail, ExTypeOK, OnDisk, Content, File, ScFile, Decodable, NoFile
<1>2. Alternation'
  BY DEF DecodePackets, Decodable, Fail, Alternation, LoadsAll, FilesFollow, Loading, Written, File, ScFile, ExTypeOK
<1>3. RowsExist'
  BY DEF DecodePackets, Decodable, Fail, RowsExist
<1>4. Sent'
  BY DEF DecodePackets, Decodable, Fail, Sent
<1>5. Loaded'
  <2>1. scenario.controller = "O-Re" /\ Loading /\ ctlFile = ScFile
    BY DEF DecodePackets, Loading, Alternation, LoadsAll
  <2>2. \A f \in File : strings[f] = Written
    BY <2>1 DEF DecodePackets, FilesFollow, File, ScFile
  <2>3. {strings[f].pass : f \in File} = {pass} /\ strings[ScFile].n = packets
    BY <2>2 DEF Written, File, ScFile
  <2>4. Decodable
    BY <2>2, <2>3 DEF Decodable, Written, ExTypeOK
  <2>5. lastRecievedPackets'[lastImsi] = IF packets = 0 THEN {} ELSE {pass}
    BY <2>3, <2>4 DEF DecodePackets, ExTypeOK
  <2> QED BY <2>1, <2>4, <2>5
        DEF DecodePackets, Loaded, Loading, Received, ExTypeOK, Alternation
<1>6. FilesFollow'
  BY DEF DecodePackets, Decodable, Fail, FilesFollow, Received, Unread, Loading, Written
<1>7. LoadsAll'
  BY DEF DecodePackets, Decodable, Fail, LoadsAll
<1>8. AnswerIsOwn'
  BY DEF DecodePackets, Decodable, Fail, AnswerIsOwn, AboutToRead, Alternation, Loading
<1> QED BY <1>1, <1>2, <1>3, <1>4, <1>5, <1>6, <1>7, <1>8

LEMMA SelectResourcesKeeps ==
  ASSUME OrderKept, ExInv, SelectResources
  PROVE  ExInv'
<1> USE ExAssumption DEF ExInv, simVars, ctlVars
<1>1. ExTypeOK'
  BY DEF SelectResources, SelectFor, Fail, ExTypeOK, Instructions, Exclusions
<1>2. Alternation'
  BY DEF SelectResources, OutsideTable, Fail, Alternation, Loading, RowsExist, Loaded, ExTypeOK, OrderKept
<1>3. RowsExist'
  BY DEF SelectResources, OutsideTable, SelectFor, Fail, RowsExist
<1>4. Sent'
  BY DEF SelectResources, OutsideTable, SelectFor, Fail, Sent
<1>5. Loaded'
  BY DEF SelectResources, OutsideTable, SelectFor, Fail, Loaded, Received, Loading, Alternation
<1>6. FilesFollow'
  BY DEF SelectResources, OutsideTable, SelectFor, Fail, FilesFollow, Received, Unread, Loading, Written, Alternation
<1>7. LoadsAll'
  BY DEF SelectResources, OutsideTable, SelectFor, Fail, LoadsAll
<1>8. AnswerIsOwn'
  BY DEF SelectResources, SelectFor, AnswerIsOwn, AboutToRead, Alternation, Loaded, Loading, ExTypeOK
<1> QED BY <1>1, <1>2, <1>3, <1>4, <1>5, <1>6, <1>7, <1>8

-----------------------------------------------------------------------------
LEMMA StutterKeeps ==
  ASSUME ExInv, UNCHANGED vars
  PROVE  ExInv'
<1> USE DEF vars, simVars, ctlVars
<1>1. ExTypeOK'
  BY DEF ExInv, ExTypeOK
<1>2. Alternation' /\ RowsExist' /\ Sent' /\ LoadsAll'
  BY DEF ExInv, Alternation, RowsExist, Sent, LoadsAll, Loading
<1>3. Loaded' /\ AnswerIsOwn'
  BY DEF ExInv, Loaded, AnswerIsOwn, AboutToRead, Received, Loading
<1>4. FilesFollow'
  BY DEF ExInv, FilesFollow, Received, Unread, Loading, Written
<1> QED BY <1>1, <1>2, <1>3, <1>4 DEF ExInv

LEMMA NextKeeps ==
  ASSUME OrderKept, ExInv, [Next]_vars
  PROVE  ExInv'
<1>1. CASE Simulator
  BY <1>1, SenseNothingKeeps, SenseKeeps, OpenFileKeeps, WriteFileKeeps, PassSensingDataKeeps,
     DoNotAskKeeps, GetResourceSelectionsKeeps, ReadInstructionsKeeps DEF Simulator
<1>2. CASE Controller
  BY <1>2, LoadSensingDataKeeps, ReadFileKeeps, RemoveFileKeeps, DecodePacketsKeeps,
     SelectResourcesKeeps DEF Controller
<1>3. CASE UNCHANGED vars
  BY <1>3, StutterKeeps
<1> QED BY <1>1, <1>2, <1>3 DEF Next

LEMMA InitEstablishes ==
  ASSUME OrderKept, Init
  PROVE  ExInv
<1> USE ExAssumption DEF Init
<1>1. ExTypeOK
  <2>1. 0 \in Passes
    BY DEF Passes
  <2>2. NoFile \in OnDisk
    BY DEF OnDisk
  <2>3. [pass |-> 0, inTable |-> FALSE] \in Exclusions
    BY <2>1 DEF Exclusions
  <2>4. instructions \in Instructions
    BY DEF Instructions
  <2>5. env \in [sensningDataFlag : {0, 1}, imsi : Ues \cup {NoUe},
                 pass : Passes, inTable : BOOLEAN]
        /\ env.sensningDataFlag = 0
    BY <2>1
  <2>6. files \in [File -> OnDisk] /\ strings \in [File -> OnDisk]
    BY <2>2
  <2>7. /\ lastNumExclusions \in [Ues -> Exclusions]
        /\ lastRecievedPackets \in [Ues -> SUBSET Passes]
    BY <2>3
  <2>8. simFile \in File /\ ctlFile \in File /\ pass \in Passes /\ packets \in 0 .. MaxPackets
    BY <2>1 DEF File
  <2>9. /\ scenario \in Scenarios /\ simPc = "slot" /\ ue \in Ues
        /\ atMax \in BOOLEAN /\ heard \in BOOLEAN
        /\ turn = "sim" /\ ctlPc = "acquire" /\ lastImsi \in Ues \cup {NoUe}
    OBVIOUS
  <2> HIDE DEF Init
  <2> QED BY <2>4, <2>5, <2>6, <2>7, <2>8, <2>9 DEF ExTypeOK
<1>2. Alternation /\ RowsExist /\ Sent /\ LoadsAll
  BY DEF Alternation, RowsExist, Sent, LoadsAll, Loading
<1>3. Loaded /\ AnswerIsOwn
  BY DEF Loaded, AnswerIsOwn, AboutToRead, Received
<1>4. FilesFollow
  BY DEF FilesFollow, Received, Unread, Loading
<1> QED BY <1>1, <1>2, <1>3, <1>4 DEF ExInv

(* As long as with O-Re every sensing pass is followed by a question, and   *)
(* with D-Re a UE that has sensed nothing never asks after one that did not *)
(* (nr-ue-mac.cc:1266-1531, O-Re/run.py:245-325), the two processes keep in *)
(* step: the invariant holds in every reachable state.                      *)
THEOREM ExInvariant ==
  ASSUME OrderKept
  PROVE  Spec => []ExInv
<1>1. Init => ExInv
  BY InitEstablishes
<1>2. ExInv /\ [Next]_vars => ExInv'
  BY NextKeeps
<1> QED BY <1>1, <1>2, PTL DEF Spec

(* Under the same assumption the controller never stops with an exception   *)
(* (O-Re/run.py:257-342): no file is read half written, no variable is used *)
(* before its file was read, and the table has a row for every estimate.    *)
THEOREM NeverFails ==
  ASSUME OrderKept
  PROVE  Spec => []ControllerNeverFails
<1>1. ExInv => ControllerNeverFails
  BY DEF ExInv, Alternation, ControllerNeverFails
<1> QED BY <1>1, ExInvariant, PTL

(* Under the same assumption the instructions a UE reads were made for this *)
(* UE from what it has just sensed (nr-sl-ue-mac-scheduler-simple.cc:108).  *)
THEOREM AnswersAreOwn ==
  ASSUME OrderKept
  PROVE  Spec => []AnswerIsOwn
<1>1. ExInv => AnswerIsOwn
  BY DEF ExInv
<1> QED BY <1>1, ExInvariant, PTL

(* Under the same assumption all the packets that were written are loaded   *)
(* (nr-ue-mac.cc:1501-1515, O-Re/run.py:271-317).                           *)
THEOREM PacketsDoArrive ==
  ASSUME OrderKept
  PROVE  Spec => []PacketsArrive
<1>1. ExInv => PacketsArrive
  BY DEF ExInv, Alternation, Loaded, Loading, PacketsArrive, AboutToRead
<1> QED BY <1>1, ExInvariant, PTL

(* Under the same assumption the variables of both processes keep their     *)
(* types; in particular the controller never loads packets for no UE.       *)
THEOREM ExTypeCorrect ==
  ASSUME OrderKept
  PROVE  Spec => []ExTypeOK
<1>1. ExInv => ExTypeOK
  BY DEF ExInv
<1> QED BY <1>1, ExInvariant, PTL

-----------------------------------------------------------------------------
(* The exchange implements ControllerCall, step by step.                    *)

LEMMA InitCalls ==
  ASSUME OrderKept, Init
  PROVE  Call!Init
<1>1. ExTypeOK
  BY InitEstablishes DEF ExInv
<1>2. SensedByUe \in Call!Sensed
  BY <1>1 DEF ExTypeOK, SensedByUe, Call!Sensed
<1>3. simPc = "slot" /\ ~AboutToRead
  BY DEF Init, AboutToRead
<1> QED BY <1>2, <1>3 DEF Call!Init, CallStage, AnswerInFile, Call!NoAnswer

(* No answer is there in the steps that lead to the question.               *)
LEMMA NoAnswerYet ==
  ASSUME ~AboutToRead, ~AboutToRead'
  PROVE  UNCHANGED AnswerInFile
BY DEF AnswerInFile

LEMMA SenseCalls ==
  ASSUME ExInv, ExInv', NEW u \in Ues, SenseNothing(u) \/ Sense(u)
  PROVE  Call!Sense
<1>1. simPc = "slot" /\ simPc' \in {"open", "trigger"}
  BY DEF SenseNothing, Sense
<1>2. SensedByUe' \in Call!Sensed
  <2>1. ExTypeOK'
    BY DEF ExInv
  <2>2. ue' \in Ues /\ heard' \in BOOLEAN /\ pass' \in Passes /\ (packets' # 0) \in BOOLEAN
    BY <2>1 DEF ExTypeOK
  <2>3. [ue |-> ue', heard |-> heard', pass |-> pass', some |-> packets' # 0] \in Call!Sensed
    BY <2>2 DEF Call!Sensed
  <2> QED BY <2>3 DEF SensedByUe
<1>3. ~AboutToRead /\ ~AboutToRead'
  BY <1>1 DEF AboutToRead
<1>4. UNCHANGED AnswerInFile
  BY <1>3, NoAnswerYet
<1>5. CallStage = "none" /\ CallStage' = "sensed"
  BY <1>1 DEF CallStage
<1> QED BY <1>2, <1>4, <1>5 DEF Call!Sense

(* What the simulator writes and sends before the question.                 *)
LEMMA SendStutters ==
  ASSUME OpenFile \/ WriteFile \/ PassSensingData
  PROVE  UNCHANGED <<CallStage, SensedByUe, AnswerInFile>>
<1>1. /\ simPc \in {"open", "write", "pass"} /\ simPc' \in {"open", "write", "pass", "trigger"}
      /\ UNCHANGED <<ue, heard, pass, packets>>
  BY DEF OpenFile, WriteFile, PassSensingData
<1>2. ~AboutToRead /\ ~AboutToRead'
  BY <1>1 DEF AboutToRead
<1>3. UNCHANGED AnswerInFile
  BY <1>2, NoAnswerYet
<1> QED BY <1>1, <1>3 DEF CallStage, SensedByUe

LEMMA DoNotAskCalls ==
  ASSUME DoNotAsk
  PROVE  Call!GiveUp
<1>1. simPc = "trigger" /\ simPc' = "slot" /\ UNCHANGED <<ue, heard, pass, packets>>
  BY DEF DoNotAsk
<1>2. ~AboutToRead /\ ~AboutToRead'
  BY <1>1 DEF AboutToRead
<1>3. UNCHANGED AnswerInFile
  BY <1>2, NoAnswerYet
<1> QED BY <1>1, <1>3 DEF Call!GiveUp, CallStage, SensedByUe

LEMMA GetResourceSelectionsCalls ==
  ASSUME GetResourceSelections
  PROVE  Call!Ask
<1>1. /\ simPc = "trigger" /\ simPc' = "answer" /\ turn' = "controller"
      /\ UNCHANGED <<ue, heard, pass, packets>>
  BY DEF GetResourceSelections
<1>2. ~AboutToRead /\ ~AboutToRead'
  BY <1>1 DEF AboutToRead
<1>3. UNCHANGED AnswerInFile
  BY <1>2, NoAnswerYet
<1> QED BY <1>1, <1>2, <1>3 DEF Call!Ask, CallStage, SensedByUe

LEMMA ReadInstructionsCalls ==
  ASSUME ReadInstructions
  PROVE  Call!Take
<1>1. /\ simPc = "answer" /\ turn = "sim" /\ simPc' = "slot"
      /\ UNCHANGED <<ue, heard, pass, packets>>
  BY DEF ReadInstructions
<1>2. AboutToRead /\ ~AboutToRead'
  BY <1>1 DEF AboutToRead
<1>3. AnswerInFile' = Call!NoAnswer
  BY <1>2 DEF AnswerInFile, Call!NoAnswer
<1> QED BY <1>1, <1>2, <1>3 DEF Call!Take, CallStage, SensedByUe

(* What the controller reads before it gives the turn back.                 *)
LEMMA LoadStutters ==
  ASSUME ExInv, LoadSensingData \/ ReadFile \/ RemoveFile \/ DecodePackets
  PROVE  UNCHANGED <<CallStage, SensedByUe, AnswerInFile>>
<1>1. UNCHANGED simVars
  BY DEF LoadSensingData, ReadFile, RemoveFile, DecodePackets
<1>2. simPc # "answer"
  <2>1. CASE LoadSensingData
    BY <2>1 DEF LoadSensingData, ExInv, Alternation
  <2>2. CASE ReadFile \/ RemoveFile \/ DecodePackets
    BY <2>2 DEF ReadFile, RemoveFile, DecodePackets, ExInv, Alternation, Loading
  <2> QED BY <2>1, <2>2
<1>3. ~AboutToRead /\ ~AboutToRead'
  BY <1>1, <1>2 DEF AboutToRead, simVars
<1>4. UNCHANGED AnswerInFile
  BY <1>3, NoAnswerYet
<1> QED BY <1>1, <1>2, <1>4 DEF simVars, CallStage, SensedByUe

(* The answer: that it is made of all and only what was sensed is AnswerIsOwn *)
(* and PacketsArrive.                                                       *)
LEMMA SelectResourcesCalls ==
  ASSUME ExInv, ExInv', SelectResources
  PROVE  Call!Reply
<1>1. ctlPc' # "failed"
  BY DEF ExInv, Alternation
<1>2. /\ turn = "controller" /\ env.sensningDataFlag = 0 /\ UNCHANGED simVars /\ turn' = "sim"
  BY <1>1 DEF SelectResources, Fail
<1>3. simPc = "answer" /\ simPc' = "answer"
  BY <1>2 DEF ExInv, Alternation, simVars
<1>4. ~AboutToRead /\ AboutToRead'
  BY <1>2, <1>3 DEF AboutToRead
<1>5. UNCHANGED <<ue, heard, pass, packets>>
  BY <1>2 DEF simVars
<1>6. CallStage = "asked" /\ CallStage' = "answered" /\ UNCHANGED SensedByUe
  BY <1>3, <1>4, <1>5 DEF CallStage, SensedByUe
<1>7. AnswerInFile' = [ue |-> instructions'.ue, from |-> instructions'.from, some |-> PacketsKnown']
  BY <1>4 DEF AnswerInFile
<1>8. AnswerInFile' \in Call!Answer
  <2>1. instructions'.ue \in Ues \cup {NoUe} /\ instructions'.from \in SUBSET Passes
    BY DEF ExInv, ExTypeOK, Instructions
  <2>2. PacketsKnown' \in BOOLEAN
    BY DEF PacketsKnown
  <2> HIDE DEF PacketsKnown
  <2> QED BY <1>7, <2>1, <2>2 DEF Call!Answer
<1>9. ASSUME heard
      PROVE  AnswerInFile' = [ue |-> ue, from |-> {pass}, some |-> packets # 0]
  <2>1. instructions' = [ue |-> ue', from |-> {pass'}]
    BY <1>4, <1>5, <1>9 DEF ExInv, AnswerIsOwn
  <2>2. PacketsKnown' = (packets' # 0)
    BY <1>3, <1>5, <1>9 DEF ExInv, Loaded, Loading, Alternation, PacketsKnown
  <2> QED BY <1>5, <1>7, <2>1, <2>2
<1>10. SensedByUe.heard => AnswerInFile' = [ue |-> SensedByUe.ue, from |-> {SensedByUe.pass},
                                           some |-> SensedByUe.some]
  BY <1>9 DEF SensedByUe
<1> QED BY <1>6, <1>8, <1>10 DEF Call!Reply

LEMMA NextCalls ==
  ASSUME ExInv, ExInv', [Next]_vars
  PROVE  [Call!Next]_<<CallStage, SensedByUe, AnswerInFile>>
<1>1. CASE UNCHANGED vars
  BY <1>1 DEF vars, simVars, ctlVars, CallStage, SensedByUe, AnswerInFile, AboutToRead, PacketsKnown
<1>2. CASE Simulator
  BY <1>2, SenseCalls, SendStutters, DoNotAskCalls, GetResourceSelectionsCalls, ReadInstructionsCalls
     DEF Simulator, Call!Next
<1>3. CASE Controller
  BY <1>3, LoadStutters, SelectResourcesCalls DEF Controller, Call!Next
<1> QED BY <1>1, <1>2, <1>3 DEF Next

(* As long as the order of calls is kept, asking the controller is a call   *)
(* of a function of what the UE has just sensed (ORE-env.cc:153-181,        *)
(* O-Re/run.py:245-325), for any number of UEs, packets and passes.         *)
THEOREM ImplementsCall ==
  ASSUME OrderKept
  PROVE  Spec => AskIsACall
<1>1. Init => Call!Init
  BY InitCalls
<1>2. ExInv /\ ExInv' /\ [Next]_vars => [Call!Next]_<<CallStage, SensedByUe, AnswerInFile>>
  BY NextCalls
<1> QED BY <1>1, <1>2, ExInvariant, PTL DEF Spec, AskIsACall, Call!Spec

-----------------------------------------------------------------------------
(* A call comes nearer to its end with each step.                           *)

LEMMA LeftTypes ==
  ASSUME ExInv
  PROVE  SimulatorLeft \in Nat /\ ControllerLeft \in Nat
<1>1. simFile \in 1 .. 4 /\ ctlFile \in 1 .. 4
  BY DEF ExInv, ExTypeOK, File
<1>2. SimulatorLeft \in Nat
  BY <1>1 DEF ExInv, ExTypeOK, SimulatorLeft, ScFile
<1>3. ControllerLeft \in Nat
  BY <1>1 DEF ExInv, ExTypeOK, Alternation, ControllerLeft, ScFile
<1> QED BY <1>2, <1>3

LEMMA BothLeft ==
  /\ StepsLeft = SimulatorLeft + ControllerLeft
  /\ StepsLeft' = SimulatorLeft' + ControllerLeft'
BY DEF StepsLeft, SimulatorLeft, ControllerLeft

LEMMA SimulatorShortens ==
  ASSUME ExInv, Simulator, ~Starts
  PROVE  StepsLeft' < StepsLeft
<1>1. simFile \in 1 .. 4 /\ ControllerLeft \in Nat
  BY LeftTypes DEF ExInv, ExTypeOK, File
<1>2. CASE OpenFile \/ WriteFile \/ DoNotAsk \/ ReadInstructions
  <2>1. ControllerLeft' = ControllerLeft
    BY <1>2 DEF OpenFile, WriteFile, DoNotAsk, ReadInstructions, ctlVars, ControllerLeft
  <2>2. SimulatorLeft' < SimulatorLeft /\ SimulatorLeft' \in Int /\ SimulatorLeft \in Int
    <3>1. CASE OpenFile
      <4>1. simPc = "open" /\ simPc' = "write" /\ simFile' = simFile
        BY <3>1 DEF OpenFile
      <4> QED BY <1>1, <4>1 DEF SimulatorLeft, ScFile
    <3>2. CASE WriteFile
      <4>1. \/ simPc' = "open" /\ simFile' = simFile + 1 /\ simFile # 4
            \/ simPc' = "pass"
        BY <3>2 DEF WriteFile, ScFile
      <4>2. simPc = "write"
        BY <3>2 DEF WriteFile
      <4> QED BY <1>1, <4>1, <4>2 DEF SimulatorLeft, ScFile
    <3>3. CASE DoNotAsk \/ ReadInstructions
      <4>1. simPc \in {"trigger", "answer"} /\ simPc' = "slot"
        BY <3>3 DEF DoNotAsk, ReadInstructions
      <4> QED BY <4>1 DEF SimulatorLeft
    <3> QED BY <1>2, <3>1, <3>2, <3>3
  <2>3. PICK s \in Int, t \in Int, c \in Nat :
               SimulatorLeft = s /\ SimulatorLeft' = t /\ ControllerLeft = c
    BY <1>1, <2>2
  <2>4. StepsLeft = s + c /\ StepsLeft' = t + c
    BY <2>1, <2>3, BothLeft
  <2>5. t < s
    BY <2>2, <2>3
  <2>6. t + c < s + c
    BY <2>5
  <2> QED BY <2>4, <2>6
<1>3. CASE PassSensingData
  <2>1. SimulatorLeft = 14 /\ ControllerLeft = 0
    BY <1>3 DEF PassSensingData, SimulatorLeft, ControllerLeft
  <2>2. ctlPc' = "acquire" /\ turn' = "controller" /\ env'.sensningDataFlag = 1 /\ simPc' = "trigger"
    BY <1>3 DEF PassSensingData, ctlVars, ExInv, Alternation
  <2>3. SimulatorLeft' = 3 /\ ControllerLeft' = 10
    BY <2>2 DEF SimulatorLeft, ControllerLeft
  <2> QED BY <2>1, <2>3, BothLeft
<1>4. CASE GetResourceSelections
  <2>1. SimulatorLeft = 3 /\ ControllerLeft = 0
    BY <1>4 DEF GetResourceSelections, SimulatorLeft, ControllerLeft
  <2>2. ctlPc' = "acquire" /\ turn' = "controller" /\ env'.sensningDataFlag = 0 /\ simPc' = "answer"
    BY <1>4 DEF GetResourceSelections, ctlVars, ExInv, ExTypeOK, Alternation
  <2>3. SimulatorLeft' = 1 /\ ControllerLeft' = 1
    BY <2>2 DEF SimulatorLeft, ControllerLeft
  <2> QED BY <2>1, <2>3, BothLeft
<1> QED BY <1>2, <1>3, <1>4 DEF Simulator, Starts

LEMMA ControllerShortens ==
  ASSUME ExInv, ExInv', Controller
  PROVE  StepsLeft' < StepsLeft
<1>1. ctlFile \in 1 .. 4 /\ SimulatorLeft \in Nat
  BY LeftTypes DEF ExInv, ExTypeOK, File
<1>2. SimulatorLeft' = SimulatorLeft
  <2>1. UNCHANGED simVars
    BY DEF Controller, LoadSensingData, ReadFile, RemoveFile, DecodePackets, SelectResources
  <2> QED BY <2>1 DEF simVars, SimulatorLeft, ScFile
<1>3. turn = "controller"
  BY DEF Controller, LoadSensingData, ReadFile, RemoveFile, DecodePackets, SelectResources,
         ExInv, ExTypeOK, Alternation
<1>4. /\ ControllerLeft' < ControllerLeft
      /\ ControllerLeft' \in Int /\ ControllerLeft \in Int
  <2>1. CASE LoadSensingData
    <3>1. ControllerLeft = 10
      BY <1>3, <2>1 DEF LoadSensingData, ControllerLeft
    <3>2. turn' = "sim" \/ (turn' = turn /\ ctlPc' = "read" /\ ctlFile' = 1)
      BY <2>1 DEF LoadSensingData
    <3>3. ControllerLeft' \in {0, 9}
      BY <1>3, <3>2 DEF ControllerLeft, ScFile
    <3> QED BY <3>1, <3>3
  <2>2. CASE ReadFile \/ RemoveFile
    <3>1. turn' = turn /\ ctlPc \in {"read", "remove"}
      BY <2>2 DEF ReadFile, RemoveFile
    <3>2. \/ ctlPc' = "read" /\ ctlFile' = ctlFile + 1 /\ ctlFile # 4
          \/ ctlPc' = "decode"
          \/ ctlPc = "read" /\ ctlPc' = "remove" /\ ctlFile' = ctlFile
      BY <2>2 DEF ReadFile, RemoveFile, AfterFile, ScFile
    <3>3. ControllerLeft = IF ctlPc = "read" THEN 3 + 2 * (4 - ctlFile) ELSE 2 + 2 * (4 - ctlFile)
      BY <1>3, <3>1 DEF ControllerLeft, ScFile
    <3>4. CASE ctlPc' = "decode"
      <4>1. ControllerLeft' = 1
        BY <1>3, <3>1, <3>4 DEF ControllerLeft
      <4> QED BY <1>1, <3>3, <4>1
    <3>5. CASE ctlPc' = "read" /\ ctlFile' = ctlFile + 1 /\ ctlFile # 4
      <4>1. ControllerLeft' = 3 + 2 * (4 - (ctlFile + 1))
        BY <1>3, <3>1, <3>5 DEF ControllerLeft, ScFile
      <4> QED BY <1>1, <3>3, <4>1
    <3>6. CASE ctlPc = "read" /\ ctlPc' = "remove" /\ ctlFile' = ctlFile
      <4>1. ControllerLeft' = 2 + 2 * (4 - ctlFile)
        BY <1>3, <3>1, <3>6 DEF ControllerLeft, ScFile
      <4> QED BY <1>1, <3>3, <3>6, <4>1
    <3> QED BY <3>2, <3>4, <3>5, <3>6
  <2>3. CASE DecodePackets
    <3>1. turn' = "sim"
      BY <2>3 DEF DecodePackets, Fail, ExInv, Alternation
    <3> QED BY <1>3, <2>3, <3>1 DEF DecodePackets, ControllerLeft
  <2>4. CASE SelectResources
    <3>1. turn' = "sim"
      BY <2>4 DEF SelectResources, Fail, ExInv, Alternation
    <3> QED BY <1>3, <2>4, <3>1 DEF SelectResources, ControllerLeft
  <2> QED BY <2>1, <2>2, <2>3, <2>4 DEF Controller
<1>5. PICK s \in Nat, c \in Int, d \in Int :
             SimulatorLeft = s /\ ControllerLeft = c /\ ControllerLeft' = d
  BY <1>1, <1>4
<1>6. StepsLeft = s + c /\ StepsLeft' = s + d
  BY <1>2, <1>5, BothLeft
<1>7. d < c
  BY <1>4, <1>5
<1>8. s + d < s + c
  BY <1>7
<1> QED BY <1>6, <1>8

(* Between two calls both processes take a bounded number of steps, if the  *)
(* order of calls is kept: an answer can be late, but nothing goes round.   *)
THEOREM CallShortensHolds ==
  ASSUME OrderKept
  PROVE  Spec => [](StepsLeft \in Nat) /\ CallShortens
<1>1. ExInv => StepsLeft \in Nat
  BY LeftTypes DEF StepsLeft
<1>2. ExInv /\ ExInv' /\ [Next]_vars => [~Starts => StepsLeft' < StepsLeft]_vars
  BY SimulatorShortens, ControllerShortens DEF Next
<1> QED BY <1>1, <1>2, ExInvariant, PTL DEF Spec, CallShortens
=============================================================================
