-------------------------- MODULE OReExchangeInv --------------------------
(* The inductive invariant of OReExchange when the controller is called in *)
(* the order its authors describe (O-Re/run.py:245-255): with O-Re each    *)
(* sensing pass is followed by a question.                                 *)
EXTENDS OReExchange

OrderKept ==
  \A s \in Scenarios :
    /\ s.controller = "O-Re" => ~s.mayIdle
    /\ s.mayBeDeaf => ~s.mayIdle

Loading == ctlPc \in {"read", "remove", "decode"}

(* Whose turn it is.                                                        *)
Alternation ==
  /\ turn = "sim" => ctlPc = "acquire"
  /\ Loading => simPc = "trigger" /\ scenario.controller = "O-Re"
  /\ ~scenario.mayIdle /\ turn = "controller" => simPc \in {"trigger", "answer"}
  /\ turn = "controller" => (env.sensningDataFlag = 0 <=> simPc = "answer")
  /\ simPc \in {"open", "write", "pass"} => heard
  /\ ~scenario.mayBeDeaf /\ simPc # "slot" => heard
  /\ ctlPc # "failed"

(* A UE without any slot does not ask, so that the table has a row for the  *)
(* exclusions of every UE that does.                                        *)
RowsExist ==
  /\ atMax => scenario.mayIdle
  /\ simPc = "answer" => ~atMax
  /\ ~scenario.mayIdle /\ env.sensningDataFlag = 1 => env.inTable
  /\ ~scenario.mayIdle /\ lastImsi \in Ues => lastNumExclusions[lastImsi].inTable

(* What was sent is what is loaded.                                         *)
Received == simPc = "trigger" /\ (turn = "sim" \/ Loading)

Unread == simPc = "trigger" /\ turn = "controller" /\ ctlPc = "acquire"

Sent ==
  simPc = "trigger" /\ turn = "controller" =>
    /\ heard
    /\ env.imsi = ue /\ env.pass = pass
    /\ ~atMax => env.inTable

Loaded ==
  heard /\ (simPc = "answer" \/ Received) =>
    /\ lastImsi = ue /\ env.pass = pass
    /\ lastNumExclusions[ue].pass = pass
    /\ ~atMax => lastNumExclusions[ue].inTable
    /\ scenario.controller = "O-Re" /\ ~Loading =>
         lastRecievedPackets[ue] = IF packets = 0 THEN {} ELSE {pass}

Written == [pass |-> pass, n |-> packets]

(* How far the four files are written and how far they are read.            *)
FilesFollow ==
  scenario.controller = "O-Re" =>
    /\ simPc \in {"slot", "answer"} \/ (Received /\ ctlPc \in {"acquire", "decode"}) =>
         \A f \in File : files[f] = NoFile
    /\ simPc \in {"open", "write"} =>
         \A f \in File : IF f < simFile THEN files[f] = Written
                         ELSE f > simFile \/ simPc = "open" => files[f] = NoFile
    /\ simPc = "pass" \/ Unread =>
         \A f \in File : files[f] = Written
    /\ simPc = "write" => files[simFile] # NoFile
    /\ ctlPc \in {"read", "remove"} =>
         \A f \in File : files[f] = IF f < ctlFile THEN NoFile ELSE Written
    /\ Loading =>
         \A f \in File :
           f < ctlFile \/ (f = ctlFile /\ ctlPc # "read") => strings[f] = Written

LoadsAll == ctlPc = "decode" => ctlFile = ScFile

ExInv ==
  /\ ExTypeOK /\ Alternation /\ RowsExist /\ Sent /\ Loaded
  /\ FilesFollow /\ LoadsAll /\ AnswerIsOwn
-----------------------------------------------------------------------------
(* How many steps of both processes are left at most until a UE may sense   *)
(* again and the controller waits.  The files are those of a sensing pass.  *)
SimulatorLeft ==
  CASE simPc = "slot"    -> 0
    [] simPc = "answer"  -> 1
    [] simPc = "trigger" -> 3
    [] simPc = "pass"    -> 14
    [] simPc = "write"   -> 15 + 2 * (ScFile - simFile)
    [] simPc = "open"    -> 16 + 2 * (ScFile - simFile)

ControllerLeft ==
  CASE turn = "sim" -> 0
    [] turn # "sim" /\ ctlPc = "acquire" -> IF env.sensningDataFlag = 0 THEN 1 ELSE 10
    [] turn # "sim" /\ ctlPc = "read"    -> 3 + 2 * (ScFile - ctlFile)
    [] turn # "sim" /\ ctlPc = "remove"  -> 2 + 2 * (ScFile - ctlFile)
    [] turn # "sim" /\ ctlPc = "decode"  -> 1

StepsLeft == SimulatorLeft + ControllerLeft

Starts == \E u \in Ues : SenseNothing(u) \/ Sense(u)

(* Every step but the one that starts a new call brings the call nearer to  *)
(* its end: neither process goes round while it waits for the other, nor    *)
(* gives the other the same work again (ORE-env.cc:153-181, run.py:245-325). *)
CallShortens == [][~Starts => StepsLeft' < StepsLeft]_vars
=============================================================================
