--------------------------- MODULE ControllerCall ---------------------------
(***************************************************************************)
(* What the exchange with the controller promises the scheduler of a UE:   *)
(* asking for resources is a call.  Whatever travels between the two       *)
(* processes, and in which steps, a question is asked at most once about   *)
(* what a UE has sensed last, is answered once, and the answer is read     *)
(* once; it is made for that UE, from all that and only that it has        *)
(* sensed.  A UE that has sensed nothing yet may get any answer.           *)
(***************************************************************************)
EXTENDS Integers

CONSTANTS Ues, NoUe, Passes

(* some: whether any packets were heard.                                    *)
Sensed == [ue : Ues, heard : BOOLEAN, pass : Passes, some : BOOLEAN]

Answer == [ue : Ues \cup {NoUe}, from : SUBSET Passes, some : BOOLEAN]

NoAnswer == [ue |-> NoUe, from |-> {}, some |-> FALSE]

VARIABLES
  call,             (* "none", "sensed", "asked" or "answered"              *)
  sensed,           (* what the UE at work has sensed                       *)
  answer            (* what its scheduler is about to read                  *)

Init ==
  /\ call = "none" /\ sensed \in Sensed /\ answer = NoAnswer

Sense ==
  /\ call = "none" /\ call' = "sensed"
  /\ sensed' \in Sensed
  /\ UNCHANGED answer

GiveUp ==
  /\ call = "sensed" /\ call' = "none"
  /\ UNCHANGED <<sensed, answer>>

Ask ==
  /\ call = "sensed" /\ call' = "asked"
  /\ UNCHANGED <<sensed, answer>>

Reply ==
  /\ call = "asked" /\ call' = "answered"
  /\ answer' \in Answer
  /\ sensed.heard =>
       answer' = [ue |-> sensed.ue, from |-> {sensed.pass}, some |-> sensed.some]
  /\ UNCHANGED sensed

Take ==
  /\ call = "answered" /\ call' = "none"
  /\ answer' = NoAnswer
  /\ UNCHANGED sensed

Next == Sense \/ GiveUp \/ Ask \/ Reply \/ Take

Spec == Init /\ [][Next]_<<call, sensed, answer>>
=============================================================================
