---------------------------- MODULE NrSlSensingInv ----------------------------
(* The inductive invariant of NrSlSensing.                                  *)
EXTENDS NrSlSensing

(* The places of the elements whose age is one of ages.                     *)
Heard(data, ages) == {k \in DOMAIN data : data[k].age \in ages}

TooOld == {age \in Nat : age > SensWindow}

NumHeard(data, ages) == Cardinality(Heard(data, ages))

(* Few elements have the same age, and no more have age 0 than were heard   *)
(* in this slot.                                                            *)
FewPerSlot ==
  /\ NumHeard(sensingData, {0}) <= NumHeard(sensed, {0})
  /\ \A age \in 0 .. SensWindow : NumHeard(sensingData, {age}) <= MaxPerSlot

(* While the comparison wraps around nothing has left the window yet.       *)
FirstSlots ==
  sfn < SensWindow => \A k \in DOMAIN sensingData : sensingData[k].age <= sfn

(* When the loop of UpdateSensingWindow starts, what the last one has left  *)
(* is outdated and what has become so in this slot.  Each turn erases one   *)
(* and goes one place further, so that half of them are left when it has    *)
(* passed them.                                                             *)
HalfIsLeft ==
  IF pc = "update"
  THEN sfn = SensWindow => NumHeard(sensingData, TooOld) + (it - 1) <= 2 * MaxPerSlot
  ELSE it = 1 /\ NumHeard(sensingData, TooOld) <= MaxPerSlot

(* The history has nothing outdated, and nothing is late before the window  *)
(* is complete.                                                             *)
HistoryInWindow ==
  \A k \in DOMAIN sensed :
    /\ sensed[k].age <= SensWindow
    /\ sensed[k].late => sfn = SensWindow

SensingInv ==
  /\ SensingTypeOK
  /\ pc = "loop" => rsrpThrehold <= MaxThres
  /\ FewPerSlot /\ FirstSlots /\ HalfIsLeft
  /\ HistoryInWindow /\ LateAreKept

-----------------------------------------------------------------------------
(* Behind EachReportedOnce.                                                 *)

(* Of the data of one slot the decoded comes first, each on a subchannel of *)
(* its own.                                                                 *)
DecodedFirst(data) ==
  \A k, l \in DOMAIN data :
    k < l /\ data[k].age = data[l].age /\ ~data[l].sci.corrupt =>
      ~data[k].sci.corrupt /\ data[k].sci.sc # data[l].sci.sc

(* What is of the current slot is in the history, too.                      *)
NowInHistory ==
  \A k \in DOMAIN sensingData : sensingData[k].age = 0 =>
    pc # "update" /\ \E l \in DOMAIN sensed : sensed[l] = sensingData[k]

(* What the first turn of the loop reports.                                 *)
FirstReport ==
  {h \in Hits :
     /\ ~sensedData[h.k].sci.corrupt
     /\ \A g \in Hits :
          (g.ahead = h.ahead /\ g.sc = h.sc /\ (g.k < h.k \/ (g.k = h.k /\ g.c < h.c)))
            => sensedData[g.k].sci.rsrp = 0}

(* The later turns leave the report as it is.                               *)
ReportKept ==
  /\ pc = "pass" => rsrpThrehold > 0
  /\ pc \in {"loop", "pass"} /\ rsrpThrehold > 0 => packets = FirstReport

ReportInv ==
  /\ SensingInv
  /\ DecodedFirst(sensingData) /\ DecodedFirst(sensedData)
  /\ NowInHistory /\ ReportKept

(* The condition of EachReportedOnce: all UEs announce one period, as in    *)
(* the experiments (O-Re_Experiments.cc:470 and :749).                      *)
OnePeriod == \A sci \in Scis : sci.rsvp = ResvPeriod
-----------------------------------------------------------------------------
(* How many steps of the two calls of a slot are left at most.              *)
StepsLeft ==
  CASE pc = "idle"   -> 0
    [] pc = "pass"   -> 1
    [] pc = "loop"   -> 2 + (MaxThres - rsrpThrehold)
    [] pc = "ask"    -> 3 + MaxThres
    [] pc = "update" -> 4 + MaxThres + Len(sensingData)

(* Each turn of UpdateSensingWindow (nr-ue-mac.cc:1632-1647), where the     *)
(* iterator may come round to the first element, and of the threshold loop  *)
(* (:1348-1443), which starts again from all slots, is nearer to the end.   *)
CallsShorten == [][UpdateSensingWindow \/ GetNrSlTxOpportunities => StepsLeft' < StepsLeft]_vars
=============================================================================
