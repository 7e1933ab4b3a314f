----------------------------- MODULE NrSlSensing -----------------------------
(***************************************************************************)
(* Sensing of class NrUeMac: the buffer of the SCIs that a UE has heard,   *)
(* and the candidate resources that are left when those which the SCIs     *)
(* announce are taken away (step 1 of TS 38.214, section 8.1.4).           *)
(*                                                                         *)
(* Slots are told relative to the current one.  Powers are told in steps   *)
(* of the RSRP threshold, 3 dB; the threshold starts at 0.  All slots      *)
(* belong to the pool, as in the experiments.                              *)
(***************************************************************************)
EXTENDS Integers, FiniteSets, SequencesExt

CONSTANTS
  SensWindow,     (* GetNrSlSensWindInSlots                                 *)
  Tproc0,
  T1, T2,         (* the selection window                                   *)
  ResvPeriod,     (* pPrimeRsvpTx, in slots                                 *)
  TotalSubCh,
  MaxThres,       (* the last threshold that is not above 0 dBm             *)
  ResPercentage,  (* m_resPercentage                                        *)
  Scis,           (* bound of the model: what an SCI may say                *)
  MaxPerSlot      (* bound of the model: SCIs heard in one slot             *)

Window == T1 .. T2

SubCh == 0 .. TotalSubCh - 1

(* rsvp is the announced period in slots, reTx the announced                *)
(* retransmissions, corrupt: only the power of the SCI was received.        *)
Sci == [sc : SubCh, rsvp : Nat \ {0}, reTx : SUBSET [gap : Nat \ {0}, sc : SubCh],
        rsrp : Nat, corrupt : BOOLEAN]

(* Periods past the first that may reach the window, GetFutSlotsBasedOnSens. *)
Q(rsvp) ==
  LET selecWindLen == T2 - T1 + 1
  IN IF rsvp < selecWindLen THEN (selecWindLen + rsvp - 1) \div rsvp ELSE 1

(* Retransmissions are announced within a period.  With them, and without,  *)
(* an SCI reaches no further than the sensing window back.                  *)
ASSUME SensingAssumption ==
  /\ SensWindow \in Nat \ {0} /\ Tproc0 \in Nat
  /\ T1 \in Nat \ {0} /\ T2 \in Nat /\ T1 <= T2 /\ T2 <= ResvPeriod
  /\ ResvPeriod \in Nat \ {0}
  /\ TotalSubCh \in Nat \ {0}
  /\ MaxThres \in Nat
  /\ ResPercentage \in 1 .. 100
  /\ MaxPerSlot \in Nat
  /\ Scis \subseteq Sci
  /\ \A sci \in Scis : sci.rsvp * Q(sci.rsvp) < SensWindow + 1 + T1
  /\ \A sci \in Scis : \A r \in sci.reTx :
       r.gap < sci.rsvp /\ r.gap + sci.rsvp * Q(sci.rsvp) < SensWindow + 1 + T1

VARIABLES
  sfn,            (* slots since the start, up to SensWindow                *)
  pc,
  sensingData,    (* m_sensingData: SCIs with their age, the oldest first   *)
  it,             (* the place of the iterator of UpdateSensingWindow       *)
  sensed,         (* history: all heard within the window, by the same form *)
  sensedData,     (* the copy that is trimmed                               *)
  rsrpThrehold,
  occupied,       (* resources taken away in this turn of the loop          *)
  packets,        (* decoded SCIs that announce a resource of the window    *)
  slots,          (* the slots of the candidate list                        *)
  halted          (* "no", or what stopped the program                      *)

loopVars == <<sensedData, rsrpThrehold, occupied, packets, slots>>
vars == <<sfn, pc, sensingData, it, sensed, loopVars, halted>>

SensingData == [sci : Scis, age : Nat, late : BOOLEAN]

Init ==
  /\ sfn = 0 /\ pc = "idle" /\ halted = "no"
  /\ sensingData = <<>> /\ it = 1 /\ sensed = <<>>
  /\ sensedData = <<>> /\ rsrpThrehold = 0 /\ occupied = {} /\ packets = {} /\ slots = {}

Running(place) == halted = "no" /\ pc = place

-----------------------------------------------------------------------------
DoReceiveSensingData_AtFront(sci) ==
  LET now == {k \in DOMAIN sensed : sensed[k].age = 0}
      datum == [sci |-> sci, age |-> 0, late |-> sfn = SensWindow]
  IN /\ Running("idle")
     /\ Cardinality(now) < MaxPerSlot
     /\ ~sci.corrupt => \A k \in now : ~sensed[k].sci.corrupt /\ sensed[k].sci.sc # sci.sc
     /\ sensingData' = <<datum>> \o sensingData
     /\ sensed' = Append(sensed, datum)
     /\ UNCHANGED <<sfn, pc, it, loopVars, halted>>

(* DoReceiveSensingData.  RxSlPscch decodes at most one SCI on a subchannel *)
(* and passes those it decoded before the others.                           *)
DoReceiveSensingData(sci) ==
  LET now == {k \in DOMAIN sensed : sensed[k].age = 0}
      datum == [sci |-> sci, age |-> 0, late |-> sfn = SensWindow]
  IN /\ Running("idle")
     /\ Cardinality(now) < MaxPerSlot
     /\ ~sci.corrupt => \A k \in now : ~sensed[k].sci.corrupt /\ sensed[k].sci.sc # sci.sc
     /\ sensingData' = Append(sensingData, datum)
     /\ sensed' = Append(sensed, datum)
     /\ UNCHANGED <<sfn, pc, it, loopVars, halted>>

Aged(data) == [k \in DOMAIN data |-> [data[k] EXCEPT !.age = @ + 1]]

(* A slot begins.                                                           *)
SlotIndication ==
  /\ Running("idle")
  /\ sfn' = IF sfn < SensWindow THEN sfn + 1 ELSE sfn
  /\ sensingData' = Aged(sensingData)
  /\ \E n \in 0 .. Len(sensed) :
       /\ \A k \in DOMAIN sensed : k <= n <=> Aged(sensed)[k].age > SensWindow
       /\ sensed' = SubSeq(Aged(sensed), n + 1, Len(sensed))
  /\ pc' = "update"
  /\ UNCHANGED <<it, loopVars, halted>>

(* Older than sfn - sensWindLen, a difference of unsigned numbers: in the   *)
(* first slots it wraps around to a number far ahead.                       *)
Outdated_AtWindow(datum) == sfn < SensWindow \/ datum.age >= SensWindow

Outdated(datum) == sfn < SensWindow \/ datum.age > SensWindow

AtOutdated == it <= Len(sensingData) /\ Outdated(sensingData[it])

EraseOutdated_Break ==
  /\ Running("update")
  /\ AtOutdated
  /\ sensingData' = RemoveAt(sensingData, it)
  /\ it' = 1 /\ pc' \in {"idle", "ask"}
  /\ UNCHANGED <<sfn, sensed, loopVars, halted>>

(* A turn of the loop of UpdateSensingWindow.  After the erase the iterator *)
(* is at the next element, and is incremented again.  Past the end it comes *)
(* back to the first: std::list is a ring.                                  *)
EraseOutdated ==
  /\ Running("update")
  /\ AtOutdated
  /\ sensingData' = RemoveAt(sensingData, it)
  /\ it' = IF it = Len(sensingData) THEN 1 ELSE it + 1
  /\ UNCHANGED <<sfn, pc, sensed, loopVars, halted>>

(* The loop ends.  A destination may ask for resources in this slot.        *)
WindowUpdated ==
  /\ Running("update")
  /\ ~AtOutdated
  /\ it' = 1 /\ pc' \in {"idle", "ask"}
  /\ UNCHANGED <<sfn, sensingData, sensed, loopVars, halted>>

UpdateSensingWindow == EraseOutdated \/ WindowUpdated

-----------------------------------------------------------------------------
(* GetNrSlTxOpportunities.                                                  *)

(* Nothing was sensed: all slots, and the controller hears nothing.         *)
NoSensing ==
  /\ Running("ask")
  /\ sensingData = <<>>
  /\ pc' = "idle"
  /\ UNCHANGED <<sfn, sensingData, it, sensed, loopVars, halted>>

(* The data of the last Tproc0 slots is dropped from the back.  If that is  *)
(* all, the loop goes on to read and to drop from an empty list.            *)
TrimSensedData ==
  /\ Running("ask")
  /\ sensingData # <<>>
  /\ \E n \in 0 .. Len(sensingData) :
       /\ n # 0 => sensingData[n].age > Tproc0
       /\ \A k \in DOMAIN sensingData : k > n => sensingData[k].age <= Tproc0
       /\ sensedData' = SubSeq(sensingData, 1, n)
  /\ rsrpThrehold' = 0 /\ occupied' = {} /\ packets' = {} /\ slots' = {}
  /\ halted' \in (IF sensedData' = <<>> THEN {"no", "undefined"} ELSE {"no"})
  /\ pc' = "loop"
  /\ UNCHANGED <<sfn, sensingData, it, sensed>>

Announces_OnePeriodMore(datum, slot, sc) ==
  LET sci == datum.sci
  IN \E i \in 0 .. Q(sci.rsvp) + 1 :
       \/ slot = i * sci.rsvp - datum.age /\ sc = sci.sc
       \/ \E r \in sci.reTx : slot = i * sci.rsvp - datum.age + r.gap /\ sc = r.sc

(* The resources that an SCI announces, GetFutSlotsBasedOnSens.             *)
Announces(datum, slot, sc) ==
  LET sci == datum.sci
  IN \E i \in 0 .. Q(sci.rsvp) :
       \/ slot = i * sci.rsvp - datum.age /\ sc = sci.sc
       \/ \E r \in sci.reTx : slot = i * sci.rsvp - datum.age + r.gap /\ sc = r.sc

(* The k-th SCI announces a candidate, for its first (c = 0) or its second  *)
(* period.                                                                  *)
Hits ==
  {h \in [k : DOMAIN sensedData, c : {0, 1}, ahead : Window, sc : SubCh] :
     Announces(sensedData[h.k], h.ahead + h.c * ResvPeriod, h.sc)}

Strong(h) == sensedData[h.k].sci.rsrp > rsrpThrehold

Occupied == {<<h.ahead, h.sc>> : h \in {h \in Hits : Strong(h)}}

(* The SCIs reported to the controller, in the first turn: those decoded,   *)
(* unless an earlier one has already taken the resource away.               *)
Reported_EveryTurn ==
  packets \cup
  {[k |-> h.k, c |-> h.c + 2 * rsrpThrehold, ahead |-> h.ahead, sc |-> h.sc] :
     h \in {h \in Hits : ~sensedData[h.k].sci.corrupt}}

Reported ==
  LET hits == Hits
  IN IF rsrpThrehold > 0 THEN packets
     ELSE {h \in hits :
             /\ ~sensedData[h.k].sci.corrupt
             /\ \A g \in hits :
                  (g.ahead = h.ahead /\ g.sc = h.sc
                    /\ (g.k < h.k \/ (g.k = h.k /\ g.c < h.c))) => ~Strong(g)}

(* More resources are taken away than may be.                               *)
TooMany(n) ==
  100 * n > (100 - ResPercentage) * TotalSubCh * Cardinality(Window)

Eliminate_SameThreshold ==
  /\ Running("loop")
  /\ occupied' = Occupied
  /\ packets' = Reported
  /\ UNCHANGED rsrpThrehold
  /\ IF rsrpThrehold = MaxThres
     THEN slots' = {} /\ pc' = "pass"
     ELSE slots' = Window /\ pc' = IF TooMany(Cardinality(occupied')) THEN "loop" ELSE "pass"
  /\ UNCHANGED <<sfn, sensingData, it, sensed, sensedData, halted>>

(* One turn of the loop.  When the threshold has passed 0 dBm the list is   *)
(* emptied, whatever was taken away.                                        *)
Eliminate ==
  /\ Running("loop")
  /\ occupied' = Occupied
  /\ packets' = Reported
  /\ rsrpThrehold' = rsrpThrehold + 1
  /\ IF rsrpThrehold = MaxThres
     THEN slots' = {} /\ pc' = "pass"
     ELSE slots' = Window /\ pc' = IF TooMany(Cardinality(occupied')) THEN "loop" ELSE "pass"
  /\ UNCHANGED <<sfn, sensingData, it, sensed, sensedData, halted>>

(* The packets and their number go to the controller, the list to the MAC.  *)
PassSensingData ==
  /\ Running("pass")
  /\ pc' = "idle"
  /\ sensedData' = <<>> /\ rsrpThrehold' = 0 /\ occupied' = {} /\ packets' = {} /\ slots' = {}
  /\ UNCHANGED <<sfn, sensingData, it, sensed, halted>>

Stopped == halted # "no" /\ UNCHANGED vars

GetNrSlTxOpportunities == NoSensing \/ TrimSensedData \/ Eliminate \/ PassSensingData

Next ==
  \/ SlotIndication \/ UpdateSensingWindow \/ GetNrSlTxOpportunities \/ Stopped
  \/ \E sci \in Scis : DoReceiveSensingData(sci)

Spec == Init /\ [][Next]_vars

(* A selection is one call.                                                 *)
FairSpec == Spec /\ WF_vars(GetNrSlTxOpportunities)

-----------------------------------------------------------------------------
(* The variables keep their types; the data is in the order of its age.     *)
SensingTypeOK ==
  /\ sfn \in 0 .. SensWindow /\ pc \in {"idle", "update", "ask", "loop", "pass"}
  /\ \A data \in {sensingData, sensed, sensedData} :
       /\ data \in Seq(SensingData)
       /\ \A k, l \in DOMAIN data : k < l => data[k].age >= data[l].age
  /\ it \in 1 .. Len(sensingData) + 1
  /\ rsrpThrehold \in 0 .. MaxThres + 1
  /\ occupied \subseteq Window \X SubCh /\ slots \in {{}, Window}
  /\ halted \in {"no", "undefined"}

(* UpdateSensingWindow, nr-ue-mac.cc:1623: although every second outdated   *)
(* element is passed over, they do not pile up: there are never more than   *)
(* are heard in one slot.                                                   *)
FewOutdated ==
  pc # "update" =>
    Cardinality({k \in DOMAIN sensingData : sensingData[k].age > SensWindow}) <= MaxPerSlot

(* The elements that should be gone announce no candidate: no resource is   *)
(* taken away, and nothing reported, on account of an SCI older than the    *)
(* sensing window (nr-ue-mac.cc:1534-1586 and 1623).                        *)
OutdatedNeverCounts ==
  pc = "loop" => \A h \in Hits : sensedData[h.k].age <= SensWindow

(* The late elements of the history are at the end of the data, in order.   *)
LateAtEnd(data, history) ==
  \A k \in DOMAIN history : history[k].late =>
    LET j == Len(data) - (Len(history) - k)
    IN j \in DOMAIN data /\ data[j] = history[k]

(* Once the first SensWindow slots have passed the window is complete: what *)
(* was heard since then and within the window is at the end of the buffer,  *)
(* in order.                                                                *)
LateAreKept == LateAtEnd(sensingData, sensed)

(* What the controller relies on (O-Re/run.py:308-317, :395): a decoded SCI *)
(* without retransmissions is reported once for the resource it announces,  *)
(* also when the threshold was raised or a collided, stronger SCI announces *)
(* the same one; and no two are reported for one resource.                  *)
EachReportedOnce ==
  (pc = "pass" /\ \A k \in DOMAIN sensedData : sensedData[k].sci.reTx = {}) =>
    /\ \A k \in DOMAIN sensedData : ~sensedData[k].sci.corrupt =>
         Cardinality({h \in packets : h.k = k}) =
           Cardinality({s \in Window : Announces(sensedData[k], s, sensedData[k].sci.sc)})
    /\ \A g, h \in packets : g.ahead = h.ahead /\ g.sc = h.sc => g = h

(* A selection comes to an end, however crowded the window is.              *)
SelectionReturns == pc = "ask" ~> pc = "idle" \/ halted # "no"

(* nr-v2x-design.inc:225-227: the buffer "contains the sensing information  *)
(* for the interval [n - T0, n - Tproc0)", and UpdateSensingWindow removes  *)
(* only what lies outside (nr-ue-mac.h:1049).                               *)
SensedAreKept == IsSuffix(sensed, sensingData)
=============================================================================
