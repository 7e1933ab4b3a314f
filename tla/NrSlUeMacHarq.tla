--------------------------- MODULE NrSlUeMacHarq ---------------------------
(***************************************************************************)
(* The sidelink HARQ entity of a UE MAC, class NrSlUeMacHarq.  Its state   *)
(* is one record: "ids" is m_nrSlHarqIdBuffer, the FIFO of the process     *)
(* ids that may be assigned; "pkt" is m_nrSlHarqPktBuffer, with the        *)
(* destination an id was assigned to and whether its packet burst holds    *)
(* the one MAC PDU of a transport block.  The operations are written as    *)
(* functions on that record, because the MAC calls several of them within  *)
(* one slot.                                                               *)
(*                                                                         *)
(* In this and the other modules a name with a suffix (Op_NotPopped) is a  *)
(* wrong variant of Op: put in its place, it breaks a property.            *)
(***************************************************************************)
EXTENDS Integers, Sequences

CONSTANTS
  Dsts,                 (* destination layer 2 ids this UE transmits to     *)
  NoDst,                (* the reset value of dstL2Id, uint32_t max         *)
  NumSidelinkProcess    (* attribute NumSidelinkProcess                     *)

ASSUME HarqAssumption ==
  /\ NoDst \notin Dsts
  /\ NumSidelinkProcess \in 1 .. 255

HarqIds == 0 .. NumSidelinkProcess - 1

EmptyPkt == [dst |-> NoDst, full |-> FALSE]

PktInfo == [dst : Dsts \union {NoDst}, full : BOOLEAN]

HarqState == [ids : Seq(HarqIds), pkt : [HarqIds -> PktInfo]]

InitHarqBuffer ==
  [ids |-> [i \in 1 .. NumSidelinkProcess |-> i - 1],
   pkt |-> [id \in HarqIds |-> EmptyPkt]]

IsHarqIdAvailable(h, id) == \E i \in DOMAIN h.ids : h.ids[i] = id

(* The id AssignNrSlHarqProcessId returns, and what it leaves behind.  The  *)
(* caller aborts when the buffer is empty.                                  *)
NextHarqId(h) == Head(h.ids)

AssignNrSlHarqProcessId_NotPopped(h, d) ==
  [h EXCEPT !.pkt[NextHarqId(h)].dst = d]

AssignNrSlHarqProcessId(h, d) ==
  [ids |-> Tail(h.ids),
   pkt |-> [h.pkt EXCEPT ![NextHarqId(h)] = [dst |-> d, full |-> @.full]]]

(* AddPacket aborts on an id of another destination, and when the burst     *)
(* gets a second packet of the only logical channel.                        *)
AddPacketAborts(h, d, id) == h.pkt[id].dst # d \/ h.pkt[id].full

AddPacket(h, id) ==
  [ids |-> h.ids,
   pkt |-> [h.pkt EXCEPT ![id] = [dst |-> @.dst, full |-> TRUE]]]

(* RecvNrSlHarqFeedback: a foreign id aborts; the id goes back to the FIFO  *)
(* and its entry is reset.  It asserts that the id is not in the FIFO yet.  *)
FeedbackAborts(h, d, id) == h.pkt[id].dst # d

RecvNrSlHarqFeedback_NotRefreshed(h, id) == [h EXCEPT !.ids = Append(@, id)]

RecvNrSlHarqFeedback_NotPutBack(h, id) == [h EXCEPT !.pkt[id] = EmptyPkt]

RecvNrSlHarqFeedback(h, id) ==
  [ids |-> Append(h.ids, id),
   pkt |-> [h.pkt EXCEPT ![id] = EmptyPkt]]

=============================================================================
