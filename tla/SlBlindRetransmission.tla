----------------------- MODULE SlBlindRetransmission -----------------------
(***************************************************************************)
(* What the sidelink MAC of a UE promises to its receivers, whatever it    *)
(* does inside with grants, counters and HARQ ids: at most one transport   *)
(* block is on the air in a slot, and a block that was sent once is sent   *)
(* as often as announced, always under the same HARQ id, which no other    *)
(* destination uses meanwhile, before the next block of its destination.   *)
(***************************************************************************)
EXTENDS Integers

CONSTANTS Dsts, Ids, NoId,
          Totals    (* how often a block may be sent                        *)

VARIABLES
  inSlot,           (* destinations sent to in the current slot             *)
  tb                (* per destination, the block that has sendings left    *)

NoTb == [id |-> NoId, sent |-> 0, total |-> 0]

Init ==
  /\ inSlot = {}
  /\ tb = [d \in Dsts |-> NoTb]

NewSlot == inSlot' = {} /\ UNCHANGED tb

Send(d, id, sent, total) ==
  /\ inSlot = {} /\ inSlot' = {d}
  /\ tb' = [tb EXCEPT ![d] = IF sent = total THEN NoTb
                              ELSE [id |-> id, sent |-> sent, total |-> total]]

First(d) ==
  /\ tb[d] = NoTb
  /\ \E id \in Ids, total \in Totals :
       /\ \A e \in Dsts : tb[e].id # id
       /\ Send(d, id, 1, total)

Repeat(d) ==
  /\ tb[d] # NoTb
  /\ Send(d, tb[d].id, tb[d].sent + 1, tb[d].total)

Next == NewSlot \/ \E d \in Dsts : First(d) \/ Repeat(d)

Spec == Init /\ [][Next]_<<inSlot, tb>>
=============================================================================
