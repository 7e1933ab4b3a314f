---------------------- MODULE SlAnnouncedTransmission ----------------------
(***************************************************************************)
(* SlBlindRetransmission with its times, which is what the receivers act   *)
(* on: when a block is sent first, the slots of all its repetitions are    *)
(* known, as many as its total says.  They are not those of another block, *)
(* and the block is sent in every one of them and in no other.             *)
(***************************************************************************)
EXTENDS SlBlindRetransmission, FiniteSets

VARIABLE
  ahead             (* per destination, how many slots from now its block   *)
                    (* will be sent again                                   *)

AnnouncedInit ==
  /\ Init
  /\ ahead = [d \in Dsts |-> {}]

(* No slot goes by in which something is still to be sent.                  *)
SlotPasses ==
  /\ NewSlot
  /\ \A d \in Dsts : 0 \notin ahead[d]
  /\ ahead' = [d \in Dsts |-> {s - 1 : s \in ahead[d]}]

Announce(d) ==
  /\ First(d)
  /\ ahead' = [ahead EXCEPT ![d] = ahead'[d]]
  /\ Cardinality(ahead'[d]) = tb'[d].total - tb'[d].sent
  /\ \A s \in ahead'[d] : s > 0
  /\ \A e \in Dsts \ {d} : 0 \notin ahead[e] /\ ahead[e] \cap ahead'[d] = {}

SendAnnounced(d) ==
  /\ Repeat(d)
  /\ 0 \in ahead[d]
  /\ ahead' = [ahead EXCEPT ![d] = @ \ {0}]

AnnouncedNext == SlotPasses \/ \E d \in Dsts : Announce(d) \/ SendAnnounced(d)

AnnouncedSpec == AnnouncedInit /\ [][AnnouncedNext]_<<inSlot, tb, ahead>>
=============================================================================
