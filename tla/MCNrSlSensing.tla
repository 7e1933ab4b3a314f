---------------------------- MODULE MCNrSlSensing ----------------------------
(* Instances of NrSlSensing for TLC.                                        *)
EXTENDS NrSlSensingInv

MCSci(sc, reTx, rsrp, corrupt) ==
  [sc |-> sc, rsvp |-> SensWindow, reTx |-> reTx, rsrp |-> rsrp, corrupt |-> corrupt]

(* Decoded on each subchannel, one with a retransmission, and a collided    *)
(* one that is stronger.                                                    *)
MCScis ==
  {MCSci(0, {}, 1, FALSE), MCSci(1, {}, 2, FALSE), MCSci(0, {}, 2, TRUE),
   MCSci(1, {[gap |-> 1, sc |-> 0]}, 1, FALSE)}
=============================================================================
