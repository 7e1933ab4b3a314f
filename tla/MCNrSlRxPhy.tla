---------------------------- MODULE MCNrSlRxPhy ----------------------------
(* Instances of NrSlRxPhy for TLC: every UE sends at least one stream, and  *)
(* one with more of them is a UE with several destinations.                 *)
EXTENDS NrSlRxPhyInv

SentByAll == CHOOSE f \in [Streams -> Rntis] : \A r \in Rntis : \E s \in Streams : f[s] = r
=============================================================================
