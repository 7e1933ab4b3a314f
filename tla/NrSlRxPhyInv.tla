--------------------------- MODULE NrSlRxPhyInv ---------------------------
(***************************************************************************)
(* The inductive invariant of NrSlRxPhy, checked by TLC and used by the    *)
(* proofs.                                                                 *)
(***************************************************************************)
EXTENDS NrSlRxPhy

(* The transmissions of a block that are still to come: numbered in the     *)
(* order of their slots, none missing up to the last.                       *)
InOrder(b) ==
  /\ \A x, y \in b.allocs : x.tx < y.tx => x.sfn < y.sfn
  /\ \A x, y \in b.allocs : x.tx = y.tx => x = y
  /\ \A x \in b.allocs : x.tx < b.n /\ x.sfn <= Window
  /\ \A x \in b.allocs : \A k \in x.tx .. b.n - 1 : \E y \in b.allocs : y.tx = k

(* Between two slots only slots to come are left.                           *)
Ahead(k) == k >= IF pc = "idle" THEN 1 ELSE 0

SlotsApart(s, t) == \A a \in tb[s].allocs, b \in tb[t].allocs : a.sfn # b.sfn

(* An announcement that is not past is kept: the UE sends in that slot, and *)
(* without an SCI.                                                          *)
Backed(g) ==
  \E s \in Streams : \E a \in tb[s].allocs :
    RntiOf[s] = g.rnti /\ a.sfn = g.sfn /\ ~TxSci1A(a)

(* While SCIs are received, those to come are of UEs not expected yet.      *)
SciPending(s) ==
  /\ s \in Streams
  /\ \E a \in Now(s) : TxSci1A(a)
  /\ RntiOf[s] \notin expected

RxInv ==
  /\ RxTypeOK
  /\ halted = "no"
  /\ \A s \in Streams : InOrder(tb[s]) /\ \A a \in tb[s].allocs : Ahead(a.sfn)
  /\ \A s \in Streams : \A t \in OtherStreams(s) : SlotsApart(s, t)
  /\ \A i \in DOMAIN slRxGrants : Ahead(slRxGrants[i].sfn) => Backed(slRxGrants[i])
  /\ pc = "pscch" => /\ \A r \in expected : SendersOf(r) # {}
                     /\ \A s \in todo : SciPending(s)
  /\ pc = "pssch" => todo \subseteq Rntis
=============================================================================
