--------------------------- MODULE MCOReSelection ---------------------------
(* Instances of OReSelection for TLC.                                       *)
EXTENDS OReSelectionInv

MCRow(n, rc, nSe) == [n |-> n, rc |-> rc, nSe |-> nSe]

(* One row of each kind.                                                    *)
MCTables ==
  {<<MCRow(4, 0, 0), MCRow(3, 1, 0), MCRow(2, 1, 0), MCRow(2, 2, 0), MCRow(0, 0, 2)>>}

(* The length of the table for a low density of UEs.                        *)
ShortTables == {<<MCRow(2, 0, 0), MCRow(0, 0, 2)>>}

MCPackets(slots, zones, counters, sides) ==
  [ahead : slots, sc : SubCh, rc : counters, zone : zones, side : sides]

Pairs(ps) == {{p, q} : p, q \in ps}

(* Up to two packets of different kinds, and two from far away on each side.*)
Mixed ==
  {{}} \cup Pairs(MCPackets(Window, {1, 3}, {0, 2}, {-1, 1}))
       \cup Pairs(MCPackets(Window, {3}, {1}, {-1, 0, 1}))

Crowded ==
  {left \cup right : left \in Pairs(MCPackets({T1, T1 + 1, T2}, {3}, {0}, {-1})),
                     right \in Pairs(MCPackets({T1, T1 + 1, T2}, {3}, {0}, {1}))}

MCHeard == {ps \in Mixed \cup Crowded : OnePerResource(ps)}

(* Nothing, a resource, or one or two full slots.                           *)
MCOccupancies ==
  {{}} \cup {{<<s, 0>>} : s \in Window} \cup {{s} \X SubCh : s \in Window}
    \cup {{T1, T1 + 1} \X SubCh}

OReLoads == {[ore |-> TRUE, need |-> 1, maxNumPerReserve |-> 1, mayFilter |-> FALSE]}

MCLoads == OReLoads \cup
  {[ore |-> FALSE, need |-> need, maxNumPerReserve |-> 2, mayFilter |-> TRUE] : need \in {1, 2}}
=============================================================================
