---------------------------- MODULE MCExternalPool ----------------------------
(* Small instances of ExternalPool.                                        *)
EXTENDS ExternalPool

CONSTANTS i1, i2, l1, l2, l3, p1, p2

\* l1 of i1 and l2 of i2 compete for p1; l3 of i2 is on p2.
MCOwnerOf == [l \in Leases |-> IF l = l1 THEN i1 ELSE i2]
MCPoolOf == [l \in Leases |-> IF l = l3 THEN p2 ELSE p1]

=============================================================================
