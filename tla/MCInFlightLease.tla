--------------------------- MODULE MCInFlightLease ---------------------------
(* Small instances of InFlightLease.                                       *)
EXTENDS InFlightLease

CONSTANTS i1, i2, c1, c2, l1, l2, l3

\* l1 and l2 compete for account c1 from two instances, l3 is on c2.
MCCredOf == [l \in Leases |-> IF l = l3 THEN c2 ELSE c1]
MCOwnerOf == [l \in Leases |-> IF l = l2 THEN i2 ELSE i1]
MCWeight == [l \in Leases |-> IF l = l1 THEN 2 ELSE 1]

\* i2, which may outlive i1, serves two requests that do not fit together.
LateOwnerOf == [l \in Leases |-> IF l = l1 THEN i1 ELSE i2]
LateWeight == [l \in Leases |-> IF l = l2 THEN 2 ELSE 1]

=============================================================================
