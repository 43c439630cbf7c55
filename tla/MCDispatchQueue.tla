--------------------------- MODULE MCDispatchQueue ---------------------------
(* Small instances of DispatchQueue.                                       *)
EXTENDS DispatchQueue

CONSTANTS i1, i2, r1, r2, r3

\* r3 is served by the second instance.
TwoInstances == [r \in Requests |-> IF r = r3 THEN i2 ELSE i1]

=============================================================================
