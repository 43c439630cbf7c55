---------------------------- MODULE MCTokenRefresh ----------------------------
(* Small instances of TokenRefresh.                                        *)
EXTENDS TokenRefresh

CONSTANTS i1, i2, a1, a2, a3

\* a1 runs in i1, the others in i2.
MCInstanceOf == [a \in Attempts |-> IF a = a1 THEN i1 ELSE i2]
Recovering == [a \in Attempts |-> IF a = a2 THEN "forced" ELSE "recover"]
Expiring == [a \in Attempts |-> IF a = a2 THEN "forced" ELSE "auto"]
AheadOfExpiry == [a \in Attempts |-> IF a = a2 THEN "auto" ELSE "lead"]

=============================================================================
