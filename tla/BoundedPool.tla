----------------------------- MODULE BoundedPool ------------------------------
(***************************************************************************)
(* What the coordination of an external pool promises: of the requests     *)
(* that were given a lease, never more than the limits allow are running   *)
(* upstream, over all processes; a lease starts one request at most, and a *)
(* request that has ended does not run again.                              *)
(***************************************************************************)
EXTENDS Naturals, FiniteSets

CONSTANTS Leases, PoolOf, PoolLimit, GlobalLimit

VARIABLES running, ended

InPool(p, S) == {l \in S : PoolOf[l] = p}

Init == running = {} /\ ended = {}

\* One lease at a time starts; many may end at once, as a process dies.
Start(l) ==
    /\ l \notin running \cup ended
    /\ Cardinality(InPool(PoolOf[l], running)) < PoolLimit
    /\ GlobalLimit > 0 => Cardinality(running) < GlobalLimit
    /\ running' = running \cup {l}
    /\ UNCHANGED ended

End(S) ==
    /\ running' = running \ S
    /\ ended' = ended \cup S

Next == (\E l \in Leases : Start(l)) \/ (\E S \in SUBSET Leases : End(S))

Spec == Init /\ [][Next]_<<running, ended>>

=============================================================================
