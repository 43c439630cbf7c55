-------------------------- MODULE MCSchedulerView --------------------------
(* One account, on which this process and another instance each take a     *)
(* lease; the steps of a sync touch the accounts of its snapshot one by    *)
(* one and independently.                                                  *)
EXTENDS SchedulerView

CONSTANTS c1, o1, f1

MCCredOf == [l \in Own \cup Foreign |-> c1]
=============================================================================
