----------------------- MODULE MCRuntimePersistence -----------------------
(* Results of every sign, a command of the administrator here and one      *)
(* given to another process.                                               *)
EXTENDS RuntimePersistence

CONSTANTS r1, r2, a1, p1

MCKinds ==
    [op \in Ops |-> CASE op = a1 -> {"enable"}
                      [] op = p1 -> {"disable"}
                      [] OTHER -> {"success", "failure", "quota"}]
=============================================================================
