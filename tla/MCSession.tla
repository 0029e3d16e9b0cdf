----------------------------- MODULE MCSession -----------------------------
(* Instances of Session for TLC.                                            *)
EXTENDS Session, TLC

CONSTANTS v, o, n, k1, k2, a1, a2

MCRoleOf ==
  [a \in Accounts |-> IF a = o THEN "other" ELSE IF a = n THEN "none" ELSE "volunteer"]
============================================================================
