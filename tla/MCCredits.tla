------------------------------ MODULE MCCredits ------------------------------
(* Small instances of Credits for TLC: two plans of 3 and 5 credits a day. *)
EXTENDS Credits, TLC

MCPlan == {"free", "premium"}
MCAllowance == [p \in MCPlan |-> IF p = "free" THEN 3 ELSE 5]
=============================================================================
