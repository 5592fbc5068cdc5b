------------------------------ MODULE MCGuards ------------------------------
(* A small instance of Guards.  The services of recipes 31 and 32 remember *)
(* a nonce for one second more than its message is fresh.  So does the     *)
(* interceptor; the database sweeps in another second.                     *)
EXTENDS Guards, TLC

Deliveries == Permutations(Calls)

MCServices == {"interceptor", "agent", "tools", "origin"}
MCKept == [s \in MCServices |-> IF s = "interceptor" THEN 2 ELSE 1]

=============================================================================
