------------------------------ MODULE MCCooldowns ------------------------------
(* One unit is backoffFloor, 30 s: a rate limit without a hint cools for two.   *)
(* The ceiling of 6 h and the distance to midnight are scaled down, keeping     *)
(* their order: rate limit < ceiling < quota.                                   *)
EXTENDS Cooldowns, TLC

MCKind == {"rate_limit", "quota", "auth"}
MCBase == [k \in MCKind |-> CASE k = "rate_limit" -> 2 [] k = "auth" -> 1 [] k = "quota" -> 4]

Interchangeable == Permutations(Model)
=============================================================================
