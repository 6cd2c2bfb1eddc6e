----------------------- MODULE MCCooldownPersistence -----------------------
(* Two policies with a key each: the cooldowns of one are longer than the  *)
(* minimum, those of the other are exactly as long and never marked.        *)
EXTENDS CooldownPersistence

CONSTANTS k1, k2, p1, p2

MCKeys     == {k1, k2}
MCPolicies == {p1, p2}
MCPolicyOf == [k \in MCKeys |-> IF k = k1 THEN p1 ELSE p2]
MCCooldown == [p \in MCPolicies |-> IF p = p1 THEN 3 ELSE 2]
=============================================================================
