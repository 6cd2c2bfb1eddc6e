--------------------------- MODULE MCRemediation ---------------------------
(* A policy that matches every event, and two Pods of two Jobs of a CronJob, *)
(* with an event each: they are alike.  A lookup that does not find the      *)
(* CronJob gives a key of the Pod's own, that of its Job or its name.        *)
EXTENDS Remediation, TLC

CONSTANTS e1, e2, o1, o2, cronjob, p1

MCEvents   == {e1, e2}
MCPods     == {o1, o2}
MCPodOf    == [e \in MCEvents |-> IF e = e1 THEN o1 ELSE o2]
MCKeyOf    == [l \in Lookups |-> [o \in MCPods |-> IF l = "owner" THEN cronjob ELSE o]]
MCPolicies == {p1}
MCMatches  == [e \in MCEvents |-> MCPolicies]
MCEventsPerMinute == [p \in MCPolicies |-> 1]
MCCooldownMinutes == [p \in MCPolicies |-> 2]

MCSymmetry == {f \in Permutations(MCEvents \cup MCPods) :
                 \A e \in MCEvents : f[e] \in MCEvents /\ f[MCPodOf[e]] = MCPodOf[f[e]]}
=============================================================================
