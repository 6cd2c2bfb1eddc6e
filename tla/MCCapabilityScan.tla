-------------------------- MODULE MCCapabilityScan --------------------------
(* An old and a new activation; the second spec's filters exclude r1.        *)
EXTENDS CapabilityScan, TLC

CONSTANTS r1, s1, s2, w1, w2

MCScanned == s1 :> Resources @@ s2 :> Resources \ {r1}
MCStates  == {w1, w2}
=============================================================================
