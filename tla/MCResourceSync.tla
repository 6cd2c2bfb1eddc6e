--------------------------- MODULE MCResourceSync ---------------------------
(* One changing resource among others; all contents have the same labels, so *)
(* that no handler reports an update; an old and a new watcher.              *)
EXTENDS ResourceSync

CONSTANTS r1, c1, c2, s1, s2, w1, w2

MCResources == {r1}
MCLabelsOf  == [c \in Contents |-> c1]
MCSpecs     == {s1, s2}
MCWatchers  == {w1, w2}
=============================================================================
