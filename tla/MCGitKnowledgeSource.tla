------------------------ MODULE MCGitKnowledgeSource ------------------------
(* Two files; a commit that changes one and removes the other, and one that  *)
(* reverts the change; a second spec with another server and filter, no      *)
(* valid schedule, and a size limit.                                         *)
EXTENDS GitKnowledgeSource, TLC

CONSTANTS f1, f2, a, b, c1, c2, c3, m1, m2, s1, s2

MCTreeOf   == c1 :> (f1 :> a @@ f2 :> a)
              @@ c2 :> (f1 :> b @@ f2 :> Absent)
              @@ c3 :> (f1 :> a @@ f2 :> b)
MCServerOf == s1 :> m1 @@ s2 :> m2
MCMatching == s1 :> {f1, f2} @@ s2 :> {f1}
MCOversize == s1 :> {} @@ s2 :> {b}
=============================================================================
