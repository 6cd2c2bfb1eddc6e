-------------------------- MODULE MCDebounceBuffer --------------------------
(* Two resources of different types, so two informer handlers run at once.  *)
EXTENDS DebounceBuffer, TLC

CONSTANTS r1, r2, k1, k2

MCResources  == {r1, r2}
MCInformers  == {k1, k2}
MCInformerOf == r1 :> k1 @@ r2 :> k2
=============================================================================
