----------------------------- MODULE MCSolution -----------------------------
(* A solution, created again at times, and a resource in its and in another namespace. *)
EXTENDS Solution

CONSTANTS web, deployment, service
=============================================================================
