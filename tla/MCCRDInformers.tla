--------------------------- MODULE MCCRDInformers ---------------------------
(* A custom resource, served in one version or the other, and a built-in     *)
(* resource, which the discovery may leave out.                              *)
EXTENDS CRDInformers

CONSTANTS crontabs, deployments, v1, v2
=============================================================================
