-------------------------- MODULE MC_GatewayControl --------------------------
(***************************************************************************)
(* Instances of GatewayControl for TLC.                                    *)
(***************************************************************************)
EXTENDS GatewayControl

CONSTANTS n1, n2, c1
=============================================================================
