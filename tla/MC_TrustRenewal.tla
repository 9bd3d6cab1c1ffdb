-------------------------- MODULE MC_TrustRenewal --------------------------
(* Instances of TrustRenewal for TLC.                                        *)
EXTENDS TrustRenewal

CONSTANTS p1, p2
=============================================================================
