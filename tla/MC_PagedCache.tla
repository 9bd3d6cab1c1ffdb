---------------------------- MODULE MC_PagedCache ----------------------------
(* Instances of PagedCache for TLC: sessions that speculate.                 *)
EXTENDS PagedCache

CONSTANTS s1, s2

\* The second prompt goes on from the page the first leaves open.
Prompts == {<<1>>, <<1, 2, 2>>}
=============================================================================
