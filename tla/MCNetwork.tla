----------------------------- MODULE MCNetwork -----------------------------
(***************************************************************************)
(* Small instances of Network.                                             *)
(***************************************************************************)
EXTENDS Network

CONSTANTS d1, d2, s1, s2        (* model values: descriptors, tasks        *)
=============================================================================
