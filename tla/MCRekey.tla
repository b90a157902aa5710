------------------------------ MODULE MCRekey ------------------------------
(* Two hosts and up to two rotations, each cut short anywhere and followed *)
(* by another run of either kind.                                          *)
EXTENDS Rekey
============================================================================
