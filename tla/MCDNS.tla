---------------------------------- MODULE MCDNS ----------------------------------
(* Small instances of DNS, in which nothing tells the shadow services apart.     *)
EXTENDS DNS, TLC

ShadowSymmetry == Permutations(Shadow)
==================================================================================
