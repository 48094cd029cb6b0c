---------------------------- MODULE MCDumperDisks ----------------------------
(* Instances of DumperDisks for TLC.                                          *)
EXTENDS DumperDisks, TLC

Symmetry == Permutations(Connection) \cup Permutations(Handle)
=============================================================================
