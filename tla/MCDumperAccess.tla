--------------------------- MODULE MCDumperAccess ---------------------------
(* Instances of DumperAccess for TLC.                                        *)
EXTENDS DumperAccess, TLC

Symmetry == Permutations(Dumper) \cup Permutations(Access)
=============================================================================
