---------------------------- MODULE MCDiskSession ----------------------------
(* Instances of DiskSession for TLC: two sessions share a virtual machine and *)
(* an identity, a third one is on its own.                                    *)
EXTENDS DiskSession, TLC

CONSTANTS s1, s2, s3, vm1, vm2

ThreeSessions == (s1 :> vm1) @@ (s2 :> vm1) @@ (s3 :> vm2)
OneSession == s1 :> vm1

Symmetry == Permutations(Connection) \cup Permutations(Handle)
=============================================================================
