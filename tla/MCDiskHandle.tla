---------------------------- MODULE MCDiskHandle ----------------------------
(* Instances of DiskHandle for TLC.                                         *)
EXTENDS DiskHandle, TLC

R(off, len) == [kind |-> "read", off |-> off, len |-> len]
W(off, len) == [kind |-> "write", off |-> off, len |-> len]

\* Three sectors of three bytes.  Writes: inside one sector; two edges; head
\* and two whole sectors; empty but misaligned; aligned over two sectors; past
\* the end.  Reads: head, middle and tail; head and a last whole sector, sliced
\* down at the end of the disk; past the end.
MixedRequests ==
    {W(1, 1), W(2, 3), W(2, 7), W(4, 0), W(3, 6), W(8, 2),
     R(1, 7), R(5, 5), R(10, 1)}

\* Two sectors of two bytes.
FewRequests == {W(1, 1), W(1, 3), W(0, 2), R(1, 2), R(0, 4), W(3, 2)}

\* An aligned write and a misaligned one that share sector 0, and a read.
ClashingRequests == {W(1, 1), W(0, 2), W(1, 2), R(1, 2)}

Symmetry == Permutations(Thread)
=============================================================================
