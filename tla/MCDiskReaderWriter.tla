-------------------------- MODULE MCDiskReaderWriter --------------------------
(* Instances of DiskReaderWriter for TLC: sectors of two bytes.               *)
EXTENDS DiskReaderWriter, TLC

Cursor(op, len) == [op |-> op, len |-> len]
SeekTo(off, whence) == [op |-> "seek", offset |-> off, whence |-> whence]
At(kind, off, len) == [kind |-> kind, off |-> off, len |-> len]

CursorCalls ==
    {Cursor("read", 2), Cursor("read", 3), Cursor("write", 3),
     SeekTo(0, "SeekStart"), SeekTo(5, "SeekStart"), SeekTo(-1, "SeekCurrent"),
     SeekTo(0, "SeekEnd")}

DirectCalls == {At("write", 1, 2), At("write", 2, 2)}

\* Tidy calls: the misaligned ones among the cursor's writes, of five bytes at
\* offset 0 or 1, rewrite the first and the last of three sectors, and the
\* aligned write of the handle goes to the sector between.
TidyCursorCalls ==
    {Cursor("read", 3), Cursor("write", 5), SeekTo(0, "SeekStart")}

TidyDirectCalls == {At("read", 1, 1), At("write", 1, 4), At("write", 2, 2)}

\* Every request that a cursor call can make of the handle, and the direct ones.
Requests ==
    {At(c.op, o, c.len) : c \in {d \in CursorCall : d.op # "seek"}, o \in 0 .. MaxOffset}
    \cup DirectCall

Symmetry == Permutations(Thread)
=============================================================================
