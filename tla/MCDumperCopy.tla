----------------------------- MODULE MCDumperCopy -----------------------------
(* Instances for TLC of what a VadpDumper copies from one disk to another:    *)
(* its data (DiskClone) or its metadata (DiskMetadata), as the caller wants.  *)
EXTENDS DiskClone, DiskMetadata, TLC

CONSTANTS k1, k2, blank, short, long

A(start, length) == [start |-> start, length |-> length]
List(startOffset, areas) == [startOffset |-> startOffset, areas |-> areas]

\* Sectors of two bytes, a buffer of two sectors, a source of seven: three
\* whole chunks and a part of a fourth.  The areas: out of order and
\* overlapping; off the sectors; moved by startOffset, and empty; past the end
\* of the source; ends that ReadAt does not count.
Lists ==
    {List(0, <<A(6, 6), A(2, 6)>>),
     List(0, <<A(1, 9), A(3, 1), A(12, 2)>>),
     List(2, <<A(0, 0), A(4, 8)>>),
     List(0, <<A(4, 4), A(12, 8)>>),
     List(0, <<A(4, 4), A(12, 3)>>),
     List(0, <<A(0, 7)>>),
     List(1, <<A(0, 1), A(2, 6)>>)}

Sizes == (short :> 1) @@ (long :> 2)

\* None, one, two or three keys, with equal and different values.
Metadata ==
    {(k1 :> p[1]) @@ (k2 :> p[2]) @@ (blank :> b) :
        p \in {<<NoValue, NoValue>>, <<long, NoValue>>, <<short, short>>,
               <<short, long>>, <<long, short>>},
        b \in {NoValue, long}}

\* The callers in src/; a disk that is no snapshot, by a session; both a
\* virtual machine and a disk.
ParamSets ==
    {OpenFCD, SetRemoteConnParams, SetLocalConnParams,
     {"fcdId", "ds", "serverName", "thumbPrint", "cookie"},
     {"vmxSpec", "fcdId", "ds", "cookie", "password"}}

VARIABLE job

copyingVars == <<job, vars, metaVars>>

\* The job that is not done: a clone that returned, no metadata.
NoClone ==
    /\ allocated = {} /\ pc = "nil"
    /\ \E size \in DstCapacity :
          dst = [b \in 0 .. size - 1 |-> Zero] /\ \A other \in DstCapacity : size <= other
    /\ info = [startOffset |-> 0, areas |-> <<>>]
    /\ offset = 0 /\ blockCount = 0
    /\ current = 1 /\ currOffset = -1 /\ readLen = 0
    /\ block = Blank(BufferSize) /\ buffer = block

CopyInit ==
    /\ MetaInit
    /\ \/ job = "clone" /\ Init /\ source = target
       \/ job = "metadata" /\ NoClone

Cloning == job = "clone" /\ Next /\ UNCHANGED <<job, metaVars>>
Saving == job = "metadata" /\ Steps /\ UNCHANGED <<job, vars>>
Around == job = "metadata" /\ (Save \/ Change \/ OtherBinding) /\ UNCHANGED <<job, vars>>
Saved ==
    job = "metadata" /\ at \in Outcome /\ stage = "out" /\ UNCHANGED copyingVars

CopyNext == Cloning \/ Saving \/ Around \/ Saved
CopySpec ==
    CopyInit /\ [][CopyNext]_copyingVars
    /\ WF_copyingVars(Cloning) /\ WF_copyingVars(Saving)
=============================================================================
