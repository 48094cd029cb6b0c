------------------------------ MODULE DiskClone ------------------------------
(***************************************************************************)
(* VadpDumper.QueryAllocatedBlocks and VadpDumper.DumpCloneDisk (dumper/   *)
(* dumper.go): which areas of a disk to copy, asked of the library a       *)
(* bounded number of chunks at a time or given by the caller, and the copy *)
(* through one buffer with the handles' ReadAt and WriteAt.  Offsets are   *)
(* in bytes; a byte of the source is represented by its own offset.        *)
(***************************************************************************)
EXTENDS Integers, Sequences, Functions

CONSTANTS
    SectorSize,    \* VIXDISKLIB_SECTOR_SIZE, 512 in the code
    BlockSectors,  \* 2048 in the code: a chunk of a query, and the buffer
    MaxChunkNum,   \* VIXDISKLIB_MAX_CHUNK_NUMBER
    Sectors,       \* the sectors of the source disk
    DstCapacity,   \* the sizes that the target disk may have
    Given,         \* the DiskChangeInfo values that a caller may pass
    Zero           \* a byte that was never written

ASSUME CloneAssumption ==
    /\ {SectorSize, BlockSectors, MaxChunkNum, Sectors} \subseteq Nat \ {0}
    /\ DstCapacity \subseteq Nat
    /\ Zero \notin Nat
    /\ \A g \in Given : g.startOffset \in Nat /\ g.areas \in Seq([start : Nat, length : Nat])

Capacity == Sectors * SectorSize
BufferSize == BlockSectors * SectorSize

\* The chunks of the source; the last one may be cut short by its end.
Chunk == 0 .. (Sectors + BlockSectors - 1) \div BlockSectors - 1
ChunkOf(b) == b \div BufferSize

VARIABLES
    allocated,   \* the chunks of the source that hold data
    dst,         \* the bytes of the target
    pc,          \* "query", "area", "read", "write", "nil" or "error"
    info,        \* DiskChangeInfo: startOffset and the areas, in order
    offset,      \* QueryAllocatedBlocks: offset, in sectors
    blockCount,  \* QueryAllocatedBlocks: blockCount
    current,     \* DumpCloneDisk: the area being copied, or the first of all
    currOffset,  \* DumpCloneDisk: currOffset
    block,       \* DumpCloneDisk: block, reused from one read to the next
    buffer,      \* DumpCloneDisk: buffer, which is block or a shorter one
    readLen      \* DumpCloneDisk: readLen

queryVars == <<offset, blockCount>>
copyVars == <<current, currOffset, block, buffer, readLen>>
vars == <<allocated, dst, pc, info, queryVars, copyVars>>

Blank(len) == [i \in 1 .. len |-> Zero]

BlockCount == Sectors \div BlockSectors

\* A clone of what is allocated, or of what the caller was given.
Init ==
    /\ allocated \in SUBSET Chunk
    /\ \E size \in DstCapacity : dst = [b \in 0 .. size - 1 |-> Zero]
    /\ \/ /\ pc = "query"
          /\ info = [startOffset |-> 0, areas |-> <<>>]
          /\ blockCount = BlockCount
       \/ /\ pc = "area"
          /\ info \in Given
          /\ blockCount = 0
    /\ offset = 0
    /\ current = 1
    /\ currOffset = -1
    /\ block = Blank(BufferSize)
    /\ buffer = Blank(BufferSize)
    /\ readLen = 0

-----------------------------------------------------------------------------
(* QueryAllocatedBlocks.                                                   *)

\* The library's answer for the chunks first .. last: runs of allocated ones.
Runs(first, last) ==
    {r \in (first .. last) \X (first .. last) :
        /\ r[1] .. r[2] \subseteq allocated /\ r[1] <= r[2]
        /\ r[1] = first \/ r[1] - 1 \notin allocated
        /\ r[2] = last \/ r[2] + 1 \notin allocated}

Area(r) == [start |-> r[1] * BufferSize, length |-> (r[2] - r[1] + 1) * BufferSize]

\* The same as areas, in order: the one list that the library answers with.
BlockLists(first, last) ==
    LET runs == Runs(first, last)
        lists == UNION {[1 .. n -> runs] : n \in 0 .. last - first + 1}
        Listed(list) ==
            /\ Range(list) = runs
            /\ \A i, j \in DOMAIN list : i < j => list[i][1] < list[j][1]
    IN  {[i \in DOMAIN list |-> Area(list[i])] : list \in {l \in lists : Listed(l)}}

OnceCount == IF blockCount > MaxChunkNum THEN MaxChunkNum ELSE blockCount

\* The lists that the next query can return.
Answers ==
    LET first == offset \div BlockSectors IN BlockLists(first, first + OnceCount - 1)

\* Mutated form of Query: what was found before is not kept.
QueryForgets ==
    /\ pc = "query"
    /\ blockCount > 0
    /\ \E list \in Answers : info' = [info EXCEPT !.areas = list]
    /\ blockCount' = blockCount - OnceCount
    /\ offset' = offset + OnceCount * BlockSectors
    /\ UNCHANGED <<allocated, dst, pc, copyVars>>

\* Mutated form of Query: the next query starts at the last chunk of this one.
QueryAgain ==
    /\ pc = "query"
    /\ blockCount > 0
    /\ \E list \in Answers : info' = [info EXCEPT !.areas = @ \o list]
    /\ blockCount' = blockCount - OnceCount
    /\ offset' = offset + (OnceCount - 1) * BlockSectors
    /\ UNCHANGED <<allocated, dst, pc, copyVars>>

Query ==
    /\ pc = "query"
    /\ blockCount > 0
    /\ \E list \in Answers : info' = [info EXCEPT !.areas = @ \o list]
    /\ blockCount' = blockCount - OnceCount
    /\ offset' = offset + OnceCount * BlockSectors
    /\ UNCHANGED <<allocated, dst, pc, copyVars>>

Fail(place) ==
    /\ pc = place
    /\ pc' = "error"
    /\ UNCHANGED <<allocated, dst, info, queryVars, copyVars>>

QueryFails == blockCount > 0 /\ Fail("query")

\* QueryAllocatedBlocks returns; the caller hands ChangeInfo to DumpCloneDisk.
QueryEnds ==
    /\ pc = "query"
    /\ blockCount = 0
    /\ pc' = "area"
    /\ UNCHANGED <<allocated, dst, info, queryVars, copyVars>>

-----------------------------------------------------------------------------
(* DumpCloneDisk.                                                          *)

Start(a) == info.startOffset + a.start
MaxOffset(a) == Start(a) + a.length
Now == info.areas[current]

\* The head of the range over areas: the next one, or return nil.
NextArea ==
    /\ pc = "area"
    /\ IF current <= Len(info.areas)
       THEN pc' = "read" /\ currOffset' = Start(Now)
       ELSE pc' = "nil" /\ UNCHANGED currOffset
    /\ UNCHANGED <<allocated, dst, info, queryVars, current, block, buffer, readLen>>

\* Mutated form of AreaDone: what does not fill the buffer is left out.
AreaDoneEarly ==
    /\ pc = "read"
    /\ currOffset + BufferSize > MaxOffset(Now)
    /\ pc' = "area"
    /\ current' = current + 1
    /\ UNCHANGED <<allocated, dst, info, queryVars, currOffset, block, buffer, readLen>>

AreaDone ==
    /\ pc = "read"
    /\ currOffset >= MaxOffset(Now)
    /\ pc' = "area"
    /\ current' = current + 1
    /\ UNCHANGED <<allocated, dst, info, queryVars, currOffset, block, buffer, readLen>>

\* What ReadAt counts of len bytes at off: all but a part of a last sector
\* that it fills without counting it.
HeadLen(off, len) ==
    LET rest == SectorSize - (off % SectorSize)
    IN  IF off % SectorSize = 0 THEN 0 ELSE IF len < rest THEN len ELSE rest

\* Mutated form of ReadCount: the bytes of the first sector are not counted.
ReadCountHeadless(off, len) == ((len - HeadLen(off, len)) \div SectorSize) * SectorSize

ReadCount(off, len) ==
    LET head == HeadLen(off, len)
    IN  head + ((len - head) \div SectorSize) * SectorSize

\* What ReadAt makes of buffer p at off, sliced down at the end of the source.
ReadAt(p, off) ==
    [i \in 1 .. Len(p) |-> IF off + i - 1 < Capacity THEN off + i - 1 ELSE p[i]]

ReadLen(p, off) ==
    ReadCount(off, IF off + Len(p) > Capacity THEN Capacity - off ELSE Len(p))

Left == MaxOffset(Now) - currOffset

\* Mutated form of NextBuffer: always the whole block.
NextBufferWhole == block

NextBuffer == IF Left < BufferSize THEN Blank(Left) ELSE block

Read ==
    /\ pc = "read"
    /\ Left > 0
    /\ currOffset < Capacity
    /\ buffer' = ReadAt(NextBuffer, currOffset)
    /\ readLen' = ReadLen(NextBuffer, currOffset)
    /\ block' = IF Left < BufferSize THEN block ELSE buffer'
    /\ pc' = "write"
    /\ UNCHANGED <<allocated, dst, info, queryVars, current, currOffset>>

\* io.EOF past the end of the source, or an error of disklib.
ReadFails == pc = "read" /\ Left > 0 /\ Fail("read")

\* The target after WriteAt stored the first n bytes of the buffer.
Stored(n) ==
    [b \in DOMAIN dst |->
        IF b \in currOffset .. currOffset + n - 1 THEN buffer[b - currOffset + 1] ELSE dst[b]]

Fits == currOffset + Len(buffer) - 1 \in DOMAIN dst

\* On by what was read, whatever was written.
Write ==
    /\ pc = "write"
    /\ Fits
    /\ dst' = Stored(Len(buffer))
    /\ currOffset' = currOffset + readLen
    /\ pc' = "read"
    /\ UNCHANGED <<allocated, info, queryVars, current, block, buffer, readLen>>

\* io.ErrShortWrite, nothing stored; or an error of disklib after a part.
WriteFails ==
    \/ ~Fits /\ Fail("write")
    \/ /\ pc = "write"
       /\ Fits
       /\ \E n \in 0 .. Len(buffer) - 1 : dst' = Stored(n)
       /\ pc' = "error"
       /\ UNCHANGED <<allocated, info, queryVars, copyVars>>

Returned ==
    /\ pc \in {"nil", "error"}
    /\ UNCHANGED vars

Next ==
    \/ Query \/ QueryFails \/ QueryEnds
    \/ NextArea \/ AreaDone \/ Read \/ ReadFails \/ Write \/ WriteFails
    \/ Returned

Spec == Init /\ [][Next]_vars

\* One goroutine runs the two methods and nothing blocks it.
FairSpec == Spec /\ WF_vars(Next)

-----------------------------------------------------------------------------
(* Properties.                                                             *)

TypeOK ==
    /\ allocated \subseteq Chunk
    /\ \E size \in DstCapacity : DOMAIN dst = 0 .. size - 1
    /\ \A b \in DOMAIN dst : dst[b] \in Nat \cup {Zero}
    /\ pc \in {"query", "area", "read", "write", "nil", "error"}
    /\ info.areas \in Seq([start : Nat, length : Nat])
    /\ offset + blockCount * BlockSectors \in {0, BlockCount * BlockSectors}
    /\ current \in 1 .. Len(info.areas) + 1
    /\ currOffset \in Int
    /\ Len(block) = BufferSize /\ Len(buffer) \in 1 .. BufferSize
    /\ readLen \in 0 .. BufferSize

Bytes(a) == Start(a) .. MaxOffset(a) - 1
Areas == {info.areas[i] : i \in DOMAIN info.areas}

(* A DumpCloneDisk that returned nil has copied every byte of every area,  *)
(* though ReadAt may fill more than it counts and areas may overlap.       *)
NilMeansCopied ==
    pc = "nil" => \A a \in Areas : \A b \in Bytes(a) : dst[b] = b

(* DumpCloneDisk writes only into the areas, finished or failed, and each  *)
(* byte of the source only to its own place.  Where an area goes past the  *)
(* end of the source, and the target does too, a byte there gets what the  *)
(* buffer held before; on a target no larger WriteAt refuses that.         *)
OnlyAreasWritten ==
    \A b \in DOMAIN dst :
        dst[b] # Zero =>
            /\ \E a \in Areas : b \in Bytes(a)
            /\ dst[b] = b \/ b >= Capacity

\* QueryAllocatedBlocks has been at work.
Asked == offset > 0

\* The allocated chunks that it asked for: it leaves out a last one cut short.
Cloned == allocated \cap 0 .. BlockCount - 1

(* The clone of a disk: when all of it returned nil the target has the     *)
(* data of every whole chunk that the source had allocated, and nothing    *)
(* else, however many calls the query took: not what follows the last      *)
(* whole chunk, either, which is lost when it holds data.                  *)
CloneHasWholeChunks ==
    pc = "nil" /\ Asked =>
        \A b \in (0 .. BlockCount * BufferSize - 1) \cup DOMAIN dst :
            IF ChunkOf(b) \in Cloned
            THEN dst[b] = b
            ELSE b \in DOMAIN dst => dst[b] = Zero

(* No two areas of a query have a byte in common: no chunk is read twice.   *)
EachChunkOnce ==
    Asked =>
        \A i, j \in DOMAIN info.areas :
            i # j => Bytes(info.areas[i]) \cap Bytes(info.areas[j]) = {}

(* An area that ends at the end of a sector, or inside the sector where it *)
(* started, but not at that sector's start.                                *)
EndsCounted(a) ==
    \/ a.length = 0
    \/ MaxOffset(a) % SectorSize = 0
    \/ Start(a) % SectorSize # 0
       /\ Start(a) \div SectorSize = MaxOffset(a) \div SectorSize

(* DumpCloneDisk returns when all its areas end so; on another area ReadAt *)
(* counts nothing of the last bytes and the loop does not get past them.   *)
CloneEnds ==
    (\A a \in Areas : EndsCounted(a)) ~> pc \in {"nil", "error"}
=============================================================================
