---------------------------- MODULE DiskCloneProofs ----------------------------
(***************************************************************************)
(* Proofs about DiskClone: the areas that QueryAllocatedBlocks collects    *)
(* are the allocated chunks, each once, and DumpCloneDisk copies what it   *)
(* was told to copy and writes nowhere else.                               *)
(***************************************************************************)
EXTENDS DiskClone, SectorArithmetic, SequenceTheorems, WellFoundedInduction

ByteValue == Nat \cup {Zero}
AreaList == Seq([start : Nat, length : Nat])

\* The chunks that the library was asked for so far.
Chunks == offset \div BlockSectors

\* The areas are those of QueryAllocatedBlocks, found already or to be found.
FromQuery == Asked \/ pc = "query"

Shape ==
    /\ allocated \subseteq Chunk
    /\ \E size \in DstCapacity : DOMAIN dst = 0 .. size - 1
    /\ dst \in [DOMAIN dst -> ByteValue]
    /\ pc \in {"query", "area", "read", "write", "nil", "error"}
    /\ info.startOffset \in Nat /\ info.areas \in AreaList
    /\ pc = "query" => info \in [startOffset : Nat, areas : AreaList]
    /\ current \in 1 .. Len(info.areas) + 1
    /\ currOffset \in Int
    /\ block \in [1 .. BufferSize -> ByteValue]
    /\ Len(buffer) \in 1 .. BufferSize
    /\ buffer \in [1 .. Len(buffer) -> ByteValue]
    /\ readLen \in 0 .. BufferSize

\* How far the query is.
Progress ==
    /\ Chunks \in Nat /\ blockCount \in Nat
    /\ offset = Chunks * BlockSectors
    /\ Chunks + blockCount \in {0, BlockCount}
    /\ FromQuery => Chunks + blockCount = BlockCount /\ info.startOffset = 0
    /\ pc \notin {"query", "error"} => blockCount = 0

\* The areas found so far are the allocated chunks asked for, in order.
Found ==
    FromQuery =>
        /\ \A i \in DOMAIN info.areas : \E p, q \in 0 .. Chunks - 1 :
              p =< q /\ p .. q \subseteq allocated /\ info.areas[i] = Area(<<p, q>>)
        /\ \A c \in allocated : c < Chunks =>
              \E i \in DOMAIN info.areas : \E p, q \in 0 .. Chunks - 1 :
                  p =< c /\ c =< q /\ info.areas[i] = Area(<<p, q>>)
        /\ \A i, j \in DOMAIN info.areas :
              i < j => info.areas[i].start + info.areas[i].length =< info.areas[j].start

\* The target has the bytes lo .. hi - 1 of the source.
CopiedTo(lo, hi) ==
    \A b \in lo .. hi - 1 : b < Capacity /\ b \in DOMAIN dst /\ dst[b] = b

\* What is done is copied: areas before the current one, and that one up to
\* currOffset.  The buffer holds what is to come.
Copying ==
    /\ pc # "error" => \A i \in 1 .. current - 1 :
          CopiedTo(Start(info.areas[i]), MaxOffset(info.areas[i]))
    /\ pc \in {"read", "write"} =>
          /\ current =< Len(info.areas)
          /\ Start(Now) =< currOffset /\ currOffset =< MaxOffset(Now)
          /\ CopiedTo(Start(Now), currOffset)
    /\ pc = "nil" => current > Len(info.areas)
    /\ pc = "write" =>
          /\ Len(buffer) =< MaxOffset(Now) - currOffset
          /\ readLen =< Len(buffer) /\ currOffset + readLen =< Capacity
          /\ \A x \in 1 .. Len(buffer) :
                currOffset + x - 1 < Capacity => buffer[x] = currOffset + x - 1

CloneInv == Shape /\ Progress /\ Found /\ Copying /\ OnlyAreasWritten

-----------------------------------------------------------------------------
(* Arithmetic of chunks, areas and counts.                                    *)

(* The sizes are positive.                                                    *)
LEMMA Sizes ==
    /\ SectorSize \in Nat \ {0} /\ BlockSectors \in Nat \ {0} /\ MaxChunkNum \in Nat \ {0}
    /\ Capacity \in Nat \ {0} /\ BufferSize \in Nat \ {0} /\ BlockCount \in Nat
    /\ Zero \notin Nat
<1>1. /\ SectorSize \in Nat \ {0} /\ BlockSectors \in Nat \ {0} /\ MaxChunkNum \in Nat \ {0}
      /\ Sectors \in Nat \ {0} /\ Zero \notin Nat
  BY CloneAssumption
<1>2. ASSUME NEW a \in Nat \ {0}, NEW b \in Nat \ {0} PROVE a * b \in Nat \ {0}
  <2>1. 1 * b =< a * b /\ a * b \in Nat
    BY Mono, SMT
  <2> QED
    BY <2>1
<1> QED
  BY <1>1, <1>2, DivMod DEF Capacity, BufferSize, BlockCount

(* An area made of the chunks p .. q.                                         *)
LEMMA AreaFacts ==
    ASSUME NEW p \in Nat, NEW q \in Nat, p =< q
    PROVE  /\ Area(<<p, q>>) \in [start : Nat, length : Nat]
           /\ Area(<<p, q>>).start = p * BufferSize
           /\ Area(<<p, q>>).start + Area(<<p, q>>).length = (q + 1) * BufferSize
<1>1. BufferSize \in Nat \ {0}
  BY Sizes
<1>2. ASSUME NEW d \in Nat PROVE d * BufferSize \in Nat
  BY <1>1, SMT
<1>3. p * BufferSize \in Nat /\ (q - p + 1) * BufferSize \in Nat
  BY <1>2
<1>4. p * BufferSize + (q - p + 1) * BufferSize = (q + 1) * BufferSize
  BY <1>1, SMT
<1> QED
  BY <1>3, <1>4 DEF Area

(* A byte is in the area of the chunks p .. q iff its chunk is one of them.   *)
LEMMA InChunks ==
    ASSUME NEW b \in Nat, NEW p \in Nat, NEW q \in Nat
    PROVE  /\ ChunkOf(b) \in Nat
           /\ p * BufferSize =< b /\ b < (q + 1) * BufferSize
                 <=> p =< ChunkOf(b) /\ ChunkOf(b) =< q
<1>1. BufferSize \in Nat \ {0}
  BY Sizes
<1> DEFINE c == b \div BufferSize
<1>2. /\ c \in Nat /\ (b % BufferSize) \in 0 .. BufferSize - 1
      /\ b = c * BufferSize + (b % BufferSize) /\ c * BufferSize \in Nat
  BY <1>1, DivMod
<1>3. ASSUME NEW d \in Int
      PROVE  d * BufferSize \in Int /\ (d + 1) * BufferSize = d * BufferSize + BufferSize
  BY <1>1, NextSector
<1>4. ASSUME p * BufferSize =< b, b < (q + 1) * BufferSize PROVE p =< c /\ c =< q
  <2>1. p * BufferSize < (c + 1) * BufferSize
    BY <1>1, <1>2, <1>3, <1>4
  <2>2. c * BufferSize < (q + 1) * BufferSize
    BY <1>1, <1>2, <1>3, <1>4
  <2>3. p + 1 =< c + 1 /\ c + 1 =< q + 1
    BY <1>1, <1>2, <2>1, <2>2, Strict
  <2> QED
    BY <1>2, <2>3
<1>5. ASSUME p =< c, c =< q PROVE p * BufferSize =< b /\ b < (q + 1) * BufferSize
  <2>1. p * BufferSize =< c * BufferSize /\ (c + 1) * BufferSize =< (q + 1) * BufferSize
    BY <1>1, <1>2, <1>5, Mono
  <2> QED
    BY <1>1, <1>2, <1>3, <2>1
<1> QED
  BY <1>2, <1>4, <1>5 DEF ChunkOf

(* What ReadAt counts is no more than it was asked for.                       *)
LEMMA CountFacts ==
    ASSUME NEW off \in Nat, NEW len \in Nat
    PROVE  ReadCount(off, len) \in 0 .. len
<1>1. SectorSize \in Nat \ {0}
  BY Sizes
<1>2. HeadLen(off, len) \in 0 .. len
  <2>1. off % SectorSize \in 0 .. SectorSize - 1
    BY <1>1, DivMod
  <2> QED
    BY <1>1, <2>1 DEF HeadLen
<1>3. len - HeadLen(off, len) \in Nat
  BY <1>2
<1>4. /\ ((len - HeadLen(off, len)) \div SectorSize) * SectorSize \in Nat
      /\ ((len - HeadLen(off, len)) \div SectorSize) * SectorSize =< len - HeadLen(off, len)
  BY <1>1, <1>3, DivMod
<1> QED
  BY <1>2, <1>4 DEF ReadCount

-----------------------------------------------------------------------------
(* What the library answers.                                                  *)

(* Of the naturals in a set that is not empty one is the least.               *)
LEMMA Least ==
    ASSUME NEW T, T \subseteq Nat, T # {}
    PROVE  \E x \in T : \A y \in T : x =< y
<1>1. PICK x \in T : \A y \in T : ~ (<<y, x>> \in OpToRel(<, Nat))
  BY WFMin, NatLessThanWellFounded
<1>2. \A y \in T : ~ (y < x)
  BY <1>1 DEF OpToRel
<1> QED
  BY <1>2

(* An allocated chunk that was asked for is in one of the runs.               *)
LEMMA RunAround ==
    ASSUME NEW first \in Nat, NEW last \in Nat, NEW c \in first .. last, c \in allocated
    PROVE  \E r \in Runs(first, last) : r[1] =< c /\ c =< r[2]
<1> DEFINE Before == {l \in Nat : first =< l /\ l =< c /\ l .. c \subseteq allocated}
           After == {m \in Nat : c =< last - m /\ c .. last - m \subseteq allocated}
<1>1. c \in Before /\ last - c \in After
  OBVIOUS
<1>2. PICK l \in Before : \A y \in Before : l =< y
  BY <1>1, Least
<1>3. PICK m \in After : \A y \in After : m =< y
  BY <1>1, Least
<1> DEFINE r == <<l, last - m>>
<1>4. r \in (first .. last) \X (first .. last) /\ r[1] = l /\ r[2] = last - m
  OBVIOUS
<1>5. r[1] .. r[2] \subseteq allocated /\ r[1] =< r[2]
  OBVIOUS
<1>6. l = first \/ l - 1 \notin allocated
  <2>1. SUFFICES ASSUME l # first, l - 1 \in allocated PROVE l - 1 \in Before
    BY <1>2
  <2> QED
    BY <2>1
<1>7. last - m = last \/ last - m + 1 \notin allocated
  <2>1. SUFFICES ASSUME m # 0, last - m + 1 \in allocated PROVE m - 1 \in After
    BY <1>3
  <2> QED
    BY <2>1
<1> QED
  BY <1>4, <1>5, <1>6, <1>7 DEF Runs

(* An answer is a list of areas, in order, of all the runs and nothing else.  *)
LEMMA AnswerFacts ==
    ASSUME NEW first \in Nat, NEW last \in Nat, NEW list \in BlockLists(first, last)
    PROVE  /\ list \in AreaList
           /\ \A i \in 1 .. Len(list) : \E r \in Runs(first, last) : list[i] = Area(r)
           /\ \A r \in Runs(first, last) : \E i \in 1 .. Len(list) : list[i] = Area(r)
           /\ \A i, j \in 1 .. Len(list) :
                 i < j => list[i].start + list[i].length =< list[j].start
<1> DEFINE runs == Runs(first, last)
<1>1. PICK n \in 0 .. last - first + 1 : \E l \in [1 .. n -> runs] :
        /\ Range(l) = runs
        /\ \A i, j \in DOMAIN l : i < j => l[i][1] < l[j][1]
        /\ list = [i \in DOMAIN l |-> Area(l[i])]
  BY DEF BlockLists
<1>2. PICK l \in [1 .. n -> runs] :
        /\ Range(l) = runs
        /\ \A i, j \in DOMAIN l : i < j => l[i][1] < l[j][1]
        /\ list = [i \in DOMAIN l |-> Area(l[i])]
  BY <1>1
<1>3. ASSUME NEW r \in runs
      PROVE  /\ r[1] \in Nat /\ r[2] \in Nat /\ r[1] =< r[2] /\ r = <<r[1], r[2]>>
             /\ first =< r[1] /\ r[2] =< last
             /\ r[1] .. r[2] \subseteq allocated
             /\ r[1] = first \/ r[1] - 1 \notin allocated
  BY DEF Runs
<1>4. DOMAIN list = 1 .. n /\ \A i \in 1 .. n : list[i] = Area(l[i])
  BY <1>2
<1>5. \A i \in 1 .. n : list[i] \in [start : Nat, length : Nat]
  BY <1>2, <1>3, <1>4, AreaFacts
<1>6. list \in [1 .. n -> [start : Nat, length : Nat]]
  BY <1>2, <1>5
<1>7. list \in AreaList /\ Len(list) = n
  <2>1. n \in Nat
    OBVIOUS
  <2>2. [i \in 1 .. n |-> list[i]] \in Seq([start : Nat, length : Nat])
    BY <1>6, <2>1
  <2>3. list = [i \in 1 .. n |-> list[i]]
    BY <1>6
  <2> QED
    BY <1>6, <2>1, <2>2, <2>3 DEF AreaList
<1>8. ASSUME NEW i \in 1 .. n, NEW j \in 1 .. n, i < j
      PROVE  list[i].start + list[i].length =< list[j].start
  <2>1. l[i] \in runs /\ l[j] \in runs /\ l[i][1] < l[j][1]
    BY <1>2, <1>8
  <2>2. l[i][2] < l[j][1]
    <3>1. SUFFICES ASSUME l[j][1] =< l[i][2] PROVE FALSE
      BY <1>3, <2>1
    <3>2. l[j][1] - 1 \in l[i][1] .. l[i][2] /\ l[j][1] # first
      BY <1>3, <2>1, <3>1
    <3> QED
      BY <1>3, <2>1, <3>2
  <2>3. (l[i][2] + 1) * BufferSize =< l[j][1] * BufferSize
    <3>1. l[i][2] + 1 \in Int /\ l[j][1] \in Int /\ l[i][2] + 1 =< l[j][1]
      BY <1>3, <2>1, <2>2
    <3> QED
      BY <3>1, Mono, Sizes
  <2> QED
    BY <1>3, <1>4, <2>1, <2>3, AreaFacts
<1> QED
  BY <1>2, <1>4, <1>7, <1>8 DEF Range

-----------------------------------------------------------------------------
(* The query.                                                                 *)

(* The strengthened invariant holds at the start.                             *)
LEMMA CloneInvInit == Init => CloneInv
<1> SUFFICES ASSUME Init PROVE CloneInv
  OBVIOUS
<1>1. Chunks = 0 /\ offset = 0 /\ BlockCount \in Nat /\ 0 * BlockSectors = 0
  <2>1. 0 * BlockSectors = 0 /\ BlockSectors \in Nat \ {0}
    BY Sizes, SMT
  <2>2. 0 \div BlockSectors = 0
    BY <2>1, DivModUnique
  <2> QED
    BY <2>2, <2>1, Sizes DEF Init, Chunks
<1>2. Len(Blank(BufferSize)) = BufferSize /\ Blank(BufferSize) \in [1 .. BufferSize -> ByteValue]
      /\ BufferSize \in Nat \ {0}
  BY Sizes DEF Blank, ByteValue
<1>3. info.startOffset \in Nat /\ info.areas \in AreaList
      /\ (pc = "query" => /\ info \in [startOffset : Nat, areas : AreaList]
                          /\ info.startOffset = 0 /\ info.areas = <<>>
                          /\ blockCount = BlockCount)
      /\ pc \in {"query", "area"} /\ (pc = "area" => blockCount = 0)
  <2>1. CASE pc = "query"
    <3>1. <<>> \in AreaList
      BY DEF AreaList
    <3> QED
      BY <2>1, <3>1 DEF Init
  <2>2. CASE pc = "area"
    BY <2>2, CloneAssumption DEF Init, AreaList
  <2> QED
    BY <2>1, <2>2 DEF Init
<1>4. \E size \in DstCapacity : dst = [b \in 0 .. size - 1 |-> Zero]
  BY DEF Init
<1>5. Shape
  <2>1. Len(info.areas) \in Nat
    BY <1>3 DEF AreaList
  <2>2. allocated \subseteq Chunk /\ current \in 1 .. Len(info.areas) + 1 /\ currOffset \in Int
        /\ readLen \in 0 .. BufferSize
    BY <1>2, <2>1 DEF Init
  <2>3. (\E size \in DstCapacity : DOMAIN dst = 0 .. size - 1) /\ dst \in [DOMAIN dst -> ByteValue]
    BY <1>4 DEF ByteValue
  <2>4. block \in [1 .. BufferSize -> ByteValue] /\ Len(buffer) \in 1 .. BufferSize
        /\ buffer \in [1 .. Len(buffer) -> ByteValue]
    BY <1>2 DEF Init
  <2> QED
    BY <1>3, <2>2, <2>3, <2>4 DEF Shape
<1>6. Progress
  BY <1>1, <1>3 DEF Progress, FromQuery, Asked
<1>7. Found
  BY <1>1, <1>3, CloneAssumption DEF Found, FromQuery, Asked, Init, Chunk
<1>8. Copying
  BY <1>3 DEF Init, Copying
<1>9. OnlyAreasWritten
  BY <1>4 DEF OnlyAreasWritten
<1> QED
  BY <1>5, <1>6, <1>7, <1>8, <1>9 DEF CloneInv

(* What a query leaves: how far it came and the list it appended.             *)
LEMMA QueryFacts ==
    ASSUME Shape, Progress, Query
    PROVE  /\ OnceCount \in 1 .. blockCount
           /\ Chunks' = Chunks + OnceCount /\ offset' = Chunks' * BlockSectors
           /\ blockCount' = blockCount - OnceCount
           /\ \E list \in BlockLists(Chunks, Chunks + OnceCount - 1) :
                 /\ info' = [info EXCEPT !.areas = @ \o list]
                 /\ info'.areas = info.areas \o list
                 /\ info'.startOffset = info.startOffset
<1>1. OnceCount \in 1 .. blockCount
  BY Sizes DEF Progress, Query, OnceCount
<1>2. Chunks \in Nat /\ BlockSectors \in Nat \ {0} /\ offset = Chunks * BlockSectors
  BY Sizes DEF Progress
<1>3. offset' = (Chunks + OnceCount) * BlockSectors
  <2>1. Chunks * BlockSectors + OnceCount * BlockSectors = (Chunks + OnceCount) * BlockSectors
    BY <1>1, <1>2, SMT
  <2> QED
    BY <1>2, <2>1 DEF Query
<1>4. (Chunks + OnceCount) * BlockSectors \in Nat
  BY <1>1, <1>2, SMT
<1>5. offset' \div BlockSectors = Chunks + OnceCount
  BY <1>1, <1>2, <1>3, <1>4, DivModUnique
<1>6. PICK list \in Answers : info' = [info EXCEPT !.areas = @ \o list]
  BY DEF Query
<1>7. list \in BlockLists(Chunks, Chunks + OnceCount - 1)
  BY <1>6 DEF Answers, Chunks
<1>8. info \in [startOffset : Nat, areas : AreaList]
  BY DEF Shape, Query
<1> QED
  BY <1>1, <1>3, <1>5, <1>6, <1>7, <1>8 DEF Query, Chunks

(* A query keeps the invariant: the new areas are the runs of the chunks it   *)
(* asked for, behind those of the chunks asked for before.                    *)
LEMMA QueryStep == CloneInv /\ Query => CloneInv'
<1> SUFFICES ASSUME CloneInv, Query PROVE CloneInv'
  OBVIOUS
<1>0. Shape /\ Progress /\ Found /\ Copying /\ OnlyAreasWritten
  BY DEF CloneInv
<1>1. /\ OnceCount \in 1 .. blockCount /\ Chunks \in Nat /\ blockCount \in Nat
      /\ Chunks' = Chunks + OnceCount /\ offset' = Chunks' * BlockSectors
      /\ blockCount' = blockCount - OnceCount
  BY <1>0, QueryFacts DEF Progress
<1> DEFINE first == Chunks
           last == Chunks + OnceCount - 1
           n == Len(info.areas)
<1>2. PICK list \in BlockLists(first, last) :
         /\ info' = [info EXCEPT !.areas = @ \o list]
         /\ info'.areas = info.areas \o list
         /\ info'.startOffset = info.startOffset
  BY <1>0, QueryFacts
<1>3. first \in Nat /\ last \in Nat /\ first = Chunks /\ last + 1 = Chunks' /\ first =< last
  BY <1>1
<1>4. /\ list \in AreaList
      /\ \A i \in 1 .. Len(list) : \E r \in Runs(first, last) : list[i] = Area(r)
      /\ \A r \in Runs(first, last) : \E i \in 1 .. Len(list) : list[i] = Area(r)
      /\ \A i, j \in 1 .. Len(list) :
            i < j => list[i].start + list[i].length =< list[j].start
  BY <1>3, AnswerFacts
<1>5. info.areas \in AreaList /\ info \in [startOffset : Nat, areas : AreaList] /\ pc = "query"
  BY <1>0 DEF Shape, Query
<1>6. /\ n \in Nat /\ Len(list) \in Nat
      /\ info'.areas \in AreaList /\ Len(info'.areas) = n + Len(list)
      /\ DOMAIN info'.areas = 1 .. n + Len(list) /\ DOMAIN info.areas = 1 .. n
      /\ \A i \in 1 .. n : info'.areas[i] = info.areas[i]
      /\ \A i \in 1 .. Len(list) : info'.areas[n + i] = list[i]
  <2> DEFINE S == [start : Nat, length : Nat]
             old == info.areas
             new == old \o list
  <2>1. old \in Seq(S) /\ list \in Seq(S)
    BY <1>4, <1>5 DEF AreaList
  <2> HIDE DEF S, old
  <2>2. /\ new \in Seq(S) /\ Len(new) = Len(old) + Len(list)
        /\ \A i \in 1 .. Len(old) + Len(list) :
              new[i] = IF i =< Len(old) THEN old[i] ELSE list[i - Len(old)]
    BY <2>1, ConcatProperties
  <2>3. Len(old) \in Nat /\ Len(list) \in Nat
        /\ DOMAIN new = 1 .. Len(new) /\ DOMAIN old = 1 .. Len(old)
    BY <2>1, <2>2, LenProperties
  <2>4. \A i \in 1 .. Len(old) : new[i] = old[i]
    BY <2>2, <2>3
  <2>5. ASSUME NEW i \in 1 .. Len(list) PROVE new[Len(old) + i] = list[i]
    BY <2>2, <2>3
  <2> QED
    BY <1>2, <2>2, <2>3, <2>4, <2>5 DEF S, old, AreaList
<1> HIDE DEF n, first, last
<1>7. /\ allocated' = allocated /\ dst' = dst /\ pc' = pc /\ current' = current
      /\ currOffset' = currOffset /\ block' = block /\ buffer' = buffer /\ readLen' = readLen
  BY DEF Query, copyVars
<1>8. Shape'
  <2>1. info' \in [startOffset : Nat, areas : AreaList]
    BY <1>2, <1>5, <1>6
  <2> QED
    BY <1>0, <1>6, <1>7, <2>1 DEF Shape, AreaList
<1>9. Progress'
  BY <1>0, <1>1, <1>2, <1>5, <1>7 DEF Progress, FromQuery
<1>10. Found'
  <2>1. FromQuery
    BY <1>5 DEF FromQuery
  <2>2. ASSUME NEW i \in 1 .. n
        PROVE  \E p, q \in 0 .. Chunks - 1 :
                  p =< q /\ p .. q \subseteq allocated /\ info.areas[i] = Area(<<p, q>>)
    BY <1>0, <1>6, <2>1 DEF Found
  <2>3. ASSUME NEW i \in 1 .. n, NEW j \in 1 .. n, i < j
        PROVE  info.areas[i].start + info.areas[i].length =< info.areas[j].start
    BY <1>0, <1>6, <2>1, <2>3 DEF Found
  <2>4. ASSUME NEW r \in Runs(first, last)
        PROVE  /\ r[1] \in first .. last /\ r[2] \in first .. last /\ r = <<r[1], r[2]>>
               /\ r[1] =< r[2] /\ r[1] .. r[2] \subseteq allocated
    BY <1>3 DEF Runs
  <2>5. ASSUME NEW i \in 1 .. n + Len(list)
        PROVE  \E p, q \in 0 .. Chunks' - 1 :
                  /\ p =< q /\ p .. q \subseteq allocated /\ info'.areas[i] = Area(<<p, q>>)
                  /\ i > n => first =< p
                  /\ i =< n => q < first
    <3>1. CASE i =< n
      <4>0. i \in 1 .. n
        BY <1>6, <3>1
      <4>1. PICK p \in 0 .. Chunks - 1, q \in 0 .. Chunks - 1 :
               p =< q /\ p .. q \subseteq allocated /\ info.areas[i] = Area(<<p, q>>)
        BY <2>2, <4>0
      <4>2. p \in 0 .. Chunks' - 1 /\ q \in 0 .. Chunks' - 1 /\ q < first /\ ~(i > n)
        BY <1>1, <1>3, <1>6, <3>1
      <4>3. info'.areas[i] = Area(<<p, q>>)
        BY <1>6, <3>1, <4>1
      <4> QED
        BY <4>1, <4>2, <4>3
    <3>2. CASE i > n
      <4>1. i - n \in 1 .. Len(list) /\ n + (i - n) = i
        BY <1>6, <3>2
      <4>2. PICK r \in Runs(first, last) : list[i - n] = Area(r)
        BY <1>4, <4>1
      <4>3. r[1] \in 0 .. Chunks' - 1 /\ r[2] \in 0 .. Chunks' - 1
        BY <1>3, <1>1, <2>4
      <4>4. info'.areas[i] = Area(<<r[1], r[2]>>)
        BY <1>6, <2>4, <4>1, <4>2
      <4> QED
        BY <1>6, <2>4, <3>2, <4>3, <4>4
    <3>3. i =< n \/ i > n
      BY <1>6
    <3> QED
      BY <3>1, <3>2, <3>3, Zenon
  <2>6. ASSUME NEW c \in allocated, c < Chunks'
        PROVE  \E i \in 1 .. n + Len(list) : \E p, q \in 0 .. Chunks' - 1 :
                  p =< c /\ c =< q /\ info'.areas[i] = Area(<<p, q>>)
    <3>0. c \in Nat
      BY <1>0 DEF Shape, Chunk
    <3>1. CASE c < first
      <4>1. PICK i \in 1 .. n : \E p, q \in 0 .. Chunks - 1 :
               p =< c /\ c =< q /\ info.areas[i] = Area(<<p, q>>)
        BY <1>3, <1>0, <1>6, <2>1, <3>1 DEF Found
      <4>2. \A p \in 0 .. Chunks - 1 : p \in 0 .. Chunks' - 1
        BY <1>1
      <4>3. i \in 1 .. n + Len(list)
        BY <1>6
      <4> QED
        BY <1>6, <4>1, <4>2, <4>3
    <3>2. CASE c >= first
      <4>1. c \in first .. last
        BY <1>3, <1>1, <2>6, <3>0, <3>2
      <4>2. PICK r \in Runs(first, last) : r[1] =< c /\ c =< r[2]
        BY <1>3, <4>1, RunAround
      <4>3. PICK i \in 1 .. Len(list) : list[i] = Area(r)
        BY <1>4
      <4>4. n + i \in 1 .. n + Len(list) /\ info'.areas[n + i] = Area(<<r[1], r[2]>>)
        BY <1>6, <2>4, <4>3
      <4>5. r[1] \in 0 .. Chunks' - 1 /\ r[2] \in 0 .. Chunks' - 1
        BY <1>3, <1>1, <2>4
      <4> QED
        BY <4>2, <4>4, <4>5
    <3>3. c < first \/ c >= first
      BY <1>3, <3>0
    <3> QED
      BY <3>1, <3>2, <3>3
  <2>7. ASSUME NEW i \in 1 .. n + Len(list), NEW j \in 1 .. n + Len(list), i < j
        PROVE  info'.areas[i].start + info'.areas[i].length =< info'.areas[j].start
    <3>1. CASE j =< n
      <4>1. i \in 1 .. n /\ j \in 1 .. n
        BY <1>6, <2>7, <3>1
      <4>2. info'.areas[i] = info.areas[i] /\ info'.areas[j] = info.areas[j]
        BY <1>6, <4>1
      <4> QED
        BY <2>7, <2>3, <4>1, <4>2
    <3>2. CASE i > n
      <4>1. /\ i - n \in 1 .. Len(list) /\ n + (i - n) = i
            /\ j - n \in 1 .. Len(list) /\ n + (j - n) = j /\ i - n < j - n
        BY <1>6, <2>7, <3>2
      <4> QED
        BY <1>4, <1>6, <4>1
    <3>3. CASE i =< n /\ j > n
      <4>1. PICK p, q \in 0 .. Chunks' - 1 :
               p =< q /\ q < first /\ info'.areas[i] = Area(<<p, q>>)
        BY <2>5, <3>3
      <4>2. PICK s, e \in 0 .. Chunks' - 1 :
               s =< e /\ first =< s /\ info'.areas[j] = Area(<<s, e>>)
        BY <2>5, <3>3
      <4>3. p \in Nat /\ q \in Nat /\ s \in Nat /\ e \in Nat /\ q + 1 =< s
        BY <1>3, <1>1, <4>1, <4>2
      <4>4. (q + 1) * BufferSize =< s * BufferSize
        BY <4>3, Mono, Sizes
      <4> QED
        BY <1>3, <4>1, <4>2, <4>3, <4>4, AreaFacts
    <3> QED
      BY <1>6, <3>1, <3>2, <3>3
  <2> QED
    BY <1>6, <1>7, <2>5, <2>6, <2>7 DEF Found
<1>11. Copying'
  <2>1. \A i \in 1 .. current - 1 : info'.areas[i] = info.areas[i]
    BY <1>0, <1>6 DEF Shape
  <2> QED
    BY <1>0, <1>2, <1>5, <1>7, <2>1 DEF Copying, CopiedTo, Start, MaxOffset
<1>12. OnlyAreasWritten'
  <2>1. \A a \in Areas : a \in Areas' /\ Start(a)' = Start(a) /\ MaxOffset(a)' = MaxOffset(a)
    BY <1>2, <1>6 DEF Areas, Start, MaxOffset
  <2> QED
    BY <1>0, <1>7, <2>1 DEF OnlyAreasWritten, Bytes
<1> QED
  BY <1>8, <1>9, <1>10, <1>11, <1>12 DEF CloneInv

-----------------------------------------------------------------------------
(* The copy.                                                                  *)

(* What the copy knows of the query stays: the areas are settled.             *)
LEMMA QueryKept ==
    ASSUME Progress, Found, UNCHANGED <<allocated, info, queryVars>>,
           pc' = "query" => pc = "query",
           pc' \notin {"query", "error"} => blockCount = 0
    PROVE  Progress' /\ Found'
<1>1. FromQuery' => FromQuery
  BY DEF FromQuery, Asked, queryVars
<1> QED
  BY <1>1 DEF Progress, Found, Chunks, queryVars

(* What was copied stays when the target is written where the source has it.  *)
LEMMA CopiedStays ==
    ASSUME NEW lo, NEW hi, CopiedTo(lo, hi), DOMAIN dst' = DOMAIN dst,
           \A b \in DOMAIN dst : b < Capacity => dst'[b] \in {dst[b], b}
    PROVE  CopiedTo(lo, hi)'
BY DEF CopiedTo, Capacity

(* In a read or a write the current area and the place in it are sound.       *)
LEMMA NowFacts ==
    ASSUME Shape, Copying, pc \in {"read", "write"}
    PROVE  /\ Now \in [start : Nat, length : Nat] /\ Now \in Areas
           /\ current \in DOMAIN info.areas
           /\ Start(Now) \in Nat /\ MaxOffset(Now) \in Nat /\ currOffset \in Nat
           /\ Start(Now) =< currOffset /\ currOffset =< MaxOffset(Now)
<1>1. info.areas \in AreaList /\ info.startOffset \in Nat /\ currOffset \in Int
      /\ current \in 1 .. Len(info.areas) + 1 /\ current =< Len(info.areas)
  BY DEF Shape, Copying
<1>2. current \in DOMAIN info.areas /\ Now \in [start : Nat, length : Nat]
  <2>1. info.areas \in Seq([start : Nat, length : Nat])
    BY <1>1 DEF AreaList
  <2>2. Len(info.areas) \in Nat /\ DOMAIN info.areas = 1 .. Len(info.areas)
    BY <2>1, LenProperties
  <2>3. current \in 1 .. Len(info.areas)
    BY <1>1, <2>2
  <2> QED
    BY <2>1, <2>2, <2>3, ElementOfSeq DEF Now
<1>3. Start(Now) \in Nat /\ MaxOffset(Now) \in Nat
  BY <1>1, <1>2 DEF Start, MaxOffset
<1> QED
  BY <1>1, <1>2, <1>3 DEF Copying, Areas, Now

(* What a write of n bytes does to the target.                                *)
LEMMA StoredFacts ==
    ASSUME CloneInv, pc = "write", Fits, NEW n \in 0 .. Len(buffer), dst' = Stored(n),
           info' = info
    PROVE  /\ DOMAIN dst' = DOMAIN dst /\ dst' \in [DOMAIN dst -> ByteValue]
           /\ \A b \in DOMAIN dst : b < Capacity => dst'[b] \in {dst[b], b}
           /\ \A b \in currOffset .. currOffset + n - 1 :
                 b < Capacity => b \in DOMAIN dst /\ dst'[b] = b
           /\ OnlyAreasWritten'
<1>0. Shape /\ Copying /\ OnlyAreasWritten
  BY DEF CloneInv
<1>1. /\ Now \in Areas /\ Start(Now) \in Nat /\ MaxOffset(Now) \in Nat /\ currOffset \in Nat
      /\ Start(Now) =< currOffset
  BY <1>0, NowFacts
<1>2. /\ Len(buffer) \in Nat /\ Len(buffer) =< MaxOffset(Now) - currOffset
      /\ \A x \in 1 .. Len(buffer) :
            currOffset + x - 1 < Capacity => buffer[x] = currOffset + x - 1
      /\ \A x \in 1 .. Len(buffer) : buffer[x] \in ByteValue
  BY <1>0, Sizes DEF Shape, Copying
<1>3. PICK size \in Nat : DOMAIN dst = 0 .. size - 1
  BY <1>0, CloneAssumption DEF Shape
<1>4. DOMAIN dst' = DOMAIN dst
  BY DEF Stored
<1>5. ASSUME NEW b \in DOMAIN dst, b \notin currOffset .. currOffset + n - 1
      PROVE  dst'[b] = dst[b]
  BY <1>5 DEF Stored
<1>6. ASSUME NEW b \in currOffset .. currOffset + n - 1
      PROVE  /\ b \in DOMAIN dst /\ dst'[b] \in ByteValue /\ b \in Bytes(Now)
             /\ b < Capacity => dst'[b] = b
  <2>1. b \in DOMAIN dst
    BY <1>1, <1>2, <1>3 DEF Fits
  <2>2. b - currOffset + 1 \in 1 .. Len(buffer) /\ b \in Int
    BY <1>1, <1>2
  <2>3. dst'[b] = buffer[b - currOffset + 1]
    BY <2>1 DEF Stored
  <2>4. currOffset + (b - currOffset + 1) - 1 = b
    BY <1>1, <2>2
  <2>5. b \in Bytes(Now)
    BY <1>1, <1>2, <2>2, Sizes DEF Bytes
  <2> QED
    BY <1>2, <2>1, <2>2, <2>3, <2>4, <2>5
<1>7. \A b \in DOMAIN dst : dst[b] \in ByteValue
  BY <1>0 DEF Shape
<1>8. dst' \in [DOMAIN dst -> ByteValue]
  <2>1. \A b \in DOMAIN dst : dst'[b] \in ByteValue
    BY <1>5, <1>6, <1>7
  <2>2. dst' = [b \in DOMAIN dst |-> dst'[b]]
    BY DEF Stored
  <2> QED
    BY <2>1, <2>2
<1>9. OnlyAreasWritten'
  <2>1. Areas' = Areas
    BY DEF Areas
  <2>2. ASSUME NEW b \in DOMAIN dst, dst'[b] # Zero
        PROVE  /\ \E a \in Areas : b \in Bytes(a)
               /\ dst'[b] = b \/ b >= Capacity
    <3>1. CASE b \in currOffset .. currOffset + n - 1
      <4>1. b < Capacity \/ b >= Capacity
        BY <1>3, Sizes
      <4> QED
        BY <1>1, <1>6, <3>1, <4>1
    <3>2. CASE b \notin currOffset .. currOffset + n - 1
      BY <1>0, <1>5, <2>2, <3>2 DEF OnlyAreasWritten
    <3> QED
      BY <3>1, <3>2
  <2> QED
    BY <1>4, <2>1, <2>2 DEF OnlyAreasWritten, Bytes, MaxOffset, Start, Capacity
<1>10. \A b \in DOMAIN dst : b < Capacity => dst'[b] \in {dst[b], b}
  BY <1>5, <1>6
<1> QED
  BY <1>4, <1>6, <1>8, <1>9, <1>10

(* What a read leaves: the piece of the source that comes next.               *)
LEMMA ReadFacts ==
    ASSUME CloneInv, Read
    PROVE  /\ Len(buffer') \in 1 .. BufferSize
           /\ buffer' \in [1 .. Len(buffer') -> ByteValue]
           /\ block' \in [1 .. BufferSize -> ByteValue]
           /\ readLen' \in 0 .. BufferSize
           /\ Len(buffer') =< MaxOffset(Now) - currOffset
           /\ readLen' =< Len(buffer') /\ currOffset + readLen' =< Capacity
           /\ \A x \in 1 .. Len(buffer') :
                 currOffset + x - 1 < Capacity => buffer'[x] = currOffset + x - 1
<1>0. Shape /\ Copying /\ pc = "read" /\ Left > 0 /\ currOffset < Capacity
  BY DEF CloneInv, Read
<1>1. MaxOffset(Now) \in Nat /\ currOffset \in Nat
  BY <1>0, NowFacts
<1>2. Left \in Nat \ {0} /\ BufferSize \in Nat \ {0} /\ Capacity \in Nat
  BY <1>0, <1>1, Sizes DEF Left
<1>3. block \in [1 .. BufferSize -> ByteValue] /\ Len(block) = BufferSize
  BY <1>0, <1>2 DEF Shape
<1> DEFINE p == NextBuffer
           len == Len(p)
<1>4. /\ len \in 1 .. BufferSize /\ len =< Left
      /\ p \in [1 .. len -> ByteValue]
      /\ Left >= BufferSize => len = BufferSize
  <2>1. CASE Left < BufferSize
    <3>1. p = [i \in 1 .. Left |-> Zero]
      BY <2>1 DEF NextBuffer, Blank
    <3>2. len = Left
      BY <1>2, <3>1
    <3> QED
      BY <1>2, <2>1, <3>1, <3>2 DEF ByteValue
  <2>2. CASE Left >= BufferSize
    <3>1. p = block
      BY <1>2, <2>2 DEF NextBuffer
    <3> QED
      BY <1>2, <1>3, <2>2, <3>1
  <2> QED
    BY <1>2, <2>1, <2>2
<1> HIDE DEF p, len
<1>5. buffer' = [i \in 1 .. len |-> IF currOffset + i - 1 < Capacity THEN currOffset + i - 1 ELSE p[i]]
  BY DEF Read, ReadAt, p, len
<1>6. Len(buffer') = len /\ buffer' \in [1 .. len -> ByteValue]
  BY <1>1, <1>4, <1>5 DEF ByteValue
<1>7. readLen' \in 0 .. len /\ currOffset + readLen' =< Capacity
  <2> DEFINE rest == IF currOffset + len > Capacity THEN Capacity - currOffset ELSE len
  <2>1. rest \in Nat /\ rest =< len /\ currOffset + rest =< Capacity
    BY <1>0, <1>1, <1>2, <1>4
  <2>2. readLen' = ReadCount(currOffset, rest)
    BY DEF Read, ReadLen, p, len
  <2> HIDE DEF rest
  <2>3. readLen' \in 0 .. rest
    BY <1>1, <2>1, <2>2, CountFacts
  <2>4. len \in Nat
    BY <1>2, <1>4
  <2>5. readLen' \in Nat /\ readLen' =< rest /\ readLen' =< len
    BY <2>1, <2>3, <2>4
  <2>6. currOffset + readLen' =< Capacity
    <3>1. \A a, b, c, d \in Nat : a + b =< d /\ c =< b => a + c =< d
      OBVIOUS
    <3>2. currOffset \in Nat /\ rest \in Nat /\ readLen' \in Nat /\ Capacity \in Nat
      BY <1>1, <1>2, <2>1, <2>5
    <3>3. currOffset + rest =< Capacity /\ readLen' =< rest
      BY <2>1, <2>5
    <3> QED
      BY <3>1, <3>2, <3>3
  <2> QED
    BY <2>4, <2>5, <2>6
<1>8. block' \in [1 .. BufferSize -> ByteValue]
  <2>1. block' = IF Left < BufferSize THEN block ELSE buffer'
    BY DEF Read
  <2> QED
    BY <1>2, <1>3, <1>4, <1>6, <2>1
<1> QED
  BY <1>2, <1>4, <1>5, <1>6, <1>7, <1>8 DEF Left

(* A step that fails, or ends the query, or is taken after the return.        *)
LEMMA EndStep ==
    ASSUME CloneInv, UNCHANGED <<allocated, dst, info, queryVars, copyVars>>,
           \/ pc' = "error"
           \/ pc = "query" /\ pc' = "area" /\ blockCount = 0
           \/ pc' = pc
    PROVE  CloneInv'
<1>0. Shape /\ Progress /\ Found /\ Copying /\ OnlyAreasWritten
  BY DEF CloneInv
<1>1. Progress' /\ Found'
  BY <1>0, QueryKept DEF Progress
<1>2. Shape'
  BY <1>0 DEF Shape, copyVars
<1>3. Copying'
  BY <1>0 DEF Copying, CopiedTo, Start, MaxOffset, Now, copyVars, Capacity
<1>4. OnlyAreasWritten'
  BY <1>0 DEF OnlyAreasWritten, Areas, Bytes, Start, MaxOffset, Capacity
<1> QED
  BY <1>1, <1>2, <1>3, <1>4 DEF CloneInv

(* The copy goes on to an area, or is done with all of them.                  *)
LEMMA NextAreaStep == CloneInv /\ NextArea => CloneInv'
<1> SUFFICES ASSUME CloneInv, NextArea PROVE CloneInv'
  OBVIOUS
<1>0. Shape /\ Progress /\ Found /\ Copying /\ OnlyAreasWritten
  BY DEF CloneInv
<1>1. UNCHANGED <<allocated, dst, info, queryVars, current, block, buffer, readLen>> /\ pc = "area"
      /\ pc' \in {"read", "nil"}
  BY DEF NextArea
<1>2. Progress' /\ Found'
  BY <1>0, <1>1, QueryKept DEF Progress
<1>3. Len(info.areas) \in Nat /\ current \in 1 .. Len(info.areas) + 1
      /\ info.startOffset \in Nat
  BY <1>0 DEF Shape, AreaList
<1>4. current =< Len(info.areas) =>
          /\ info.areas[current] \in [start : Nat, length : Nat]
          /\ Start(Now) \in Nat /\ Start(Now) =< MaxOffset(Now)
  <2>1. SUFFICES ASSUME current =< Len(info.areas)
        PROVE  info.areas[current] \in [start : Nat, length : Nat]
    BY <1>3 DEF Start, MaxOffset, Now
  <2>2. current \in 1 .. Len(info.areas) /\ info.areas \in Seq([start : Nat, length : Nat])
    BY <1>0, <1>3, <2>1 DEF Shape, AreaList
  <2> QED
    BY <2>2, ElementOfSeq
<1>5. Shape'
  BY <1>0, <1>1, <1>4 DEF Shape, NextArea
<1>6. Copying'
  <2>1. CASE current =< Len(info.areas)
    <3>1. pc' = "read" /\ currOffset' = Start(Now)
      BY <2>1 DEF NextArea
    <3>2. CopiedTo(Start(Now), Start(Now))
      BY <1>4, <2>1 DEF CopiedTo
    <3> QED
      BY <1>0, <1>1, <1>3, <1>4, <2>1, <3>1, <3>2
      DEF Copying, CopiedTo, Start, MaxOffset, Now, Capacity
  <2>2. CASE ~(current =< Len(info.areas))
    <3>1. pc' = "nil"
      BY <2>2 DEF NextArea
    <3> QED
      BY <1>0, <1>1, <1>3, <2>2, <3>1 DEF Copying, CopiedTo, Start, MaxOffset, Capacity
  <2> QED
    BY <2>1, <2>2
<1>7. OnlyAreasWritten'
  BY <1>0, <1>1 DEF OnlyAreasWritten, Areas, Bytes, Start, MaxOffset, Capacity
<1> QED
  BY <1>2, <1>5, <1>6, <1>7 DEF CloneInv

(* The copy of an area is done: all of it is copied.                          *)
LEMMA AreaDoneStep == CloneInv /\ AreaDone => CloneInv'
<1> SUFFICES ASSUME CloneInv, AreaDone PROVE CloneInv'
  OBVIOUS
<1>0. Shape /\ Progress /\ Found /\ Copying /\ OnlyAreasWritten
  BY DEF CloneInv
<1>1. /\ UNCHANGED <<allocated, dst, info, queryVars, currOffset, block, buffer, readLen>>
      /\ pc = "read" /\ pc' = "area" /\ current' = current + 1
      /\ currOffset >= MaxOffset(Now)
  BY DEF AreaDone
<1>2. Progress' /\ Found'
  BY <1>0, <1>1, QueryKept DEF Progress
<1>3. Len(info.areas) \in Nat /\ current \in 1 .. Len(info.areas) + 1
      /\ current =< Len(info.areas)
  BY <1>0, <1>1 DEF Shape, Copying, AreaList
<1>4. Shape'
  BY <1>0, <1>1, <1>3 DEF Shape
<1>5. Copying'
  <2>1. currOffset = MaxOffset(Now)
    BY <1>0, <1>1, NowFacts
  <2>2. CopiedTo(Start(Now), MaxOffset(Now))
    BY <1>0, <1>1, <2>1 DEF Copying
  <2>3. ASSUME NEW i \in 1 .. current
        PROVE  CopiedTo(Start(info.areas[i]), MaxOffset(info.areas[i]))
    BY <1>0, <1>1, <1>3, <2>2 DEF Copying, Now
  <2>4. 1 .. current' - 1 = 1 .. current
    BY <1>1, <1>3
  <2> QED
    BY <1>1, <2>3, <2>4 DEF Copying, CopiedTo, Start, MaxOffset, Capacity
<1>6. OnlyAreasWritten'
  BY <1>0, <1>1 DEF OnlyAreasWritten, Areas, Bytes, Start, MaxOffset, Capacity
<1> QED
  BY <1>2, <1>4, <1>5, <1>6 DEF CloneInv

(* The buffer is filled from the source.                                      *)
LEMMA ReadStep == CloneInv /\ Read => CloneInv'
<1> SUFFICES ASSUME CloneInv, Read PROVE CloneInv'
  OBVIOUS
<1>0. Shape /\ Progress /\ Found /\ Copying /\ OnlyAreasWritten
  BY DEF CloneInv
<1>1. UNCHANGED <<allocated, dst, info, queryVars, current, currOffset>>
      /\ pc = "read" /\ pc' = "write"
  BY DEF Read
<1>2. Progress' /\ Found'
  BY <1>0, <1>1, QueryKept DEF Progress
<1>3. Shape'
  BY <1>0, <1>1, ReadFacts DEF Shape
<1>4. Now' = Now /\ MaxOffset(Now)' = MaxOffset(Now) /\ Start(Now)' = Start(Now)
  BY <1>1 DEF Now, MaxOffset, Start
<1>5. Copying'
  <2>1. \A lo, hi : CopiedTo(lo, hi)' <=> CopiedTo(lo, hi)
    BY <1>1 DEF CopiedTo, Capacity
  <2>2. \A i \in 1 .. current' - 1 :
           CopiedTo(Start(info.areas[i]), MaxOffset(info.areas[i]))'
    BY <1>0, <1>1 DEF Copying, CopiedTo, Start, MaxOffset, Capacity
  <2>3. /\ current' =< Len(info.areas)'
        /\ Start(Now)' =< currOffset' /\ currOffset' =< MaxOffset(Now)'
        /\ CopiedTo(Start(Now), currOffset)'
    BY <1>0, <1>1, <1>4 DEF Copying, CopiedTo, Capacity
  <2>4. /\ Len(buffer)' =< MaxOffset(Now)' - currOffset'
        /\ readLen' =< Len(buffer)' /\ currOffset' + readLen' =< Capacity
        /\ \A x \in 1 .. Len(buffer)' :
              currOffset' + x - 1 < Capacity => buffer'[x] = currOffset' + x - 1
    BY <1>1, <1>4, ReadFacts
  <2> QED
    BY <1>1, <2>2, <2>3, <2>4 DEF Copying, Capacity
<1>6. OnlyAreasWritten'
  BY <1>0, <1>1 DEF OnlyAreasWritten, Areas, Bytes, Start, MaxOffset, Capacity
<1> QED
  BY <1>2, <1>3, <1>5, <1>6 DEF CloneInv

(* The buffer is written: what was counted is copied, and nothing is undone.  *)
LEMMA WriteStep == CloneInv /\ Write => CloneInv'
<1> SUFFICES ASSUME CloneInv, Write PROVE CloneInv'
  OBVIOUS
<1>0. Shape /\ Progress /\ Found /\ Copying /\ OnlyAreasWritten
  BY DEF CloneInv
<1>1. /\ UNCHANGED <<allocated, info, queryVars, current, block, buffer, readLen>>
      /\ pc = "write" /\ pc' = "read" /\ Fits /\ currOffset' = currOffset + readLen
      /\ dst' = Stored(Len(buffer))
  BY DEF Write
<1>2. Progress' /\ Found'
  BY <1>0, <1>1, QueryKept DEF Progress
<1>3. Len(buffer) \in Nat /\ Len(buffer) \in 0 .. Len(buffer)
      /\ readLen \in Nat /\ readLen =< Len(buffer) /\ currOffset + readLen =< Capacity
      /\ Len(buffer) =< MaxOffset(Now) - currOffset /\ Capacity \in Nat
  BY <1>0, <1>1, Sizes DEF Shape, Copying
<1>4. /\ DOMAIN dst' = DOMAIN dst /\ dst' \in [DOMAIN dst -> ByteValue]
      /\ \A b \in DOMAIN dst : b < Capacity => dst'[b] \in {dst[b], b}
      /\ \A b \in currOffset .. currOffset + Len(buffer) - 1 :
            b < Capacity => b \in DOMAIN dst /\ dst'[b] = b
      /\ OnlyAreasWritten'
  BY <1>1, <1>3, StoredFacts
<1>5. /\ Start(Now) \in Nat /\ MaxOffset(Now) \in Nat /\ currOffset \in Nat
      /\ Start(Now) =< currOffset /\ currOffset =< MaxOffset(Now)
  BY <1>0, <1>1, NowFacts
<1>6. currOffset' \in Nat /\ Start(Now) =< currOffset' /\ currOffset' =< MaxOffset(Now)
  BY <1>1, <1>3, <1>5
<1>7. Shape'
  BY <1>0, <1>1, <1>4, <1>6 DEF Shape
<1>8. Copying'
  <2>1. \A lo, hi : CopiedTo(lo, hi) => CopiedTo(lo, hi)'
    BY <1>4, CopiedStays
  <2>2. ASSUME NEW i \in 1 .. current - 1
        PROVE  CopiedTo(Start(info.areas[i]), MaxOffset(info.areas[i]))'
    <3>1. CopiedTo(Start(info.areas[i]), MaxOffset(info.areas[i]))
      BY <1>0, <1>1 DEF Copying
    <3> QED
      BY <1>1, <1>4, <3>1 DEF CopiedTo, Start, MaxOffset, Capacity
  <2>3. Now' = Now /\ MaxOffset(Now)' = MaxOffset(Now) /\ Start(Now)' = Start(Now)
    BY <1>1 DEF Now, MaxOffset, Start
  <2>4. ASSUME NEW b \in Start(Now) .. currOffset' - 1
        PROVE  b < Capacity /\ b \in DOMAIN dst' /\ dst'[b] = b
    <3>1. CASE b < currOffset
      <4>1. b \in Start(Now) .. currOffset - 1
        BY <1>5, <1>6, <3>1
      <4>2. b < Capacity /\ b \in DOMAIN dst /\ dst[b] = b
        BY <1>0, <1>1, <4>1 DEF Copying, CopiedTo
      <4> QED
        BY <1>4, <4>2
    <3>2. CASE b >= currOffset
      <4>1. b \in currOffset .. currOffset + Len(buffer) - 1 /\ b < Capacity
        BY <1>1, <1>3, <1>5, <1>6, <3>2
      <4> QED
        BY <1>4, <4>1
    <3> QED
      BY <1>5, <1>6, <3>1, <3>2
  <2>5. CopiedTo(Start(Now), currOffset)'
    BY <2>3, <2>4 DEF CopiedTo, Capacity
  <2>6. current =< Len(info.areas)
    BY <1>0, <1>1 DEF Copying
  <2> QED
    BY <1>1, <1>6, <2>2, <2>3, <2>5, <2>6 DEF Copying
<1> QED
  BY <1>2, <1>4, <1>7, <1>8 DEF CloneInv

(* A write that fails leaves the part of its bytes that it stored.            *)
LEMMA WriteFailsStep == CloneInv /\ WriteFails => CloneInv'
<1> SUFFICES ASSUME CloneInv, WriteFails PROVE CloneInv'
  OBVIOUS
<1>0. Shape /\ Progress /\ Found /\ Copying
  BY DEF CloneInv
<1>1. CASE Fail("write")
  BY <1>1, EndStep DEF Fail
<1>2. ASSUME pc = "write", Fits, NEW n \in 0 .. Len(buffer) - 1, dst' = Stored(n),
             pc' = "error", UNCHANGED <<allocated, info, queryVars, copyVars>>
      PROVE  CloneInv'
  <2>1. n \in 0 .. Len(buffer)
    BY <1>0, Sizes DEF Shape
  <2>2. DOMAIN dst' = DOMAIN dst /\ dst' \in [DOMAIN dst -> ByteValue] /\ OnlyAreasWritten'
    BY <1>2, <2>1, StoredFacts
  <2>3. Progress' /\ Found'
    BY <1>0, <1>2, QueryKept
  <2>4. Shape'
    BY <1>0, <1>2, <2>2 DEF Shape, copyVars
  <2>5. Copying'
    BY <1>2 DEF Copying
  <2> QED
    BY <2>2, <2>3, <2>4, <2>5 DEF CloneInv
<1> QED
  BY <1>1, <1>2 DEF WriteFails

(* The strengthened invariant is kept by every step.                          *)
LEMMA CloneInvStep == CloneInv /\ [Next]_vars => CloneInv'
<1> SUFFICES ASSUME CloneInv, [Next]_vars PROVE CloneInv'
  OBVIOUS
<1>1. CASE QueryFails \/ QueryEnds \/ ReadFails \/ Returned \/ UNCHANGED vars
  BY <1>1, EndStep DEF QueryFails, QueryEnds, ReadFails, Returned, Fail, vars
<1> QED
  BY <1>1, QueryStep, NextAreaStep, AreaDoneStep, ReadStep, WriteStep, WriteFailsStep DEF Next

(* The strengthened invariant holds in every state.                           *)
LEMMA AlwaysCloneInv == Spec => []CloneInv
BY CloneInvInit, CloneInvStep, PTL DEF Spec

-----------------------------------------------------------------------------
(* The types: the areas, the buffers and the counts stay in their ranges, and *)
(* the chunks asked for and those to be asked for are all the chunks.         *)
THEOREM TypeCorrect == Spec => []TypeOK
<1>1. CloneInv => TypeOK
  <2> SUFFICES ASSUME CloneInv PROVE TypeOK
    OBVIOUS
  <2>1. Shape /\ Progress
    BY DEF CloneInv
  <2>2. offset + blockCount * BlockSectors \in {0, BlockCount * BlockSectors}
    <3>1. Chunks \in Nat /\ blockCount \in Nat /\ BlockSectors \in Nat /\ 0 * BlockSectors = 0
      BY <2>1, Sizes, SMT DEF Progress
    <3>2. Chunks * BlockSectors + blockCount * BlockSectors = (Chunks + blockCount) * BlockSectors
      BY <3>1, SMT
    <3> QED
      BY <2>1, <3>1, <3>2 DEF Progress
  <2>3. Len(block) = BufferSize
    BY <2>1, Sizes DEF Shape
  <2> QED
    BY <2>1, <2>2, <2>3 DEF Shape, TypeOK, ByteValue, AreaList
<1> QED
  BY <1>1, AlwaysCloneInv, PTL

(* All the areas are done when the copy returns nil.                          *)
LEMMA DoneMeansCopied == CloneInv => NilMeansCopied
<1> SUFFICES ASSUME CloneInv, pc = "nil", NEW a \in Areas, NEW b \in Bytes(a)
    PROVE  dst[b] = b
  BY DEF NilMeansCopied
<1>1. Shape /\ Copying
  BY DEF CloneInv
<1>2. PICK i \in DOMAIN info.areas : a = info.areas[i]
  BY DEF Areas
<1>3. i \in 1 .. current - 1
  <2>1. info.areas \in Seq([start : Nat, length : Nat])
    BY <1>1 DEF Shape, AreaList
  <2>2. DOMAIN info.areas = 1 .. Len(info.areas) /\ Len(info.areas) \in Nat
    BY <2>1, LenProperties
  <2> QED
    BY <1>1, <2>2 DEF Shape, Copying
<1>4. CopiedTo(Start(a), MaxOffset(a))
  BY <1>1, <1>2, <1>3 DEF Copying
<1> QED
  BY <1>4 DEF CopiedTo, Bytes

(* A clone that returned nil has copied every byte of every area.             *)
THEOREM Copied == Spec => []NilMeansCopied
BY DoneMeansCopied, AlwaysCloneInv, PTL

(* The copy writes only into the areas, each byte to its own place.           *)
THEOREM WritesOnlyAreas == Spec => []OnlyAreasWritten
<1>1. CloneInv => OnlyAreasWritten
  BY DEF CloneInv
<1> QED
  BY <1>1, AlwaysCloneInv, PTL

(* The areas of a query are apart, so no chunk is read twice.                 *)
THEOREM ChunksOnce == Spec => []EachChunkOnce
<1>1. CloneInv => EachChunkOnce
  <2> SUFFICES ASSUME CloneInv, Asked,
                      NEW i \in DOMAIN info.areas, NEW j \in DOMAIN info.areas, i # j,
                      NEW b \in Bytes(info.areas[i]), b \in Bytes(info.areas[j])
      PROVE  FALSE
    BY DEF EachChunkOnce
  <2>1. Shape /\ Found /\ FromQuery
    BY DEF CloneInv, FromQuery
  <2>2. info.areas \in Seq([start : Nat, length : Nat])
    BY <2>1 DEF Shape, AreaList
  <2>3. i \in Nat /\ j \in Nat /\ info.areas[i] \in [start : Nat, length : Nat]
        /\ info.areas[j] \in [start : Nat, length : Nat] /\ info.startOffset \in Nat
    <3>1. DOMAIN info.areas = 1 .. Len(info.areas) /\ Len(info.areas) \in Nat
      BY <2>2, LenProperties
    <3>2. \A m \in 1 .. Len(info.areas) : info.areas[m] \in [start : Nat, length : Nat]
      BY <2>2, ElementOfSeq
    <3>3. i \in 1 .. Len(info.areas) /\ j \in 1 .. Len(info.areas)
      BY <3>1
    <3>4. info.startOffset \in Nat
      BY <2>1 DEF Shape
    <3> QED
      BY <3>1, <3>2, <3>3, <3>4
  <2>4. ASSUME NEW m \in DOMAIN info.areas, NEW n \in DOMAIN info.areas, m < n
        PROVE  info.areas[m].start + info.areas[m].length =< info.areas[n].start
    BY <2>1, <2>4 DEF Found
  <2>5. i < j \/ j < i
    BY <2>3
  <2> QED
    BY <2>3, <2>4, <2>5 DEF Bytes, Start, MaxOffset
<1> QED
  BY <1>1, AlwaysCloneInv, PTL

(* A clone of all that is allocated has every whole allocated chunk, and      *)
(* nothing else: no data of other chunks, nor what follows the last whole one.*)
THEOREM WholeChunks == Spec => []CloneHasWholeChunks
<1>1. CloneInv => CloneHasWholeChunks
  <2> SUFFICES ASSUME CloneInv, pc = "nil", Asked,
                      NEW b \in (0 .. BlockCount * BufferSize - 1) \cup DOMAIN dst
      PROVE  IF ChunkOf(b) \in Cloned
             THEN dst[b] = b
             ELSE b \in DOMAIN dst => dst[b] = Zero
    BY DEF CloneHasWholeChunks
  <2>1. Shape /\ Progress /\ Found /\ FromQuery /\ OnlyAreasWritten
    BY DEF CloneInv, FromQuery
  <2>2. Chunks = BlockCount /\ info.startOffset = 0 /\ BlockCount \in Nat
    BY <2>1, Sizes DEF Progress
  <2>3. BufferSize \in Nat \ {0} /\ BlockCount * BufferSize \in Nat /\ b \in Nat
    <3>1. BufferSize \in Nat \ {0} /\ BlockCount * BufferSize \in Nat
      BY <2>2, Sizes, SMT
    <3>2. PICK size \in DstCapacity : DOMAIN dst = 0 .. size - 1
      BY <2>1 DEF Shape
    <3> QED
      BY <3>1, <3>2, CloneAssumption
  <2>5. CASE ChunkOf(b) \in Cloned
    <3>0. ChunkOf(b) \in allocated /\ ChunkOf(b) \in Nat /\ ChunkOf(b) < BlockCount
      BY <2>2, <2>5 DEF Cloned
    <3>1. PICK i \in DOMAIN info.areas : \E p, q \in 0 .. Chunks - 1 :
             p =< ChunkOf(b) /\ ChunkOf(b) =< q /\ info.areas[i] = Area(<<p, q>>)
      BY <2>1, <2>2, <3>0 DEF Found
    <3>2. PICK p, q \in 0 .. Chunks - 1 :
             p =< ChunkOf(b) /\ ChunkOf(b) =< q /\ info.areas[i] = Area(<<p, q>>)
      BY <3>1
    <3>3. p \in Nat /\ q \in Nat /\ p =< q
      BY <2>2, <3>0, <3>2
    <3>4. p * BufferSize =< b /\ b < (q + 1) * BufferSize
      BY <2>3, <3>2, <3>3, InChunks
    <3>5. /\ info.areas[i] \in [start : Nat, length : Nat]
          /\ info.areas[i].start =< b /\ b < info.areas[i].start + info.areas[i].length
      BY <3>2, <3>3, <3>4, AreaFacts
    <3>6. b \in Bytes(info.areas[i])
      BY <2>2, <2>3, <3>5 DEF Bytes, Start, MaxOffset
    <3> QED
      BY <2>5, <3>6, DoneMeansCopied DEF NilMeansCopied, Areas
  <2>6. CASE ChunkOf(b) \notin Cloned
    <3>1. SUFFICES ASSUME b \in DOMAIN dst, dst[b] # Zero PROVE FALSE
      BY <2>6
    <3>2. PICK i \in DOMAIN info.areas : b \in Bytes(info.areas[i])
      BY <2>1, <3>1 DEF OnlyAreasWritten, Areas
    <3>3. PICK p, q \in 0 .. Chunks - 1 :
             p =< q /\ p .. q \subseteq allocated /\ info.areas[i] = Area(<<p, q>>)
      BY <2>1 DEF Found
    <3>4. p \in Nat /\ q \in Nat
      BY <2>2, <3>3
    <3>5. /\ info.areas[i] \in [start : Nat, length : Nat]
          /\ info.areas[i].start = p * BufferSize
          /\ info.areas[i].start + info.areas[i].length = (q + 1) * BufferSize
      BY <3>3, <3>4, AreaFacts
    <3>6. info.areas[i].start =< b /\ b < info.areas[i].start + info.areas[i].length
      BY <2>2, <2>3, <3>2, <3>5 DEF Bytes, Start, MaxOffset
    <3>7. ChunkOf(b) \in p .. q
      BY <2>3, <3>4, <3>5, <3>6, InChunks
    <3> QED
      BY <2>2, <2>6, <3>3, <3>4, <3>7 DEF Cloned
  <2> QED
    BY <2>5, <2>6
<1> QED
  BY <1>1, AlwaysCloneInv, PTL
=============================================================================
