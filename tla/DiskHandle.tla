------------------------------ MODULE DiskHandle ------------------------------
(***************************************************************************)
(* DiskConnectHandle.ReadAt and WriteAt (pkg/virtual_disks/gvddk.go): byte *)
(* addressed reads and writes on a disk that VDDK serves in whole sectors. *)
(* A call that is not sector aligned takes the handle's mutex and does a   *)
(* read/modify/write of its first and last sector; an aligned call takes   *)
(* no lock.  Any number of goroutines share one handle.                    *)
(*                                                                         *)
(* Disk contents are bytes at flat addresses.  What a byte holds is its    *)
(* provenance, the write request and the index in that request's buffer it *)
(* came from, so a byte put in the wrong place shows.                      *)
(*                                                                         *)
(* Outside src/ and assumed of VDDK: one sector is read or written         *)
(* atomically, a call on several sectors does them one at a time, and a    *)
(* call that fails may have done any number of its sectors.                *)
(***************************************************************************)
EXTENDS Integers

CONSTANTS
    SectorSize,   \* disklib.VIXDISKLIB_SECTOR_SIZE, in bytes
    Sectors,      \* info.Capacity, in sectors
    Thread,       \* the goroutines that share the handle
    NoThread,     \* the owner of an unlocked mutex
    Request,      \* the ReadAt and WriteAt calls the goroutines make
    Zero          \* what the disk holds before the first write

(* Offsets are not negative, as io.ReaderAt and io.WriterAt require, and a *)
(* buffer is shorter than 2^31 bytes: ReadAt converts to int32.            *)
ASSUME DiskAssumption ==
    /\ SectorSize \in Nat \ {0}
    /\ Sectors \in Nat
    /\ NoThread \notin Thread
    /\ Request \subseteq [kind : {"read", "write"}, off : Nat, len : Nat]
    /\ Zero \notin [req : Request, idx : Nat]

Capacity == Sectors * SectorSize
Byte == 0 .. Capacity - 1
SectorByte == 0 .. SectorSize - 1

Datum == {Zero} \cup [req : Request, idx : Nat]
NoRequest == [kind |-> "none", off |-> 0, len |-> 0]
Nothing == [i \in {} |-> Zero]
NoBuffer == [x \in SectorByte |-> Zero]

VARIABLES
    disk,         \* the bytes of the disk
    mutex,        \* the goroutine that holds DiskConnectHandle.mutex
    pc,           \* where each goroutine is in ReadAt or WriteAt
    req,          \* the call each goroutine makes
    startSector,  \* the local variables startSector, total, tmpBuf and err
    total,
    tmpBuf,
    err,
    k,            \* the sectors done of the VDDK call on the middle part
    moved,        \* history: the bytes of p read or written by this call
    last          \* history: what was last stored at each byte by its writer

locals == <<startSector, total, tmpBuf, err, k>>
vars == <<disk, mutex, pc, req, startSector, total, tmpBuf, err, k, moved, last>>

-----------------------------------------------------------------------------
(* The checks at the top of ReadAt and WriteAt, and the size of the parts. *)

Aligned(len, off) == len % SectorSize = 0 /\ off % SectorSize = 0

Rejected(r) ==
    IF r.kind = "read" THEN r.off >= Capacity ELSE r.off + r.len > Capacity

\* len(p): ReadAt slices the buffer down at the end of the disk.
PLen(r) ==
    IF r.kind = "read" /\ r.off + r.len > Capacity THEN Capacity - r.off
                                                   ELSE r.len

Locks(r) == ~Aligned(PLen(r), r.off)

HeadOff(r) == r.off % SectorSize

\* Mutated form of HeadLen: the clamp to len(p) is forgotten.
HeadLenUnclamped(r) == SectorSize - HeadOff(r)

HeadLen(r) ==
    LET room == SectorSize - HeadOff(r)
    IN  IF room > PLen(r) THEN PLen(r) ELSE room

\* Mutated form of NextPart: a last whole sector is taken for a tail.
NextPartStrict(rest) ==
    IF rest > SectorSize THEN "mid" ELSE IF rest > 0 THEN "tail" ELSE "ret"

NextPart(rest) ==
    IF rest >= SectorSize THEN "mid" ELSE IF rest > 0 THEN "tail" ELSE "ret"

FirstPart(r) == IF HeadOff(r) # 0 THEN "head" ELSE NextPart(PLen(r))

-----------------------------------------------------------------------------
(* The piece of the disk and of p that goroutine t is working on: Count(t) *)
(* bytes from byte From(t) of sector Sector(t), and from index Index(t).   *)

InHead(t) == pc[t] \in {"head", "headWrite"}
InTail(t) == pc[t] \in {"tail", "tailWrite"}

Rest(t) == PLen(req[t]) - total[t]
NumSectors(t) == Rest(t) \div SectorSize

Base(t) == (startSector[t] + k[t]) * SectorSize
From(t) == IF InHead(t) THEN HeadOff(req[t]) ELSE 0
Count(t) ==
    IF InHead(t) THEN HeadLen(req[t])
    ELSE IF InTail(t) THEN Rest(t) ELSE SectorSize
Index(t) == total[t] + k[t] * SectorSize

Piece(t) == Base(t) + From(t) .. Base(t) + From(t) + Count(t) - 1
Indices(t) == Index(t) .. Index(t) + Count(t) - 1
OwnDatum(t, b) == [req |-> req[t], idx |-> Index(t) + b - (Base(t) + From(t))]
SectorOf(t) == Base(t) .. Base(t) + SectorSize - 1

-----------------------------------------------------------------------------
Init ==
    /\ disk = [b \in Byte |-> Zero]
    /\ mutex = NoThread
    /\ pc = [t \in Thread |-> "idle"]
    /\ req = [t \in Thread |-> NoRequest]
    /\ startSector = [t \in Thread |-> 0]
    /\ total = [t \in Thread |-> 0]
    /\ tmpBuf = [t \in Thread |-> NoBuffer]
    /\ err = [t \in Thread |-> "nil"]
    /\ k = [t \in Thread |-> 0]
    /\ moved = [t \in Thread |-> Nothing]
    /\ last = [b \in Byte |-> Zero]

\* A call starts: it is refused at once, waits for the mutex, or goes ahead.
Call(t, r) ==
    /\ pc[t] = "idle"
    /\ req' = [req EXCEPT ![t] = r]
    /\ startSector' = [startSector EXCEPT ![t] = r.off \div SectorSize]
    /\ pc' = [pc EXCEPT ![t] = IF Rejected(r) THEN "ret"
                               ELSE IF Locks(r) THEN "lock" ELSE FirstPart(r)]
    /\ err' = [err EXCEPT ![t] = IF ~Rejected(r) THEN "nil"
                                 ELSE IF r.kind = "read" THEN "EOF"
                                 ELSE "short write"]
    /\ UNCHANGED <<disk, mutex, total, tmpBuf, k, moved, last>>

\* Mutated form of Lock: nobody waits.
LockIgnored(t) ==
    /\ pc[t] = "lock"
    /\ mutex' = t
    /\ pc' = [pc EXCEPT ![t] = FirstPart(req[t])]
    /\ UNCHANGED <<disk, req, locals, moved, last>>

Lock(t) ==
    /\ pc[t] = "lock"
    /\ mutex = NoThread
    /\ mutex' = t
    /\ pc' = [pc EXCEPT ![t] = FirstPart(req[t])]
    /\ UNCHANGED <<disk, req, locals, moved, last>>

\* The call moves on to its next part.  The tail is not added to total.
HeadDone(t) ==
    /\ InHead(t)
    /\ startSector' = [startSector EXCEPT ![t] = @ + 1]
    /\ total' = [total EXCEPT ![t] = @ + HeadLen(req[t])]
    /\ pc' = [pc EXCEPT ![t] = NextPart(Rest(t) - HeadLen(req[t]))]
    /\ UNCHANGED k

MiddleSectorDone(t) ==
    /\ pc[t] = "mid"
    /\ k[t] + 1 < NumSectors(t)
    /\ k' = [k EXCEPT ![t] = @ + 1]
    /\ UNCHANGED <<pc, startSector, total>>

MiddleDone(t) ==
    /\ pc[t] = "mid"
    /\ k[t] + 1 = NumSectors(t)
    /\ k' = [k EXCEPT ![t] = 0]
    /\ startSector' = [startSector EXCEPT ![t] = @ + NumSectors(t)]
    /\ total' = [total EXCEPT ![t] = @ + NumSectors(t) * SectorSize]
    /\ pc' = [pc EXCEPT ![t] = NextPart(Rest(t) - NumSectors(t) * SectorSize)]

TailDone(t) ==
    /\ InTail(t)
    /\ pc' = [pc EXCEPT ![t] = "ret"]
    /\ UNCHANGED <<startSector, total, k>>

Advance(t) ==
    /\ HeadDone(t) \/ MiddleSectorDone(t) \/ MiddleDone(t) \/ TailDone(t)
    /\ UNCHANGED err

\* Mutated form of Abort: sectors that were not transferred are counted.
AbortCountsMiddle(t) ==
    /\ pc' = [pc EXCEPT ![t] = "ret"]
    /\ err' = [err EXCEPT ![t] = "failed"]
    /\ total' = [total EXCEPT ![t] = @ + NumSectors(t) * SectorSize]
    /\ UNCHANGED <<startSector, k>>

\* A VDDK call failed: return total as it stands.
Abort(t) ==
    /\ pc' = [pc EXCEPT ![t] = "ret"]
    /\ err' = [err EXCEPT ![t] = "failed"]
    /\ UNCHANGED <<startSector, total, k>>

\* The bytes of p that go with the piece: data is a function on the piece.
Record(t, data) ==
    moved' = [moved EXCEPT ![t] =
                 [i \in DOMAIN moved[t] \cup Indices(t) |->
                     IF i \in Indices(t) THEN data[Base(t) + From(t) + i - Index(t)]
                                         ELSE moved[t][i]]]

\* ReadAt: VDDK reads the sector of the piece and the bytes are copied to p; in
\* the middle VDDK reads into p itself, and may fail at a later sector.
Fill(t) ==
    /\ req[t].kind = "read"
    /\ pc[t] \in {"head", "mid", "tail"}
    /\ Record(t, disk)
    /\ Advance(t) \/ (pc[t] = "mid" /\ Abort(t))
    /\ UNCHANGED <<disk, mutex, req, tmpBuf, last>>

\* Mutated form of Fetch: the sector is not read before p is copied over it.
FetchBlank(t) ==
    /\ req[t].kind = "write"
    /\ \/ pc[t] = "head" /\ pc' = [pc EXCEPT ![t] = "headWrite"]
       \/ pc[t] = "tail" /\ pc' = [pc EXCEPT ![t] = "tailWrite"]
    /\ tmpBuf' = [tmpBuf EXCEPT ![t] =
                     [x \in SectorByte |->
                         LET b == Base(t) + x
                         IN  IF b \in Piece(t) THEN OwnDatum(t, b) ELSE Zero]]
    /\ UNCHANGED <<disk, mutex, req, startSector, total, err, k, moved, last>>

\* WriteAt, head or tail: read the sector to tmpBuf and copy p over its piece.
Fetch(t) ==
    /\ req[t].kind = "write"
    /\ \/ pc[t] = "head" /\ pc' = [pc EXCEPT ![t] = "headWrite"]
       \/ pc[t] = "tail" /\ pc' = [pc EXCEPT ![t] = "tailWrite"]
    /\ tmpBuf' = [tmpBuf EXCEPT ![t] =
                     [x \in SectorByte |->
                         LET b == Base(t) + x
                         IN  IF b \in Piece(t) THEN OwnDatum(t, b) ELSE disk[b]]]
    /\ UNCHANGED <<disk, mutex, req, startSector, total, err, k, moved, last>>

\* What the write of one sector does: data to the disk, and the history.
Put(t, data) ==
    /\ disk' = [b \in Byte |-> IF b \in SectorOf(t) THEN data[b] ELSE disk[b]]
    /\ last' = [b \in Byte |-> IF b \in Piece(t)
                               THEN [req |-> req[t], idx |-> b - req[t].off]
                               ELSE last[b]]
    /\ Record(t, [b \in Piece(t) |-> OwnDatum(t, b)])
    /\ tmpBuf' = [tmpBuf EXCEPT ![t] = NoBuffer]
    /\ UNCHANGED <<mutex, req>>

\* WriteAt, head or tail: write tmpBuf back to its sector.
Store(t) ==
    /\ pc[t] \in {"headWrite", "tailWrite"}
    /\ Put(t, [b \in SectorOf(t) |-> tmpBuf[t][b - Base(t)]])
    /\ Advance(t) \/ Abort(t)

\* WriteAt, middle part: VDDK overwrites one more sector.
Overwrite(t) ==
    /\ req[t].kind = "write"
    /\ pc[t] = "mid"
    /\ Put(t, [b \in SectorOf(t) |-> OwnDatum(t, b)])
    /\ Advance(t) \/ Abort(t)

\* A VDDK call fails before it reaches the sector.
Fail(t) ==
    /\ pc[t] \in {"head", "headWrite", "mid", "tail", "tailWrite"}
    /\ Abort(t)
    /\ tmpBuf' = [tmpBuf EXCEPT ![t] = NoBuffer]
    /\ UNCHANGED <<disk, mutex, req, moved, last>>

\* The values ReadAt and WriteAt return: n, with err[t].
Returned(t) ==
    IF req[t].kind = "write" /\ err[t] = "nil" THEN PLen(req[t]) ELSE total[t]

\* Mutated form of Return: no Unlock on the error paths.
ReturnLocked(t) ==
    /\ pc[t] = "ret"
    /\ pc' = [pc EXCEPT ![t] = "idle"]
    /\ mutex' = IF mutex = t /\ err[t] = "nil" THEN NoThread ELSE mutex
    /\ req' = [req EXCEPT ![t] = NoRequest]
    /\ startSector' = [startSector EXCEPT ![t] = 0]
    /\ total' = [total EXCEPT ![t] = 0]
    /\ err' = [err EXCEPT ![t] = "nil"]
    /\ k' = [k EXCEPT ![t] = 0]
    /\ moved' = [moved EXCEPT ![t] = Nothing]
    /\ UNCHANGED <<disk, tmpBuf, last>>

\* The call returns: the deferred Unlock, and the locals are gone.
Return(t) ==
    /\ pc[t] = "ret"
    /\ pc' = [pc EXCEPT ![t] = "idle"]
    /\ mutex' = IF mutex = t THEN NoThread ELSE mutex
    /\ req' = [req EXCEPT ![t] = NoRequest]
    /\ startSector' = [startSector EXCEPT ![t] = 0]
    /\ total' = [total EXCEPT ![t] = 0]
    /\ err' = [err EXCEPT ![t] = "nil"]
    /\ k' = [k EXCEPT ![t] = 0]
    /\ moved' = [moved EXCEPT ![t] = Nothing]
    /\ UNCHANGED <<disk, tmpBuf, last>>

\* A step of a call that is under way, other than taking the mutex.
Work(t) ==
    \/ Fill(t) \/ Fetch(t) \/ Store(t) \/ Overwrite(t) \/ Fail(t)

Next ==
    \E t \in Thread :
        \/ \E r \in Request : Call(t, r)
        \/ Lock(t)
        \/ Work(t)
        \/ Return(t)

Spec == Init /\ [][Next]_vars

(* The mutex of a goroutine that waits is handed to it in the end: Go's    *)
(* sync.Mutex queues waiters and hands over to one that starved.  A VDDK   *)
(* call that was started returns, with or without an error.                *)
Fairness ==
    \A t \in Thread : SF_vars(Lock(t)) /\ WF_vars(Work(t)) /\ WF_vars(Return(t))

FairSpec == Spec /\ Fairness

-----------------------------------------------------------------------------
(* Properties.                                                             *)

Position == {"idle", "lock", "head", "headWrite", "mid", "tail", "tailWrite", "ret"}
Active(t) == pc[t] \notin {"idle", "lock"}

(* Types and ranges.  total never exceeds len(p), so p[total:] and the     *)
(* slices p[desOff:desEnd] of ReadAt and WriteAt are in range.             *)
TypeOK ==
    /\ disk \in [Byte -> Datum]
    /\ last \in [Byte -> Datum]
    /\ mutex \in Thread \cup {NoThread}
    /\ pc \in [Thread -> Position]
    /\ req \in [Thread -> Request \cup {NoRequest}]
    /\ startSector \in [Thread -> Nat]
    /\ total \in [Thread -> Nat]
    /\ k \in [Thread -> Nat]
    /\ err \in [Thread -> {"nil", "EOF", "short write", "failed"}]
    /\ tmpBuf \in [Thread -> [SectorByte -> Datum]]
    /\ moved = [t \in Thread |-> moved[t]]
    /\ \A t \in Thread :
          /\ pc[t] = "idle" <=> req[t] = NoRequest
          /\ total[t] # 0 => total[t] <= PLen(req[t])
          /\ DOMAIN moved[t] \subseteq 0 .. PLen(req[t]) - 1
          /\ moved[t] \in [DOMAIN moved[t] -> Datum]

\* A byte whose latest writer took no lock.
StoredByAligned(b) == last[b] # Zero /\ ~Locks(last[b].req)

\* Sector s is read, modified and written back by some call of Request.
EdgeSector(s) ==
    \E r \in Request :
        /\ r.kind = "write" /\ ~Rejected(r) /\ Locks(r)
        /\ \/ HeadOff(r) # 0 /\ s = r.off \div SectorSize
           \/ (r.off + r.len) % SectorSize # 0 /\ s = (r.off + r.len) \div SectorSize

(* "read/modify/write cycle always gives correct behavior": a write that   *)
(* is not aligned is never undone by another goroutine, and no byte        *)
(* outside every write changes.  What can be lost is the data of an        *)
(* aligned write, and only in a sector that some call rewrites.            *)
MisalignedWritesSurvive ==
    \A b \in Byte :
        disk[b] # last[b] =>
            StoredByAligned(b) /\ EdgeSector(b \div SectorSize)

(* "read/write is atomic even though misaligned": as long as a misaligned  *)
(* call has not returned, the bytes it has read or written are those on    *)
(* the disk, but for bytes that an aligned write stored.                   *)
MisalignedCallsAtomic ==
    \A t \in Thread :
        Active(t) /\ ~Rejected(req[t]) /\ Locks(req[t]) =>
            \A i \in DOMAIN moved[t] :
                LET b == req[t].off + i
                IN  disk[b] = moved[t][i] \/ StoredByAligned(b)

(* The n that ReadAt or WriteAt returns is never more than it transferred: *)
(* the first n bytes of p are done, and all of p after a nil error.        *)
CountIsHonest ==
    \A t \in Thread :
        pc[t] = "ret" =>
            /\ 0 .. Returned(t) - 1 \subseteq DOMAIN moved[t]
            /\ err[t] = "nil" => DOMAIN moved[t] = 0 .. PLen(req[t]) - 1

HeadCount(r) == IF HeadOff(r) = 0 THEN 0 ELSE HeadLen(r)
WholeCount(r) ==
    HeadCount(r) + ((PLen(r) - HeadCount(r)) \div SectorSize) * SectorSize

(* What the n of a ReadAt without an error is, whoever else is at work:    *)
(* the part in the first sector and every whole sector, never the tail.    *)
(* DumpCloneDisk advances by this n.                                       *)
CountIsWhole ==
    \A t \in Thread :
        pc[t] = "ret" /\ req[t].kind = "read" /\ err[t] = "nil" =>
            Returned(t) = WholeCount(req[t])

-----------------------------------------------------------------------------
(* The inductive invariant behind TypeOK and MisalignedWritesSurvive.      *)

Working(t) == pc[t] \in {"head", "headWrite", "mid", "tail", "tailWrite"}

\* Goroutine t is where its call says: its sector and its bytes of p agree.
Placed(t) ==
    /\ pc[t] = "idle" => total[t] = 0 /\ k[t] = 0
    /\ pc[t] = "lock" \/ Working(t) => ~Rejected(req[t])
    /\ pc[t] = "lock" \/ InHead(t) =>
          /\ total[t] = 0
          /\ k[t] = 0
          /\ startSector[t] = req[t].off \div SectorSize
    /\ pc[t] = "lock" \/ InHead(t) \/ InTail(t) => Locks(req[t])
    /\ InHead(t) => HeadOff(req[t]) # 0
    /\ pc[t] = "mid" \/ InTail(t) =>
          startSector[t] * SectorSize = req[t].off + total[t]
    /\ pc[t] = "mid" => k[t] < NumSectors(t)
    /\ InTail(t) => k[t] = 0 /\ Rest(t) \in 1 .. SectorSize - 1
    /\ pc[t] \in {"headWrite", "tailWrite"} => req[t].kind = "write"

\* The mutex is held by the one misaligned call that is under way.
Exclusion ==
    \A t \in Thread :
        mutex = t <=> Active(t) /\ ~Rejected(req[t]) /\ Locks(req[t])

\* tmpBuf holds p in the piece and, around it, nothing older than what the
\* disk owes to misaligned writes.
Fresh(t) ==
    pc[t] \in {"headWrite", "tailWrite"} =>
        \A b \in SectorOf(t) :
            IF b \in Piece(t)
            THEN tmpBuf[t][b - Base(t)] = [req |-> req[t], idx |-> b - req[t].off]
            ELSE tmpBuf[t][b - Base(t)] = last[b] \/ StoredByAligned(b)

TypeInv == TypeOK /\ \A t \in Thread : Placed(t)

SurvivalInv ==
    /\ TypeInv
    /\ Exclusion
    /\ \A t \in Thread : Fresh(t)
    /\ MisalignedWritesSurvive

-----------------------------------------------------------------------------
(* Statements of the documentation that the code does not keep, liveness,  *)
(* and the abstract store.                                                 *)

(* README.md: Read, which returns the n of ReadAt, "returns the number of  *)
(* bytes read": after a nil error that is all of the sliced buffer.        *)
CountIsExact ==
    \A t \in Thread :
        pc[t] = "ret" /\ req[t].kind = "read" /\ err[t] = "nil" =>
            Returned(t) = PLen(req[t])

(* gvddk.go: the lock is there "so that read/modify/write cycle always     *)
(* gives correct behavior": no byte a write stored is undone by another.   *)
NoLostUpdate == disk = last

(* Every ReadAt and WriteAt returns: a call that waits for the mutex gets  *)
(* it, whatever errors the calls before it met.                            *)
CallsReturn == \A t \in Thread : pc[t] # "idle" ~> pc[t] = "idle"

(* The promise of the handle.  A call is under way from the moment it has  *)
(* the mutex, or needs none, until it returns; one that is refused never   *)
(* is.                                                                     *)
UnderWay(t) == Active(t) /\ ~Rejected(req[t])

StoreOp == [t \in Thread |-> IF UnderWay(t) THEN req[t] ELSE NoRequest]
StoreGot ==
    [t \in Thread |-> IF UnderWay(t) /\ req[t].kind = "read" THEN moved[t] ELSE Nothing]

Promise ==
    INSTANCE ByteStore WITH
        Size <- Capacity,
        Exclusive <- {r \in Request : Locks(r)},
        content <- disk,
        op <- StoreOp,
        got <- StoreGot

\* No aligned write goes to a sector that a misaligned one rewrites.
Tidy ==
    \A r \in Request :
        r.kind = "write" /\ ~Rejected(r) /\ ~Locks(r) =>
            \A b \in r.off .. r.off + r.len - 1 : ~EdgeSector(b \div SectorSize)

(* When calls are Tidy, the handle implements ByteStore: a call touches    *)
(* its own bytes only, and misaligned calls exclude each other.            *)
ImplementsByteStore == Promise!Spec
=============================================================================
