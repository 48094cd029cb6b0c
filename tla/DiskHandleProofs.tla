--------------------------- MODULE DiskHandleProofs ---------------------------
(* Proofs about DiskHandle, for every sector size, disk size, set of          *)
(* goroutines and set of calls.                                               *)
EXTENDS DiskHandle, SectorArithmetic, TLAPS

USE DiskAssumption

-----------------------------------------------------------------------------
(* Requests.                                                                  *)

(* A call that is not refused stays on the disk once ReadAt has sliced p.     *)
LEMMA RequestBounds ==
    ASSUME NEW r \in Request, ~Rejected(r)
    PROVE  /\ r.kind \in {"read", "write"} /\ r.off \in Nat /\ r.len \in Nat
           /\ PLen(r) \in Nat
           /\ Capacity \in Nat
           /\ r.off + PLen(r) =< Capacity
           /\ r.kind = "write" => PLen(r) = r.len
<1>1. r.kind \in {"read", "write"} /\ r.off \in Nat /\ r.len \in Nat
  OBVIOUS
<1>2. Capacity \in Nat
  BY SMT DEF Capacity
<1>3. CASE r.kind = "read"
  BY <1>1, <1>2, <1>3 DEF Rejected, PLen
<1>4. CASE r.kind = "write"
  BY <1>1, <1>2, <1>4 DEF Rejected, PLen
<1> QED
  BY <1>1, <1>2, <1>3, <1>4

(* The head of a misaligned call lies in one sector of the disk, and what     *)
(* is left after it begins at the next sector.                                *)
LEMMA HeadFacts ==
    ASSUME NEW r \in Request, ~Rejected(r), HeadOff(r) # 0
    PROVE  /\ r.off \div SectorSize \in Nat
           /\ r.off \div SectorSize + 1 =< Sectors
           /\ HeadOff(r) \in 1 .. SectorSize - 1
           /\ r.off = (r.off \div SectorSize) * SectorSize + HeadOff(r)
           /\ HeadLen(r) \in 0 .. PLen(r)
           /\ HeadOff(r) + HeadLen(r) =< SectorSize
           /\ HeadLen(r) < PLen(r) => HeadOff(r) + HeadLen(r) = SectorSize
           /\ Locks(r)
<1>1. r.off \in Nat /\ PLen(r) \in Nat /\ Capacity \in Nat /\ r.off + PLen(r) =< Capacity
  BY RequestBounds
<1>2. /\ r.off \div SectorSize \in Nat
      /\ HeadOff(r) \in 0 .. SectorSize - 1
      /\ r.off = (r.off \div SectorSize) * SectorSize + HeadOff(r)
  BY <1>1, DivMod DEF HeadOff
<1>3. (r.off \div SectorSize) * SectorSize =< r.off
  BY <1>1, <1>2, NextSector
<1>4. r.off < Capacity
  <2>1. CASE r.kind = "read"
    BY <2>1, <1>1 DEF Rejected
  <2>2. CASE r.kind # "read"
    <3>1. SUFFICES ASSUME r.off = Capacity PROVE FALSE
      BY <1>1
    <3>2. r.off = Sectors * SectorSize + 0
      BY <3>1, <1>1 DEF Capacity
    <3>3. (r.off % SectorSize) = 0
      <4> DEFINE a == r.off
      <4>1. 0 \in 0 .. SectorSize - 1 /\ Sectors \in Nat
        OBVIOUS
      <4>2. a \in Nat /\ a = Sectors * SectorSize + 0
        BY <3>2, <1>1
      <4> HIDE DEF a
      <4>3. (a % SectorSize) = 0
        BY <4>1, <4>2, DivModUnique
      <4> QED
        BY <4>3 DEF a
    <3> QED
      BY <3>3 DEF HeadOff
  <2> QED
    BY <2>1, <2>2
<1>7. r.off \div SectorSize + 1 =< Sectors
  BY <1>1, <1>2, <1>3, <1>4, SectorInDisk DEF Capacity
<1>5. /\ HeadLen(r) \in 0 .. PLen(r)
      /\ HeadOff(r) + HeadLen(r) =< SectorSize
      /\ HeadLen(r) < PLen(r) => HeadOff(r) + HeadLen(r) = SectorSize
  BY <1>1, <1>2 DEF HeadLen
<1>6. Locks(r)
  BY DEF Locks, Aligned, HeadOff
<1> QED
  BY <1>2, <1>5, <1>6, <1>7

(* What TypeOK says of one goroutine that is in a call.                       *)
LEMMA InCall ==
    ASSUME TypeOK, NEW t \in Thread, pc[t] # "idle"
    PROVE  /\ req[t] \in Request
           /\ startSector[t] \in Nat /\ total[t] \in Nat /\ k[t] \in Nat
           /\ pc[t] \in Position
BY DEF TypeOK

(* What a call has counted is within its buffer.                              *)
LEMMA SoFar ==
    ASSUME TypeOK, NEW t \in Thread, total[t] \in Nat, PLen(req[t]) \in Nat
    PROVE  total[t] =< PLen(req[t])
<1>1. total[t] # 0 => total[t] =< PLen(req[t])
  BY DEF TypeOK
<1> QED
  BY <1>1

-----------------------------------------------------------------------------
(* Where a goroutine is.                                                      *)

(* The piece that a goroutine works on lies in one sector of the disk, and    *)
(* its bytes of p are those the caller asked to have there.                   *)
LEMMA PieceFacts ==
    ASSUME TypeOK, NEW t \in Thread, Placed(t), Working(t)
    PROVE  /\ req[t] \in Request
           /\ Base(t) \in Nat
           /\ Base(t) + SectorSize =< Capacity
           /\ From(t) \in Nat /\ Count(t) \in Nat
           /\ From(t) + Count(t) =< SectorSize
           /\ Index(t) \in Nat
           /\ Index(t) + Count(t) =< PLen(req[t])
           /\ Index(t) = Base(t) + From(t) - req[t].off
<1> DEFINE r == req[t]
<1>1. /\ r \in Request /\ ~Rejected(r)
      /\ startSector[t] \in Nat /\ total[t] \in Nat /\ k[t] \in Nat
  BY InCall DEF Working, Placed
<1>2. /\ r.off \in Nat /\ PLen(r) \in Nat /\ Capacity \in Nat
      /\ r.off + PLen(r) =< Capacity
  BY <1>1, RequestBounds
<1>3. CASE InHead(t)
  <2>1. /\ total[t] = 0 /\ k[t] = 0
        /\ startSector[t] = r.off \div SectorSize
        /\ HeadOff(r) # 0
    BY <1>3 DEF Placed
  <2>2. /\ Base(t) = startSector[t] * SectorSize
        /\ From(t) = HeadOff(r) /\ Count(t) = HeadLen(r) /\ Index(t) = 0
    BY <2>1, <1>1, <1>3 DEF Base, From, Count, Index
  <2>3. /\ startSector[t] + 1 =< Sectors
        /\ HeadOff(r) \in 1 .. SectorSize - 1
        /\ r.off = startSector[t] * SectorSize + HeadOff(r)
        /\ HeadLen(r) \in 0 .. PLen(r)
        /\ HeadOff(r) + HeadLen(r) =< SectorSize
    BY <2>1, <1>1, HeadFacts
  <2>4. startSector[t] * SectorSize + SectorSize =< Capacity
    BY <2>3, <1>1, Mono, NextSector DEF Capacity
  <2>5. startSector[t] * SectorSize \in Nat
    BY <1>1, SMT
  <2> QED
    BY <1>1, <1>2, <2>2, <2>3, <2>4, <2>5
<1>4. CASE pc[t] = "mid"
  <2>1. /\ startSector[t] * SectorSize = r.off + total[t]
        /\ k[t] < Rest(t) \div SectorSize
    BY <1>4 DEF Placed, NumSectors
  <2>2. Rest(t) \in Nat /\ Rest(t) = PLen(r) - total[t]
    <3>1. total[t] =< PLen(r)
      BY <1>1, <1>2, SoFar
    <3> QED
      BY <3>1, <1>1, <1>2 DEF Rest
  <2>3. Rest(t) \div SectorSize \in Nat /\ (Rest(t) \div SectorSize) * SectorSize =< Rest(t)
    BY <2>2, DivMod
  <2>4. k[t] * SectorSize + SectorSize =< Rest(t) /\ k[t] * SectorSize \in Nat
    <3>1. (k[t] + 1) * SectorSize =< (Rest(t) \div SectorSize) * SectorSize
      <4>1. k[t] + 1 =< Rest(t) \div SectorSize
        BY <2>1, <2>3, <1>1
      <4> QED
        BY <4>1, <2>3, <1>1, Mono
    <3>2. k[t] * SectorSize \in Nat
      BY <1>1, SMT
    <3> QED
      BY <3>1, <3>2, <2>2, <2>3, <1>1, NextSector
  <2>5. /\ From(t) = 0 /\ Count(t) = SectorSize
        /\ Index(t) = total[t] + k[t] * SectorSize
        /\ Base(t) = startSector[t] * SectorSize + k[t] * SectorSize
    BY <1>1, <1>4, SMT DEF From, Count, Index, Base, InHead, InTail
  <2> QED
    BY <1>1, <1>2, <2>1, <2>2, <2>4, <2>5
<1>5. CASE InTail(t)
  <2>1. /\ startSector[t] * SectorSize = r.off + total[t]
        /\ k[t] = 0 /\ Rest(t) \in 1 .. SectorSize - 1
    BY <1>5 DEF Placed
  <2>2. Rest(t) = PLen(r) - total[t]
    BY DEF Rest
  <2>3. /\ From(t) = 0 /\ Count(t) = Rest(t) /\ Index(t) = total[t]
        /\ Base(t) = startSector[t] * SectorSize
    BY <1>1, <1>5, <2>1 DEF From, Count, Index, Base, InHead, InTail
  <2>4. startSector[t] * SectorSize < Sectors * SectorSize
    BY <1>1, <1>2, <2>1, <2>2 DEF Capacity
  <2>5. startSector[t] * SectorSize + SectorSize =< Capacity
    BY <2>4, <1>1, Strict, Mono, NextSector DEF Capacity
  <2>6. Base(t) = r.off + total[t] /\ Base(t) + SectorSize =< Capacity
    BY <2>1, <2>3, <2>5
  <2>7. Rest(t) \in Nat /\ Rest(t) =< SectorSize /\ Index(t) + Rest(t) = PLen(r)
    BY <1>1, <1>2, <2>1, <2>2, <2>3
  <2> HIDE DEF r
  <2> QED
    BY ONLY <1>1, <1>2, <2>3, <2>6, <2>7, SectorSize \in Nat DEF r
<1>6. InHead(t) \/ pc[t] = "mid" \/ InTail(t)
  BY DEF Working, InHead, InTail
<1> QED
  BY <1>3, <1>4, <1>5, <1>6

(* The part that comes next, for what is left of p.                           *)
LEMMA NextPartFacts ==
    ASSUME NEW rest \in Nat
    PROVE  /\ NextPart(rest) \in {"mid", "tail", "ret"}
           /\ NextPart(rest) = "mid" => rest >= SectorSize /\ 0 < rest \div SectorSize
           /\ NextPart(rest) = "tail" => rest \in 1 .. SectorSize - 1
<1>1. CASE rest >= SectorSize
  <2>1. /\ rest \div SectorSize \in Nat /\ (rest % SectorSize) \in 0 .. SectorSize - 1
        /\ rest = (rest \div SectorSize) * SectorSize + (rest % SectorSize)
    BY DivMod
  <2>2. rest \div SectorSize # 0
    <3>1. SUFFICES ASSUME rest \div SectorSize = 0 PROVE FALSE
      OBVIOUS
    <3>2. rest = (rest % SectorSize)
      BY <2>1, <3>1
    <3> QED
      BY <3>2, <2>1, <1>1
  <2> QED
    BY <1>1, <2>1, <2>2 DEF NextPart
<1>2. CASE rest < SectorSize
  BY <1>2 DEF NextPart
<1> QED
  BY <1>1, <1>2

(* A call that has a tail is misaligned.                                      *)
LEMMA TailLocks ==
    ASSUME NEW r \in Request, ~Rejected(r), NEW s \in Nat, NEW done \in Nat,
           s * SectorSize = r.off + done,
           PLen(r) - done \in 1 .. SectorSize - 1
    PROVE  Locks(r)
<1> DEFINE off == r.off
           len == PLen(r)
<1>1. off \in Nat /\ len \in Nat
  BY RequestBounds
<1>2. SUFFICES ASSUME (len % SectorSize) = 0, (off % SectorSize) = 0 PROVE FALSE
  BY DEF Locks, Aligned
<1>3. s * SectorSize = off + done /\ len - done \in 1 .. SectorSize - 1
  OBVIOUS
<1> HIDE DEF off, len
<1> DEFINE q == off \div SectorSize
           m == len \div SectorSize
<1>4. /\ q \in Nat /\ m \in Nat
      /\ off = q * SectorSize + 0 /\ len = m * SectorSize + 0
  BY <1>1, <1>2, DivMod
<1> HIDE DEF q, m
<1> DEFINE a == off + len
           n == q + m
           rest == len - done
<1>5. a \in Nat /\ n \in Nat /\ a = n * SectorSize + 0
  BY <1>1, <1>4, SMT
<1>6. a \in Nat /\ a = s * SectorSize + rest
  BY <1>1, <1>3
<1>7. rest # 0 /\ rest \in 0 .. SectorSize - 1 /\ 0 \in 0 .. SectorSize - 1
  BY <1>1, <1>3
<1> HIDE DEF a, n, rest
<1>8. (a % SectorSize) = 0
  BY ONLY SectorSize \in Nat \ {0}, <1>5, <1>7, DivModUnique
<1>9. (a % SectorSize) = rest
  BY ONLY SectorSize \in Nat \ {0}, s \in Nat, <1>6, <1>7, DivModUnique
<1> QED
  BY <1>7, <1>8, <1>9

(* The first part of a call that has the mutex or needs none.                 *)
LEMMA FirstPartFacts ==
    ASSUME NEW r \in Request, ~Rejected(r)
    PROVE  /\ FirstPart(r) \in {"head", "mid", "tail", "ret"}
           /\ r.off \div SectorSize \in Nat
           /\ FirstPart(r) = "head" => HeadOff(r) # 0 /\ Locks(r)
           /\ FirstPart(r) \in {"mid", "tail"} =>
                 (r.off \div SectorSize) * SectorSize = r.off
           /\ FirstPart(r) = "mid" => 0 < PLen(r) \div SectorSize
           /\ FirstPart(r) = "tail" =>
                 PLen(r) \in 1 .. SectorSize - 1 /\ Locks(r)
<1>1. r.off \in Nat /\ PLen(r) \in Nat
  BY RequestBounds
<1>2. /\ r.off \div SectorSize \in Nat
      /\ (r.off \div SectorSize) * SectorSize \in Nat
      /\ r.off = (r.off \div SectorSize) * SectorSize + (r.off % SectorSize)
  BY <1>1, DivMod
<1>3. CASE HeadOff(r) # 0
  BY <1>2, <1>3, HeadFacts DEF FirstPart
<1>4. CASE HeadOff(r) = 0
  <2>1. FirstPart(r) = NextPart(PLen(r))
    BY <1>4 DEF FirstPart
  <2>2. (r.off \div SectorSize) * SectorSize = r.off
    BY <1>1, <1>2, <1>4 DEF HeadOff
  <2>3. /\ FirstPart(r) \in {"mid", "tail", "ret"}
        /\ FirstPart(r) = "mid" => 0 < PLen(r) \div SectorSize
        /\ FirstPart(r) = "tail" => PLen(r) \in 1 .. SectorSize - 1
    BY <1>1, <2>1, NextPartFacts
  <2>4. FirstPart(r) = "tail" => Locks(r)
    <3>1. /\ (r.off \div SectorSize) * SectorSize = r.off + 0
          /\ PLen(r) - 0 = PLen(r)
      BY <1>1, <2>2
    <3> QED
      BY <1>2, <2>3, <3>1, TailLocks
  <2> QED
    BY <1>2, <2>2, <2>3, <2>4
<1> QED
  BY <1>3, <1>4

-----------------------------------------------------------------------------
(* Steps keep goroutines placed.                                              *)

(* A step that changes none of a goroutine's variables leaves it placed.      *)
LEMMA PlacedFrame ==
    ASSUME NEW u \in Thread, Placed(u), pc'[u] = pc[u], req'[u] = req[u],
           startSector'[u] = startSector[u], total'[u] = total[u], k'[u] = k[u]
    PROVE  Placed(u)'
BY DEF Placed, Working, InHead, InTail, Rest, NumSectors

(* Moving on to the next part keeps the sector and the bytes of p in step.    *)
LEMMA AdvanceFacts ==
    ASSUME TypeOK, NEW t \in Thread, Placed(t), Working(t), Advance(t), req' = req
    PROVE  /\ pc' \in [Thread -> Position]
           /\ startSector' \in [Thread -> Nat]
           /\ total' \in [Thread -> Nat]
           /\ k' \in [Thread -> Nat]
           /\ pc'[t] \in {"mid", "tail", "ret"}
           /\ total'[t] =< PLen(req[t])
           /\ Placed(t)'
           /\ \A u \in Thread \ {t} :
                 /\ pc'[u] = pc[u] /\ startSector'[u] = startSector[u]
                 /\ total'[u] = total[u] /\ k'[u] = k[u]
<1> DEFINE r == req[t]
<1>1. /\ r \in Request /\ ~Rejected(r)
      /\ startSector[t] \in Nat /\ total[t] \in Nat /\ k[t] \in Nat
  BY InCall DEF Working, Placed
<1>2. r.off \in Nat /\ PLen(r) \in Nat /\ total[t] =< PLen(r)
  BY <1>1, RequestBounds, SoFar
<1>3. /\ pc \in [Thread -> Position] /\ startSector \in [Thread -> Nat]
      /\ total \in [Thread -> Nat] /\ k \in [Thread -> Nat]
  BY DEF TypeOK
<1>4. CASE HeadDone(t)
  <2>1. /\ HeadOff(r) # 0 /\ total[t] = 0 /\ k[t] = 0
        /\ startSector[t] = r.off \div SectorSize
    BY <1>4 DEF HeadDone, Placed
  <2>2. /\ r.off = startSector[t] * SectorSize + HeadOff(r)
        /\ HeadOff(r) \in Nat
        /\ HeadLen(r) \in 0 .. PLen(r)
        /\ HeadLen(r) < PLen(r) => HeadOff(r) + HeadLen(r) = SectorSize
        /\ Locks(r)
    BY <1>1, <2>1, HeadFacts
  <2> DEFINE rest == PLen(r) - HeadLen(r)
  <2>3. /\ pc' = [pc EXCEPT ![t] = NextPart(rest)]
        /\ startSector' = [startSector EXCEPT ![t] = @ + 1]
        /\ total' = [total EXCEPT ![t] = HeadLen(r)]
        /\ k' = k
    <3>1. Rest(t) - HeadLen(r) = rest /\ total[t] + HeadLen(r) = HeadLen(r)
      BY <1>2, <2>1, <2>2 DEF Rest
    <3> QED
      BY <1>4, <3>1 DEF HeadDone
  <2>4. rest \in Nat
    BY <1>2, <2>2
  <2>5. /\ NextPart(rest) \in {"mid", "tail", "ret"}
        /\ NextPart(rest) = "mid" => 0 < rest \div SectorSize
        /\ NextPart(rest) = "tail" => rest \in 1 .. SectorSize - 1
        /\ NextPart(rest) \in {"mid", "tail"} => 0 < rest
    BY <2>4, NextPartFacts
  <2>6. rest > 0 => (startSector[t] + 1) * SectorSize = r.off + HeadLen(r)
    <3>1. /\ startSector[t] * SectorSize \in Int
          /\ (startSector[t] + 1) * SectorSize = startSector[t] * SectorSize + SectorSize
      BY <1>1, NextSector
    <3>2. rest > 0 => HeadOff(r) + HeadLen(r) = SectorSize
      BY <1>2, <2>2
    <3> QED
      BY ONLY <1>2, <2>2, <3>1, <3>2, SectorSize \in Nat
  <2>7. Placed(t)'
    BY <1>1, <1>3, <2>1, <2>2, <2>3, <2>4, <2>5, <2>6
    DEF Placed, Working, InHead, InTail, Rest, NumSectors
  <2>8. total'[t] =< PLen(req[t])
    BY <1>2, <1>3, <2>2, <2>3
  <2>9. HeadLen(r) \in Nat /\ startSector[t] + 1 \in Nat
    BY <1>1, <1>2, <2>2
  <2>10. /\ pc' \in [Thread -> Position] /\ pc'[t] \in {"mid", "tail", "ret"}
         /\ \A u \in Thread \ {t} : pc'[u] = pc[u]
    BY <1>3, <2>3, <2>5 DEF Position
  <2>11. /\ startSector' \in [Thread -> Nat]
         /\ total' \in [Thread -> Nat]
         /\ k' \in [Thread -> Nat]
         /\ \A u \in Thread \ {t} :
               startSector'[u] = startSector[u] /\ total'[u] = total[u] /\ k'[u] = k[u]
    BY <1>3, <2>3, <2>9
  <2> QED
    BY <2>7, <2>8, <2>10, <2>11
<1>5. CASE MiddleSectorDone(t)
  <2>1. /\ pc[t] = "mid" /\ k[t] + 1 < NumSectors(t)
        /\ k' = [k EXCEPT ![t] = @ + 1] /\ pc' = pc
        /\ startSector' = startSector /\ total' = total
    BY <1>5 DEF MiddleSectorDone
  <2>2. Placed(t)'
    BY <1>1, <1>3, <2>1 DEF Placed, Working, InHead, InTail, Rest, NumSectors
  <2> QED
    BY <1>1, <1>2, <1>3, <2>1, <2>2
<1>6. CASE MiddleDone(t)
  <2> DEFINE num == NumSectors(t)
             rest == Rest(t) - num * SectorSize
  <2>1. /\ pc[t] = "mid"
        /\ k' = [k EXCEPT ![t] = 0]
        /\ startSector' = [startSector EXCEPT ![t] = @ + num]
        /\ total' = [total EXCEPT ![t] = @ + num * SectorSize]
        /\ pc' = [pc EXCEPT ![t] = NextPart(rest)]
    BY <1>6 DEF MiddleDone
  <2>2. startSector[t] * SectorSize = r.off + total[t]
    BY <2>1 DEF Placed
  <2>3. Rest(t) \in Nat /\ Rest(t) = PLen(r) - total[t]
    BY <1>1, <1>2 DEF Rest
  <2>4. num \in Nat /\ num * SectorSize \in Nat /\ rest \in 0 .. SectorSize - 1
    <3> DEFINE a == Rest(t)
    <3>1. /\ a \div SectorSize \in Nat /\ (a \div SectorSize) * SectorSize \in Nat
          /\ (a % SectorSize) \in 0 .. SectorSize - 1
          /\ a = (a \div SectorSize) * SectorSize + (a % SectorSize)
      BY <2>3, DivMod
    <3>2. num = a \div SectorSize
      BY DEF NumSectors
    <3> HIDE DEF num
    <3>3. rest = (a % SectorSize)
      BY <2>3, <3>1, <3>2
    <3> QED
      BY <3>1, <3>2, <3>3
  <2>5. (startSector[t] + num) * SectorSize = r.off + (total[t] + num * SectorSize)
    <3>1. (startSector[t] + num) * SectorSize
            = startSector[t] * SectorSize + num * SectorSize
      BY <1>1, <2>4, SMT
    <3> QED
      BY <1>1, <1>2, <2>2, <2>4, <3>1
  <2>6. /\ NextPart(rest) \in {"tail", "ret"}
        /\ NextPart(rest) = "tail" => rest \in 1 .. SectorSize - 1
    BY <2>4, NextPartFacts
  <2>7. rest = PLen(r) - (total[t] + num * SectorSize)
    BY <1>1, <1>2, <2>3, <2>4
  <2> DEFINE sum == total[t] + num * SectorSize
             sector == startSector[t] + num
  <2>8. sum \in Nat /\ sector \in Nat /\ sum =< PLen(r)
    BY <1>1, <1>2, <2>3, <2>4
  <2>9. NextPart(rest) = "tail" => Locks(r)
    <3>1. SUFFICES ASSUME NextPart(rest) = "tail" PROVE Locks(r)
      OBVIOUS
    <3>2. sector * SectorSize = r.off + sum /\ PLen(r) - sum \in 1 .. SectorSize - 1
      BY <2>5, <2>6, <2>7, <3>1
    <3> HIDE DEF sum, sector
    <3> QED
      BY <1>1, <2>8, <3>2, TailLocks
  <2>10. Placed(t)'
    <3>1. /\ pc'[t] = NextPart(rest) /\ k'[t] = 0 /\ total'[t] = sum
          /\ startSector'[t] = sector /\ req'[t] = r
      BY <1>3, <2>1
    <3>2. sector * SectorSize = r.off + sum /\ rest = PLen(r) - sum
      BY <2>5, <2>7
    <3> HIDE DEF sum, sector, rest, num
    <3> QED
      BY <1>1, <2>6, <2>9, <3>1, <3>2
      DEF Placed, Working, InHead, InTail, Rest, NumSectors
  <2>11. total'[t] =< PLen(req[t])
    BY <1>3, <2>1, <2>8
  <2>12. sector = startSector[t] + num /\ sum = total[t] + num * SectorSize
    OBVIOUS
  <2> HIDE DEF num, rest, sum, sector
  <2>13. /\ pc' \in [Thread -> Position] /\ pc'[t] \in {"mid", "tail", "ret"}
         /\ \A u \in Thread \ {t} : pc'[u] = pc[u]
    BY <1>3, <2>1, <2>6 DEF Position
  <2>14. /\ startSector' \in [Thread -> Nat]
         /\ total' \in [Thread -> Nat]
         /\ k' \in [Thread -> Nat]
         /\ \A u \in Thread \ {t} :
               startSector'[u] = startSector[u] /\ total'[u] = total[u] /\ k'[u] = k[u]
    BY <1>3, <2>1, <2>8, <2>12
  <2> QED
    BY <2>10, <2>11, <2>13, <2>14
<1>7. CASE TailDone(t)
  <2>1. /\ pc' = [pc EXCEPT ![t] = "ret"]
        /\ startSector' = startSector /\ total' = total /\ k' = k
    BY <1>7 DEF TailDone
  <2>2. Placed(t)'
    BY <1>3, <2>1 DEF Placed, Working, InHead, InTail
  <2> QED
    BY <1>1, <1>2, <1>3, <2>1, <2>2 DEF Position
<1> QED
  BY <1>4, <1>5, <1>6, <1>7 DEF Advance

(* Giving up leaves the goroutine placed as well.                             *)
LEMMA AbortFacts ==
    ASSUME TypeOK, NEW t \in Thread, Abort(t), req' = req
    PROVE  /\ pc' \in [Thread -> Position]
           /\ pc'[t] = "ret"
           /\ startSector' = startSector /\ total' = total /\ k' = k
           /\ Placed(t)'
           /\ \A u \in Thread \ {t} : pc'[u] = pc[u]
<1>1. pc' = [pc EXCEPT ![t] = "ret"] /\ pc \in [Thread -> Position]
  BY DEF Abort, TypeOK
<1> QED
  BY <1>1 DEF Abort, Placed, Working, InHead, InTail, Position

-----------------------------------------------------------------------------
(* What a step does to the data.                                              *)

(* A piece lies in one sector, and the sector on the disk.                    *)
LEMMA PieceInSector ==
    ASSUME TypeOK, NEW t \in Thread, Placed(t), Working(t)
    PROVE  /\ Piece(t) \subseteq SectorOf(t)
           /\ SectorOf(t) \subseteq Byte
           /\ Piece(t) \subseteq Byte
           /\ \A b \in SectorOf(t) : b - Base(t) \in SectorByte
<1>1. /\ Base(t) \in Nat /\ From(t) \in Nat /\ Count(t) \in Nat
      /\ From(t) + Count(t) =< SectorSize /\ Base(t) + SectorSize =< Capacity
      /\ Capacity \in Nat
  BY PieceFacts, RequestBounds DEF Placed, Working
<1> QED
  BY <1>1 DEF Piece, SectorOf, Byte, SectorByte

(* The bytes of p that a step records are bytes of p, and data.               *)
LEMMA RecordFacts ==
    ASSUME TypeOK, NEW t \in Thread, Placed(t), Working(t),
           NEW data, \A b \in Piece(t) : data[b] \in Datum, Record(t, data)
    PROVE  /\ moved' = [u \in Thread |-> moved'[u]]
           /\ DOMAIN moved'[t] \subseteq 0 .. PLen(req[t]) - 1
           /\ moved'[t] \in [DOMAIN moved'[t] -> Datum]
           /\ \A u \in Thread \ {t} : moved'[u] = moved[u]
<1> DEFINE all == DOMAIN moved[t] \cup Indices(t)
           new == [i \in all |-> IF i \in Indices(t)
                                 THEN data[Base(t) + From(t) + i - Index(t)]
                                 ELSE moved[t][i]]
<1>1. /\ moved = [u \in Thread |-> moved[u]]
      /\ DOMAIN moved[t] \subseteq 0 .. PLen(req[t]) - 1
      /\ moved[t] \in [DOMAIN moved[t] -> Datum]
  BY DEF TypeOK
<1>2. moved' = [moved EXCEPT ![t] = new]
  BY DEF Record
<1>3. moved'[t] = new /\ DOMAIN moved'[t] = all
  BY <1>1, <1>2
<1>4. /\ Base(t) \in Nat /\ From(t) \in Nat /\ Count(t) \in Nat /\ Index(t) \in Nat
      /\ Index(t) + Count(t) =< PLen(req[t]) /\ PLen(req[t]) \in Nat
  BY PieceFacts, RequestBounds DEF Placed, Working
<1>5. ASSUME NEW i \in Indices(t)
      PROVE  /\ i \in 0 .. PLen(req[t]) - 1
             /\ Base(t) + From(t) + i - Index(t) \in Piece(t)
  BY <1>4 DEF Indices, Piece
<1>6. all \subseteq 0 .. PLen(req[t]) - 1
  BY <1>1, <1>5
<1>7. \A i \in all : new[i] \in Datum
  BY <1>1, <1>5
<1> QED
  BY <1>1, <1>2, <1>3, <1>6, <1>7

(* A datum of the piece is one of the request.                                *)
LEMMA OwnDatumFacts ==
    ASSUME TypeOK, NEW t \in Thread, Placed(t), Working(t), NEW b \in Piece(t)
    PROVE  /\ b \in Nat
           /\ b - req[t].off \in Nat
           /\ OwnDatum(t, b) = [req |-> req[t], idx |-> b - req[t].off]
           /\ OwnDatum(t, b) \in Datum
<1>1. /\ req[t] \in Request /\ req[t].off \in Nat
      /\ Base(t) \in Nat /\ From(t) \in Nat /\ Count(t) \in Nat /\ Index(t) \in Nat
      /\ Index(t) = Base(t) + From(t) - req[t].off
  BY PieceFacts, RequestBounds DEF Placed, Working
<1>2. b \in Nat /\ b - req[t].off \in Nat
  BY <1>1 DEF Piece
<1>3. Index(t) + b - (Base(t) + From(t)) = b - req[t].off
  BY <1>1, <1>2
<1> QED
  BY <1>1, <1>2, <1>3 DEF OwnDatum, Datum

(* Writing a sector keeps the types.                                          *)
LEMMA PutFacts ==
    ASSUME TypeOK, NEW t \in Thread, Placed(t), Working(t),
           NEW data, \A b \in SectorOf(t) : data[b] \in Datum, Put(t, data)
    PROVE  /\ disk' \in [Byte -> Datum]
           /\ last' \in [Byte -> Datum]
           /\ tmpBuf' \in [Thread -> [SectorByte -> Datum]]
           /\ mutex' = mutex /\ req' = req
           /\ moved' = [u \in Thread |-> moved'[u]]
           /\ DOMAIN moved'[t] \subseteq 0 .. PLen(req[t]) - 1
           /\ moved'[t] \in [DOMAIN moved'[t] -> Datum]
           /\ \A u \in Thread \ {t} : moved'[u] = moved[u] /\ tmpBuf'[u] = tmpBuf[u]
<1>1. disk' \in [Byte -> Datum]
  BY DEF Put, TypeOK
<1>2. last' \in [Byte -> Datum]
  <2>1. ASSUME NEW b \in Piece(t) PROVE [req |-> req[t], idx |-> b - req[t].off] \in Datum
    BY OwnDatumFacts
  <2> QED
    BY <2>1 DEF Put, TypeOK
<1>3. /\ tmpBuf' \in [Thread -> [SectorByte -> Datum]]
      /\ \A u \in Thread \ {t} : tmpBuf'[u] = tmpBuf[u]
  <2>1. NoBuffer \in [SectorByte -> Datum]
    BY DEF NoBuffer, Datum
  <2> QED
    BY <2>1 DEF Put, TypeOK
<1>4. /\ moved' = [u \in Thread |-> moved'[u]]
      /\ DOMAIN moved'[t] \subseteq 0 .. PLen(req[t]) - 1
      /\ moved'[t] \in [DOMAIN moved'[t] -> Datum]
      /\ \A u \in Thread \ {t} : moved'[u] = moved[u]
  <2> DEFINE own == [b \in Piece(t) |-> OwnDatum(t, b)]
  <2>1. \A b \in Piece(t) : own[b] \in Datum
    BY OwnDatumFacts
  <2>2. Record(t, own)
    BY DEF Put
  <2> HIDE DEF own
  <2> QED
    BY <2>1, <2>2, RecordFacts
<1> QED
  BY <1>1, <1>2, <1>3, <1>4 DEF Put

-----------------------------------------------------------------------------
(* Type correctness.                                                          *)

(* The request of an idle goroutine is none of the requests.                  *)
LEMMA NoRequestFacts ==
    NoRequest \notin Request /\ PLen(NoRequest) = 0
BY DEF NoRequest, PLen

(* A read of the disk, or a write to it, followed by Advance or Abort.        *)
LEMMA TransferTyped ==
    ASSUME TypeInv, NEW t \in Thread, Working(t), req' = req,
           Advance(t) \/ Abort(t),
           disk' \in [Byte -> Datum], last' \in [Byte -> Datum],
           tmpBuf' \in [Thread -> [SectorByte -> Datum]],
           mutex' = mutex,
           moved' = [u \in Thread |-> moved'[u]],
           DOMAIN moved'[t] \subseteq 0 .. PLen(req[t]) - 1,
           moved'[t] \in [DOMAIN moved'[t] -> Datum],
           \A u \in Thread \ {t} : moved'[u] = moved[u]
    PROVE  TypeInv'
<1>1. TypeOK /\ \A u \in Thread : Placed(u)
  BY DEF TypeInv
<1>2. /\ pc' \in [Thread -> Position]
      /\ startSector' \in [Thread -> Nat]
      /\ total' \in [Thread -> Nat]
      /\ k' \in [Thread -> Nat]
      /\ pc'[t] # "idle"
      /\ total'[t] # 0 => total'[t] =< PLen(req[t])
      /\ Placed(t)'
      /\ \A u \in Thread \ {t} :
            /\ pc'[u] = pc[u] /\ startSector'[u] = startSector[u]
            /\ total'[u] = total[u] /\ k'[u] = k[u]
  <2>1. CASE Advance(t)
    BY <1>1, <2>1, AdvanceFacts
  <2>2. CASE Abort(t)
    BY <1>1, <2>2, AbortFacts DEF TypeOK
  <2> QED
    BY <2>1, <2>2
<1>3. ASSUME NEW u \in Thread PROVE Placed(u)'
  <2>1. CASE u = t
    BY <1>2, <2>1
  <2>2. CASE u # t
    BY <1>1, <1>2, <2>2, PlacedFrame
  <2> QED
    BY <2>1, <2>2
<1>4. err' \in [Thread -> {"nil", "EOF", "short write", "failed"}]
  BY <1>1 DEF TypeOK, Advance, Abort
<1>5. ASSUME NEW u \in Thread
      PROVE  /\ pc'[u] = "idle" <=> req'[u] = NoRequest
             /\ total'[u] # 0 => total'[u] =< PLen(req'[u])
             /\ DOMAIN moved'[u] \subseteq 0 .. PLen(req'[u]) - 1
             /\ moved'[u] \in [DOMAIN moved'[u] -> Datum]
  <2>1. CASE u = t
    <3>1. req[t] # NoRequest
      BY <1>1 DEF TypeOK, Working
    <3> QED
      BY <1>2, <2>1, <3>1
  <2>2. CASE u # t
    BY <1>1, <1>2, <2>2 DEF TypeOK
  <2> QED
    BY <2>1, <2>2
<1>6. TypeOK'
  BY <1>1, <1>2, <1>4, <1>5 DEF TypeOK
<1> QED
  BY <1>3, <1>6 DEF TypeInv

(* The types and places hold at the beginning.                                *)
LEMMA TypeInit == Init => TypeInv
<1> SUFFICES ASSUME Init PROVE TypeInv
  OBVIOUS
<1>1. TypeOK
  BY NoRequestFacts DEF Init, TypeOK, Datum, Position, NoBuffer, Nothing
<1>2. ASSUME NEW t \in Thread PROVE Placed(t)
  BY DEF Init, Placed, Working, InHead, InTail
<1> QED
  BY <1>1, <1>2 DEF TypeInv

(* TypeInv is inductive: one step per action of Next.                         *)
LEMMA TypeStep == TypeInv /\ [Next]_vars => TypeInv'
<1> SUFFICES ASSUME TypeInv, [Next]_vars PROVE TypeInv'
  OBVIOUS
<1>0. TypeOK /\ \A u \in Thread : Placed(u)
  BY DEF TypeInv
<1>1. ASSUME NEW t \in Thread, NEW r \in Request, Call(t, r) PROVE TypeInv'
  <2>1. /\ pc[t] = "idle" /\ total[t] = 0 /\ k[t] = 0
        /\ req' = [req EXCEPT ![t] = r] /\ r # NoRequest
        /\ startSector' = [startSector EXCEPT ![t] = r.off \div SectorSize]
        /\ disk' = disk /\ mutex' = mutex /\ total' = total /\ k' = k
        /\ tmpBuf' = tmpBuf /\ moved' = moved /\ last' = last
    BY <1>0, <1>1, NoRequestFacts DEF Call, Placed
  <2>2. r.off \in Nat /\ r.off \div SectorSize \in Nat
    <3>1. r.off \in Nat
      OBVIOUS
    <3> QED
      BY <3>1, DivMod
  <2>3. /\ pc' = [pc EXCEPT ![t] = IF Rejected(r) THEN "ret"
                                   ELSE IF Locks(r) THEN "lock" ELSE FirstPart(r)]
        /\ pc'[t] \in {"lock", "head", "mid", "tail", "ret"}
        /\ pc' \in [Thread -> Position]
    <3>1. CASE Rejected(r)
      BY <1>0, <1>1, <3>1 DEF Call, TypeOK, Position
    <3>2. CASE ~Rejected(r)
      BY <1>0, <1>1, <3>2, FirstPartFacts DEF Call, TypeOK, Position
    <3> QED
      BY <3>1, <3>2
  <2>4. err' \in [Thread -> {"nil", "EOF", "short write", "failed"}]
    BY <1>0, <1>1 DEF Call, TypeOK
  <2>5. TypeOK'
    <3>1. ASSUME NEW u \in Thread
          PROVE  /\ pc'[u] = "idle" <=> req'[u] = NoRequest
                 /\ total'[u] # 0 => total'[u] =< PLen(req'[u])
                 /\ DOMAIN moved'[u] \subseteq 0 .. PLen(req'[u]) - 1
                 /\ moved'[u] \in [DOMAIN moved'[u] -> Datum]
      <4>1. CASE u = t
        <5>1. DOMAIN moved[t] = {}
          <6>1. DOMAIN moved[t] \subseteq 0 .. PLen(req[t]) - 1 /\ req[t] = NoRequest
            BY <1>0, <2>1 DEF TypeOK
          <6> QED
            BY <6>1, NoRequestFacts
        <5> QED
          BY <1>0, <2>1, <2>3, <4>1, <5>1 DEF TypeOK
      <4>2. CASE u # t
        BY <1>0, <2>1, <2>3, <4>2 DEF TypeOK
      <4> QED
        BY <4>1, <4>2
    <3> QED
      BY <1>0, <2>1, <2>2, <2>3, <2>4, <3>1 DEF TypeOK
  <2>6. ASSUME NEW u \in Thread PROVE Placed(u)'
    <3>1. CASE u # t
      BY <1>0, <2>1, <2>3, <3>1, PlacedFrame DEF TypeOK
    <3>2. CASE u = t
      <4>1. /\ req'[t] = r /\ total'[t] = 0 /\ k'[t] = 0
            /\ startSector'[t] = r.off \div SectorSize
        BY <1>0, <2>1 DEF TypeOK
      <4>2. PLen(r) - 0 = PLen(r) /\ r.off + 0 = r.off
        BY <2>2 DEF PLen, Capacity
      <4>3. CASE Rejected(r)
        <5>1. pc'[t] = "ret"
          BY <1>0, <2>3, <4>3 DEF TypeOK
        <5> QED
          BY <3>2, <5>1 DEF Placed, Working, InHead, InTail
      <4>4. CASE ~Rejected(r) /\ Locks(r)
        <5>1. pc'[t] = "lock"
          BY <1>0, <2>3, <4>4 DEF TypeOK
        <5> QED
          BY <3>2, <4>1, <4>4, <5>1 DEF Placed, Working, InHead, InTail
      <4>5. CASE ~Rejected(r) /\ ~Locks(r)
        <5>1. pc'[t] = FirstPart(r)
          BY <1>0, <2>3, <4>5 DEF TypeOK
        <5> QED
          BY <3>2, <4>1, <4>2, <4>5, <5>1, FirstPartFacts
          DEF Placed, Working, InHead, InTail, Rest, NumSectors
      <4> QED
        BY <4>3, <4>4, <4>5
    <3> QED
      BY <3>1, <3>2
  <2> QED
    BY <2>5, <2>6 DEF TypeInv
<1>2. ASSUME NEW t \in Thread, Lock(t) PROVE TypeInv'
  <2> DEFINE r == req[t]
  <2>1. /\ pc[t] = "lock" /\ pc' = [pc EXCEPT ![t] = FirstPart(r)]
        /\ mutex' = t /\ disk' = disk /\ req' = req /\ startSector' = startSector
        /\ total' = total /\ tmpBuf' = tmpBuf /\ err' = err /\ k' = k
        /\ moved' = moved /\ last' = last
    BY <1>2 DEF Lock, locals
  <2>2. /\ r \in Request /\ ~Rejected(r) /\ total[t] = 0 /\ k[t] = 0
        /\ startSector[t] = r.off \div SectorSize
    BY <1>0, <2>1, InCall DEF Placed
  <2>3. FirstPart(r) \in {"head", "mid", "tail", "ret"}
    BY <2>2, FirstPartFacts
  <2>4. TypeOK'
    BY <1>0, <2>1, <2>3 DEF TypeOK, Position
  <2>5. ASSUME NEW u \in Thread PROVE Placed(u)'
    <3>1. CASE u # t
      BY <1>0, <2>1, <3>1, PlacedFrame DEF TypeOK
    <3>2. CASE u = t
      <4>1. pc'[t] = FirstPart(r)
        BY <1>0, <2>1 DEF TypeOK
      <4>2. PLen(r) - 0 = PLen(r) /\ r.off + 0 = r.off
        BY <2>2, RequestBounds
      <4> QED
        BY <2>1, <2>2, <3>2, <4>1, <4>2, FirstPartFacts
        DEF Placed, Working, InHead, InTail, Rest, NumSectors
    <3> QED
      BY <3>1, <3>2
  <2> QED
    BY <2>4, <2>5 DEF TypeInv
<1>3. ASSUME NEW t \in Thread, Fill(t) PROVE TypeInv'
  <2>1. Working(t) /\ Record(t, disk) /\ (Advance(t) \/ Abort(t))
    BY <1>3 DEF Fill, Working
  <2>2. \A b \in Piece(t) : disk[b] \in Datum
    <3>1. Piece(t) \subseteq Byte
      BY <1>0, <2>1, PieceInSector
    <3> QED
      BY <1>0, <3>1 DEF TypeOK
  <2>3. /\ moved' = [u \in Thread |-> moved'[u]]
        /\ DOMAIN moved'[t] \subseteq 0 .. PLen(req[t]) - 1
        /\ moved'[t] \in [DOMAIN moved'[t] -> Datum]
        /\ \A u \in Thread \ {t} : moved'[u] = moved[u]
    BY <1>0, <2>1, <2>2, RecordFacts
  <2> QED
    BY <1>0, <1>3, <2>1, <2>3, TransferTyped DEF Fill, TypeOK
<1>4. ASSUME NEW t \in Thread, Fetch(t) PROVE TypeInv'
  <2>1. /\ Working(t) /\ req[t].kind = "write"
        /\ disk' = disk /\ mutex' = mutex /\ req' = req /\ startSector' = startSector
        /\ total' = total /\ err' = err /\ k' = k /\ moved' = moved /\ last' = last
        /\ pc' \in [Thread -> Position]
        /\ \A u \in Thread \ {t} : pc'[u] = pc[u]
        /\ \/ pc[t] = "head" /\ pc'[t] = "headWrite"
           \/ pc[t] = "tail" /\ pc'[t] = "tailWrite"
    BY <1>0, <1>4 DEF Fetch, Working, TypeOK, Position
  <2>2. tmpBuf' \in [Thread -> [SectorByte -> Datum]]
    <3>1. ASSUME NEW x \in SectorByte
          PROVE  (IF Base(t) + x \in Piece(t) THEN OwnDatum(t, Base(t) + x)
                                              ELSE disk[Base(t) + x]) \in Datum
      <4>1. Base(t) + x \in Byte
        BY <1>0, <2>1, PieceFacts DEF Byte, SectorByte, Capacity
      <4>2. CASE Base(t) + x \in Piece(t)
        BY <1>0, <2>1, <4>2, OwnDatumFacts
      <4>3. CASE Base(t) + x \notin Piece(t)
        BY <1>0, <4>1, <4>3 DEF TypeOK
      <4> QED
        BY <4>2, <4>3
    <3> QED
      BY <1>0, <1>4, <3>1 DEF Fetch, TypeOK
  <2>3. TypeOK'
    <3>1. ASSUME NEW u \in Thread PROVE pc'[u] = "idle" <=> req'[u] = NoRequest
      BY <1>0, <2>1 DEF TypeOK
    <3> QED
      BY <1>0, <2>1, <2>2, <3>1 DEF TypeOK
  <2>4. ASSUME NEW u \in Thread PROVE Placed(u)'
    <3>1. CASE u # t
      BY <1>0, <2>1, <3>1, PlacedFrame
    <3>2. CASE u = t
      BY <1>0, <2>1, <3>2 DEF Placed, Working, InHead, InTail, Rest, NumSectors
    <3> QED
      BY <3>1, <3>2
  <2> QED
    BY <2>3, <2>4 DEF TypeInv
<1>5. ASSUME NEW t \in Thread, Store(t) PROVE TypeInv'
  <2> DEFINE data == [b \in SectorOf(t) |-> tmpBuf[t][b - Base(t)]]
  <2>1. Working(t) /\ Put(t, data) /\ (Advance(t) \/ Abort(t))
    BY <1>5 DEF Store, Working
  <2>2. \A b \in SectorOf(t) : data[b] \in Datum
    <3>1. \A b \in SectorOf(t) : b - Base(t) \in SectorByte
      BY <1>0, <2>1, PieceInSector
    <3>2. tmpBuf[t] \in [SectorByte -> Datum]
      BY <1>0 DEF TypeOK
    <3>3. \A b \in SectorOf(t) : tmpBuf[t][b - Base(t)] \in Datum
      BY <3>1, <3>2
    <3> QED
      BY <3>3
  <2> HIDE DEF data
  <2> QED
    BY <1>0, <2>1, <2>2, PutFacts, TransferTyped
<1>6. ASSUME NEW t \in Thread, Overwrite(t) PROVE TypeInv'
  <2> DEFINE data == [b \in SectorOf(t) |-> OwnDatum(t, b)]
  <2>1. Working(t) /\ Put(t, data) /\ (Advance(t) \/ Abort(t)) /\ pc[t] = "mid"
    BY <1>6 DEF Overwrite, Working
  <2>2. SectorOf(t) = Piece(t)
    BY <1>0, <2>1, PieceFacts
    DEF SectorOf, Piece, From, Count, InHead, InTail
  <2>3. \A b \in SectorOf(t) : data[b] \in Datum
    BY <1>0, <2>1, <2>2, OwnDatumFacts
  <2> HIDE DEF data
  <2> QED
    BY <1>0, <2>1, <2>3, PutFacts, TransferTyped
<1>7. ASSUME NEW t \in Thread, Fail(t) PROVE TypeInv'
  <2>1. Working(t) /\ Abort(t) /\ req' = req
    BY <1>7 DEF Fail, Working
  <2>2. tmpBuf' \in [Thread -> [SectorByte -> Datum]]
    BY <1>0, <1>7 DEF Fail, TypeOK, NoBuffer, Datum
  <2> QED
    BY <1>0, <1>7, <2>1, <2>2, TransferTyped DEF Fail, TypeOK
<1>8. ASSUME NEW t \in Thread, Return(t) PROVE TypeInv'
  <2>1. TypeOK'
    BY <1>0, <1>8, NoRequestFacts DEF Return, TypeOK, Position, Nothing
  <2>2. ASSUME NEW u \in Thread PROVE Placed(u)'
    <3>1. CASE u # t
      BY <1>0, <1>8, <3>1, PlacedFrame DEF Return, TypeOK
    <3>2. CASE u = t
      BY <1>0, <1>8, <3>2 DEF Return, TypeOK, Placed, Working, InHead, InTail
    <3> QED
      BY <3>1, <3>2
  <2> QED
    BY <2>1, <2>2 DEF TypeInv
<1>9. CASE UNCHANGED vars
  <2>1. TypeOK'
    BY <1>0, <1>9 DEF TypeOK, vars
  <2>2. ASSUME NEW u \in Thread PROVE Placed(u)'
    BY <1>0, <1>9, PlacedFrame DEF vars
  <2> QED
    BY <2>1, <2>2 DEF TypeInv
<1> QED
  BY <1>1, <1>2, <1>3, <1>4, <1>5, <1>6, <1>7, <1>8, <1>9 DEF Next, Work

(* Every state of every execution is well typed; in particular no slice of    *)
(* ReadAt or WriteAt is out of range, whatever the sizes and offsets.         *)
THEOREM TypeCorrect == Spec => []TypeOK
<1>1. TypeInv => TypeOK
  BY DEF TypeInv
<1> QED
  BY TypeInit, TypeStep, <1>1, PTL DEF Spec

-----------------------------------------------------------------------------
(* Misaligned writes survive.                                                 *)

Buffering(t) == pc[t] \in {"headWrite", "tailWrite"}

(* What is written back from tmpBuf is an edge sector.                        *)
LEMMA EdgeOfBuffer ==
    ASSUME TypeOK, NEW t \in Thread, Placed(t), Buffering(t), NEW b \in SectorOf(t)
    PROVE  EdgeSector(b \div SectorSize)
<1> DEFINE r == req[t]
           s == startSector[t]
           x == b - Base(t)
<1>1. /\ Working(t) /\ r \in Request /\ ~Rejected(r) /\ Locks(r) /\ r.kind = "write"
      /\ s \in Nat /\ total[t] \in Nat /\ k[t] = 0
  BY InCall DEF Buffering, Working, Placed, InHead, InTail
<1>2. /\ r.off \in Nat /\ PLen(r) = r.len /\ r.len \in Nat
  BY <1>1, RequestBounds
<1>3. Base(t) = s * SectorSize /\ Base(t) \in Nat
  BY <1>1, PieceFacts DEF Base
<1>4. x \in 0 .. SectorSize - 1 /\ b \in Nat /\ b = s * SectorSize + x
  BY <1>3 DEF SectorOf
<1>5. b \div SectorSize = s
  <2>1. s \in Nat
    BY <1>1
  <2> HIDE DEF s, x
  <2> QED
    BY ONLY SectorSize \in Nat \ {0}, <1>4, <2>1, DivModUnique
<1>6. CASE InHead(t)
  <2>1. HeadOff(r) # 0 /\ s = r.off \div SectorSize
    BY <1>6 DEF Placed
  <2> QED
    BY <1>1, <1>5, <2>1 DEF EdgeSector
<1>7. CASE InTail(t)
  <2> DEFINE rest == Rest(t)
             end == r.off + r.len
  <2>1. /\ s * SectorSize = r.off + total[t] /\ rest \in 1 .. SectorSize - 1
        /\ rest = r.len - total[t]
    BY <1>2, <1>7 DEF Placed, Rest
  <2>2. end \in Nat /\ end = s * SectorSize + rest /\ rest \in 0 .. SectorSize - 1
    BY <1>1, <1>2, <2>1
  <2>3. end \div SectorSize = s /\ (end % SectorSize) = rest
    <3>1. s \in Nat
      BY <1>1
    <3> HIDE DEF s, rest, end
    <3> QED
      BY ONLY SectorSize \in Nat \ {0}, <2>2, <3>1, DivModUnique
  <2>4. rest # 0
    BY <2>1
  <2> QED
    BY <1>1, <1>5, <2>3, <2>4 DEF EdgeSector
<1> QED
  BY <1>6, <1>7 DEF Buffering, InHead, InTail

(* A buffer stays fresh when others write, if what they write is aligned.     *)
LEMMA FreshFrame ==
    ASSUME NEW u \in Thread, Fresh(u), pc'[u] = pc[u], req'[u] = req[u],
           startSector'[u] = startSector[u], total'[u] = total[u], k'[u] = k[u],
           tmpBuf'[u] = tmpBuf[u],
           pc[u] \in {"headWrite", "tailWrite"} =>
               \A b \in SectorOf(u) : last'[b] = last[b] \/ StoredByAligned(b)'
    PROVE  Fresh(u)'
<1>1. /\ Base(u)' = Base(u) /\ From(u)' = From(u) /\ Count(u)' = Count(u)
      /\ SectorOf(u)' = SectorOf(u) /\ Piece(u)' = Piece(u)
  BY DEF Base, From, Count, SectorOf, Piece, InHead, InTail, Rest
<1>2. ASSUME NEW b, last'[b] = last[b], StoredByAligned(b) PROVE StoredByAligned(b)'
  BY <1>2 DEF StoredByAligned
<1> QED
  BY <1>1, <1>2 DEF Fresh

(* Writing one sector from data that is p in the piece and fresh around it.   *)
LEMMA PutSurvives ==
    ASSUME SurvivalInv, NEW t \in Thread, Working(t), req[t].kind = "write",
           NEW data, Put(t, data), Advance(t) \/ Abort(t),
           \A b \in Piece(t) : data[b] = [req |-> req[t], idx |-> b - req[t].off],
           \A b \in SectorOf(t) \ Piece(t) :
               /\ data[b] = last[b] \/ StoredByAligned(b)
               /\ EdgeSector(b \div SectorSize)
    PROVE  /\ \A u \in Thread : Fresh(u)'
           /\ MisalignedWritesSurvive'
<1>1. TypeOK /\ (\A u \in Thread : Placed(u)) /\ \A u \in Thread : Fresh(u)
  BY DEF SurvivalInv, TypeInv
<1>2. /\ disk' = [b \in Byte |-> IF b \in SectorOf(t) THEN data[b] ELSE disk[b]]
      /\ last' = [b \in Byte |-> IF b \in Piece(t)
                                 THEN [req |-> req[t], idx |-> b - req[t].off]
                                 ELSE last[b]]
      /\ tmpBuf' = [tmpBuf EXCEPT ![t] = NoBuffer] /\ req' = req
  BY DEF Put
<1>3. Piece(t) \subseteq SectorOf(t) /\ SectorOf(t) \subseteq Byte
  BY <1>1, PieceInSector
<1>4. MisalignedWritesSurvive'
  <2>1. ASSUME NEW b \in Byte, disk'[b] # last'[b]
        PROVE  StoredByAligned(b)' /\ EdgeSector(b \div SectorSize)
    <3>1. b \notin Piece(t)
      BY <1>2, <1>3, <2>1
    <3>2. last'[b] = last[b]
      BY <1>2, <3>1
    <3>3. CASE b \in SectorOf(t)
      <4>1. disk'[b] = data[b]
        BY <1>2, <3>3
      <4> QED
        BY <2>1, <3>1, <3>2, <3>3, <4>1 DEF StoredByAligned
    <3>4. CASE b \notin SectorOf(t)
      <4>1. disk'[b] = disk[b]
        BY <1>2, <3>4
      <4> QED
        BY <2>1, <3>2, <4>1 DEF StoredByAligned, SurvivalInv, MisalignedWritesSurvive
    <3> QED
      BY <3>3, <3>4
  <2> QED
    BY <2>1 DEF MisalignedWritesSurvive, EdgeSector
<1>5. /\ pc'[t] \notin {"headWrite", "tailWrite"}
      /\ \A u \in Thread \ {t} :
            /\ pc'[u] = pc[u] /\ startSector'[u] = startSector[u]
            /\ total'[u] = total[u] /\ k'[u] = k[u]
  <2>1. CASE Advance(t)
    BY <1>1, <1>2, <2>1, AdvanceFacts
  <2>2. CASE Abort(t)
    BY <1>1, <1>2, <2>2, AbortFacts
  <2> QED
    BY <2>1, <2>2
<1>6. ASSUME NEW u \in Thread PROVE Fresh(u)'
  <2>1. CASE u = t
    BY <1>5, <2>1 DEF Fresh
  <2>2. CASE u # t
    <3>1. ASSUME pc[u] \in {"headWrite", "tailWrite"}, NEW b \in SectorOf(u)
          PROVE  last'[b] = last[b] \/ StoredByAligned(b)'
      <4>1. ~Locks(req[t])
        <5>1. mutex = u
          BY <1>1, <3>1 DEF SurvivalInv, Exclusion, Active, Placed, Working, InHead, InTail
        <5>2. Locks(req[t]) => mutex = t
          BY <1>1 DEF SurvivalInv, Exclusion, Active, Placed, Working
        <5> QED
          BY <2>2, <5>1, <5>2
      <4>2. b \in Byte
        BY <1>1, <3>1, PieceInSector DEF Working
      <4>3. CASE b \in Piece(t)
        <5>1. last'[b] = [req |-> req[t], idx |-> b - req[t].off]
          BY <1>2, <4>2, <4>3
        <5>2. last'[b] \in [req : Request, idx : Nat]
          BY <1>1, <4>3, <5>1, OwnDatumFacts, PieceFacts
        <5>3. last'[b] # Zero /\ last'[b].req = req[t]
          BY <5>1, <5>2
        <5> QED
          BY <4>1, <5>3 DEF StoredByAligned, Locks, Aligned, PLen
      <4>4. CASE b \notin Piece(t)
        BY <1>2, <4>2, <4>4
      <4> QED
        BY <4>3, <4>4
    <3>2. tmpBuf'[u] = tmpBuf[u] /\ req'[u] = req[u]
      BY <1>1, <1>2, <2>2 DEF TypeOK
    <3> QED
      BY <1>1, <1>5, <2>2, <3>1, <3>2, FreshFrame
  <2> QED
    BY <2>1, <2>2
<1> QED
  BY <1>4, <1>6

(* The survival invariant holds at the beginning.                             *)
LEMMA SurvivalInit == Init => SurvivalInv
<1> SUFFICES ASSUME Init PROVE SurvivalInv
  OBVIOUS
<1>1. TypeInv
  BY TypeInit
<1>2. Exclusion /\ (\A t \in Thread : Fresh(t)) /\ MisalignedWritesSurvive
  BY DEF Init, Exclusion, Active, Fresh, MisalignedWritesSurvive
<1> QED
  BY <1>1, <1>2 DEF SurvivalInv

(* The mutex is taken and given back with the misaligned calls.               *)
LEMMA ExclusionStep ==
    ASSUME TypeInv, TypeInv', Exclusion, [Next]_vars
    PROVE  Exclusion'
<1>0. /\ TypeOK /\ (\A u \in Thread : Placed(u))
      /\ pc \in [Thread -> Position] /\ req \in [Thread -> Request \cup {NoRequest}]
  BY DEF TypeInv, TypeOK
<1> DEFINE Held(u) == Active(u) /\ ~Rejected(req[u]) /\ Locks(req[u])
<1>1. ASSUME NEW t \in Thread, mutex' = mutex, \A u \in Thread : Held(u)' <=> Held(u)
      PROVE  Exclusion'
  BY <1>1 DEF Exclusion
<1>2. ASSUME NEW t \in Thread, NEW r \in Request, Call(t, r) PROVE Exclusion'
  <2>1. mutex' = mutex /\ pc[t] = "idle" /\ req' = [req EXCEPT ![t] = r]
        /\ pc' = [pc EXCEPT ![t] = IF Rejected(r) THEN "ret"
                                   ELSE IF Locks(r) THEN "lock" ELSE FirstPart(r)]
    BY <1>2 DEF Call
  <2>2. ~Held(t) /\ ~Held(t)'
    BY <1>0, <2>1 DEF Active, Rejected, Locks, Aligned, PLen
  <2>3. ASSUME NEW u \in Thread, u # t PROVE Held(u)' <=> Held(u)
    BY <1>0, <2>1, <2>3 DEF Active, Rejected, Locks, Aligned, PLen
  <2> QED
    BY <1>1, <2>1, <2>2, <2>3
<1>3. ASSUME NEW t \in Thread, Lock(t) PROVE Exclusion'
  <2>1. /\ pc[t] = "lock" /\ mutex = NoThread /\ mutex' = t /\ req' = req
        /\ pc' = [pc EXCEPT ![t] = FirstPart(req[t])]
    BY <1>3 DEF Lock
  <2>2. Held(t)'
    <3>1. ~Rejected(req[t]) /\ Locks(req[t]) /\ req[t] \in Request
      BY <1>0, <2>1, InCall DEF Placed
    <3>2. FirstPart(req[t]) \in {"head", "mid", "tail", "ret"}
      BY <3>1, FirstPartFacts
    <3>3. pc'[t] \notin {"idle", "lock"}
      BY <1>0, <2>1, <3>2
    <3> QED
      BY <2>1, <3>1, <3>3 DEF Active, Rejected, Locks, Aligned, PLen
  <2>3. ASSUME NEW u \in Thread, u # t PROVE ~Held(u)'
    <3>1. mutex # u
      BY <2>1
    <3>2. ~Held(u)
      BY <3>1 DEF Exclusion
    <3> QED
      BY <1>0, <2>1, <2>3, <3>2 DEF Active, Rejected, Locks, Aligned, PLen
  <2> QED
    BY <2>1, <2>2, <2>3 DEF Exclusion
<1>4. ASSUME NEW t \in Thread, Return(t) PROVE Exclusion'
  <2>1. /\ pc[t] = "ret" /\ pc' = [pc EXCEPT ![t] = "idle"]
        /\ mutex' = IF mutex = t THEN NoThread ELSE mutex
        /\ req' = [req EXCEPT ![t] = NoRequest]
    BY <1>4 DEF Return
  <2>2. ~Held(t)' /\ mutex' # t
    BY <1>0, <2>1 DEF Active
  <2>3. ASSUME NEW u \in Thread, u # t PROVE mutex' = u <=> Held(u)'
    <3>1. mutex' = u <=> mutex = u
      BY <2>1, <2>3
    <3>2. Held(u)' <=> Held(u)
      BY <1>0, <2>1, <2>3 DEF Active, Rejected, Locks, Aligned, PLen
    <3> QED
      BY <3>1, <3>2 DEF Exclusion
  <2> QED
    BY <2>2, <2>3 DEF Exclusion
<1>5. ASSUME NEW t \in Thread, Work(t) PROVE Exclusion'
  <2>1. /\ mutex' = mutex /\ req' = req /\ Working(t)
        /\ pc'[t] \in {"headWrite", "tailWrite", "mid", "tail", "ret"}
        /\ \A u \in Thread \ {t} : pc'[u] = pc[u]
    <3>1. CASE Fetch(t)
      BY <1>0, <3>1 DEF Fetch, Working
    <3>2. CASE ~Fetch(t)
      <4>1. /\ mutex' = mutex /\ req' = req /\ Working(t)
            /\ Advance(t) \/ Abort(t)
        BY <1>5, <3>2 DEF Work, Fill, Store, Overwrite, Fail, Put, Working
      <4> QED
        BY <1>0, <4>1, AdvanceFacts, AbortFacts
    <3> QED
      BY <3>1, <3>2
  <2>2. ASSUME NEW u \in Thread PROVE Held(u)' <=> Held(u)
    BY <2>1 DEF Active, Working, Rejected, Locks, Aligned, PLen
  <2> QED
    BY <1>1, <2>1, <2>2
<1>6. CASE UNCHANGED vars
  BY <1>6 DEF vars, Exclusion, Active, Rejected, Locks, Aligned, PLen
<1> QED
  BY <1>2, <1>3, <1>4, <1>5, <1>6 DEF Next

(* SurvivalInv is inductive.                                                  *)
LEMMA SurvivalStep == SurvivalInv /\ [Next]_vars => SurvivalInv'
<1> SUFFICES ASSUME SurvivalInv, [Next]_vars PROVE SurvivalInv'
  OBVIOUS
<1>0. /\ TypeInv /\ TypeOK /\ Exclusion /\ MisalignedWritesSurvive
      /\ (\A u \in Thread : Placed(u)) /\ \A u \in Thread : Fresh(u)
  BY DEF SurvivalInv, TypeInv
<1>1. TypeInv' /\ Exclusion'
  <2>1. TypeInv'
    BY <1>0, TypeStep
  <2> QED
    BY <1>0, <2>1, ExclusionStep
<1>2. SUFFICES (\A u \in Thread : Fresh(u)') /\ MisalignedWritesSurvive'
  BY <1>1 DEF SurvivalInv
(* A step of t that writes nothing and fills no buffer.                       *)
<1>3. ASSUME NEW t \in Thread, disk' = disk, last' = last,
             pc'[t] \notin {"headWrite", "tailWrite"},
             \A u \in Thread \ {t} :
                 /\ pc'[u] = pc[u] /\ req'[u] = req[u] /\ tmpBuf'[u] = tmpBuf[u]
                 /\ startSector'[u] = startSector[u]
                 /\ total'[u] = total[u] /\ k'[u] = k[u]
      PROVE  (\A u \in Thread : Fresh(u)') /\ MisalignedWritesSurvive'
  <2>1. MisalignedWritesSurvive'
    BY <1>0, <1>3
    DEF MisalignedWritesSurvive, StoredByAligned, EdgeSector, Rejected, Locks,
        Aligned, PLen, HeadOff
  <2>2. ASSUME NEW u \in Thread PROVE Fresh(u)'
    <3>1. CASE u = t
      BY <1>3, <3>1 DEF Fresh
    <3>2. CASE u # t
      BY <1>0, <1>3, <3>2, FreshFrame
    <3> QED
      BY <3>1, <3>2
  <2> QED
    BY <2>1, <2>2
<1>4. ASSUME NEW t \in Thread, NEW r \in Request, Call(t, r)
      PROVE  (\A u \in Thread : Fresh(u)') /\ MisalignedWritesSurvive'
  <2>1. FirstPart(r) \notin {"headWrite", "tailWrite"}
    BY DEF FirstPart, NextPart
  <2> QED
    BY <1>0, <1>3, <1>4, <2>1 DEF Call, TypeOK
<1>5. ASSUME NEW t \in Thread, Lock(t)
      PROVE  (\A u \in Thread : Fresh(u)') /\ MisalignedWritesSurvive'
  <2>1. FirstPart(req[t]) \notin {"headWrite", "tailWrite"}
    BY DEF FirstPart, NextPart
  <2> QED
    BY <1>0, <1>3, <1>5, <2>1 DEF Lock, locals, TypeOK
<1>6. ASSUME NEW t \in Thread, Return(t)
      PROVE  (\A u \in Thread : Fresh(u)') /\ MisalignedWritesSurvive'
  BY <1>0, <1>3, <1>6 DEF Return, TypeOK
<1>7. ASSUME NEW t \in Thread, Fill(t)
      PROVE  (\A u \in Thread : Fresh(u)') /\ MisalignedWritesSurvive'
  <2>1. Working(t) /\ req' = req /\ (Advance(t) \/ Abort(t))
        /\ disk' = disk /\ last' = last /\ tmpBuf' = tmpBuf
    BY <1>7 DEF Fill, Working
  <2> QED
    BY <1>0, <1>3, <2>1, AdvanceFacts, AbortFacts
<1>8. ASSUME NEW t \in Thread, Fail(t)
      PROVE  (\A u \in Thread : Fresh(u)') /\ MisalignedWritesSurvive'
  <2>1. req' = req /\ Abort(t) /\ disk' = disk /\ last' = last
        /\ \A u \in Thread \ {t} : tmpBuf'[u] = tmpBuf[u]
    BY <1>0, <1>8 DEF Fail, TypeOK
  <2> QED
    BY <1>0, <1>3, <2>1, AbortFacts
<1>9. ASSUME NEW t \in Thread, Fetch(t)
      PROVE  (\A u \in Thread : Fresh(u)') /\ MisalignedWritesSurvive'
  <2>1. /\ disk' = disk /\ last' = last /\ req' = req /\ total' = total
        /\ startSector' = startSector /\ k' = k /\ Working(t)
        /\ \A u \in Thread \ {t} : pc'[u] = pc[u] /\ tmpBuf'[u] = tmpBuf[u]
        /\ tmpBuf'[t] = [x \in SectorByte |->
                            IF Base(t) + x \in Piece(t) THEN OwnDatum(t, Base(t) + x)
                                                        ELSE disk[Base(t) + x]]
    BY <1>0, <1>9 DEF Fetch, TypeOK, Working
  <2>2. MisalignedWritesSurvive'
    BY <1>0, <2>1 DEF MisalignedWritesSurvive, StoredByAligned, EdgeSector
  <2>3. Fresh(t)'
    <3>1. Base(t)' = Base(t) /\ Piece(t)' = Piece(t) /\ SectorOf(t)' = SectorOf(t)
      BY <1>0, <1>9, <2>1
      DEF Fetch, TypeOK, Base, Piece, SectorOf, From, Count, InHead, InTail, Rest
    <3>2. ASSUME NEW b \in SectorOf(t)
          PROVE  IF b \in Piece(t)
                 THEN tmpBuf'[t][b - Base(t)] = [req |-> req[t], idx |-> b - req[t].off]
                 ELSE tmpBuf'[t][b - Base(t)] = last[b] \/ StoredByAligned(b)
      <4>1. b - Base(t) \in SectorByte /\ b \in Byte
        BY <1>0, <2>1, PieceInSector
      <4>2. Base(t) + (b - Base(t)) = b
        BY <1>0, <2>1, <4>1, PieceFacts DEF Byte
      <4>3. CASE b \in Piece(t)
        <5>1. tmpBuf'[t][b - Base(t)] = OwnDatum(t, b)
          BY <2>1, <4>1, <4>2, <4>3
        <5> QED
          BY <1>0, <2>1, <4>3, <5>1, OwnDatumFacts
      <4>4. CASE b \notin Piece(t)
        <5>1. tmpBuf'[t][b - Base(t)] = disk[b]
          BY <2>1, <4>1, <4>2, <4>4
        <5> QED
          BY <1>0, <4>1, <4>4, <5>1 DEF MisalignedWritesSurvive
      <4> QED
        BY <4>3, <4>4
    <3> QED
      BY <2>1, <3>1, <3>2 DEF Fresh, StoredByAligned
  <2>4. ASSUME NEW u \in Thread, u # t PROVE Fresh(u)'
    BY <1>0, <2>1, <2>4, FreshFrame
  <2> QED
    BY <2>2, <2>3, <2>4
<1>10. ASSUME NEW t \in Thread, Store(t)
       PROVE  (\A u \in Thread : Fresh(u)') /\ MisalignedWritesSurvive'
  <2> DEFINE data == [b \in SectorOf(t) |-> tmpBuf[t][b - Base(t)]]
  <2>1. /\ Working(t) /\ Buffering(t) /\ req[t].kind = "write"
        /\ Put(t, data) /\ (Advance(t) \/ Abort(t))
    BY <1>0, <1>10 DEF Store, Working, Buffering, Placed
  <2>2. \A b \in SectorOf(t) : data[b] = tmpBuf[t][b - Base(t)]
    OBVIOUS
  <2> HIDE DEF data
  <2>3. Piece(t) \subseteq SectorOf(t)
    BY <1>0, <2>1, PieceInSector
  <2>4. \A b \in Piece(t) : data[b] = [req |-> req[t], idx |-> b - req[t].off]
    BY <1>0, <2>1, <2>2, <2>3 DEF Fresh, Buffering
  <2>5. \A b \in SectorOf(t) \ Piece(t) :
           /\ data[b] = last[b] \/ StoredByAligned(b)
           /\ EdgeSector(b \div SectorSize)
    BY <1>0, <2>1, <2>2, EdgeOfBuffer DEF Fresh, Buffering
  <2> QED
    BY <2>1, <2>4, <2>5, PutSurvives
<1>11. ASSUME NEW t \in Thread, Overwrite(t)
       PROVE  (\A u \in Thread : Fresh(u)') /\ MisalignedWritesSurvive'
  <2> DEFINE data == [b \in SectorOf(t) |-> OwnDatum(t, b)]
  <2>1. /\ Working(t) /\ pc[t] = "mid" /\ req[t].kind = "write"
        /\ Put(t, data) /\ (Advance(t) \/ Abort(t))
    BY <1>11 DEF Overwrite, Working
  <2>2. SectorOf(t) = Piece(t)
    BY <1>0, <2>1, PieceFacts
    DEF SectorOf, Piece, From, Count, InHead, InTail
  <2>3. \A b \in Piece(t) : data[b] = [req |-> req[t], idx |-> b - req[t].off]
    BY <1>0, <2>1, <2>2, OwnDatumFacts
  <2> HIDE DEF data
  <2> QED
    BY <2>1, <2>2, <2>3, PutSurvives
<1>12. CASE UNCHANGED vars
  <2>1. MisalignedWritesSurvive'
    BY <1>0, <1>12 DEF vars, MisalignedWritesSurvive, StoredByAligned, EdgeSector
  <2>2. ASSUME NEW u \in Thread PROVE Fresh(u)'
    BY <1>0, <1>12, FreshFrame DEF vars
  <2> QED
    BY <2>1, <2>2
<1> QED
  BY <1>4, <1>5, <1>6, <1>7, <1>8, <1>9, <1>10, <1>11, <1>12 DEF Next, Work

(* The data of a misaligned write is never undone by another call, and no     *)
(* byte outside the writes ever changes, whatever fails and in any order of   *)
(* the goroutines: the mutex does for misaligned calls what its comment says. *)
THEOREM Survival == Spec => []MisalignedWritesSurvive
<1>1. SurvivalInv => MisalignedWritesSurvive
  BY DEF SurvivalInv
<1> QED
  BY SurvivalInit, SurvivalStep, <1>1, PTL DEF Spec

(* Misaligned calls exclude each other: the mutex is held exactly while one   *)
(* is under way, and it is given back on every path out of the call.          *)
THEOREM MutualExclusion == Spec => []Exclusion
<1>1. SurvivalInv => Exclusion
  BY DEF SurvivalInv
<1> QED
  BY SurvivalInit, SurvivalStep, <1>1, PTL DEF Spec

-----------------------------------------------------------------------------
(* Counts.                                                                    *)

(* At each place of a call, the bytes of p that are done are those before the *)
(* piece it works on.                                                         *)
Done(t) ==
    /\ pc[t] \in {"idle", "lock"} => DOMAIN moved[t] = {}
    /\ pc[t] = "lock" \/ Working(t) => err[t] = "nil"
    /\ Working(t) => DOMAIN moved[t] = 0 .. Index(t) - 1
    /\ pc[t] = "ret" =>
          /\ 0 .. total[t] - 1 \subseteq DOMAIN moved[t]
          /\ err[t] = "nil" => DOMAIN moved[t] = 0 .. PLen(req[t]) - 1

CountInv == TypeInv /\ \A t \in Thread : Done(t)

(* A call that moves on is done with its piece, and comes to the next one.    *)
LEMMA NextIndex ==
    ASSUME TypeOK, NEW t \in Thread, Placed(t), Working(t), Advance(t), req' = req
    PROVE  LET n == Index(t) + Count(t) IN
           /\ pc'[t] \in {"mid", "tail", "ret"}
           /\ pc'[t] # "ret" => Index(t)' = n
           /\ pc'[t] = "ret" => n = PLen(req[t])
           /\ total'[t] =< n
           /\ n \in Nat
<1> DEFINE r == req[t]
           n == Index(t) + Count(t)
<1>1. /\ r \in Request /\ ~Rejected(r)
      /\ startSector[t] \in Nat /\ total[t] \in Nat /\ k[t] \in Nat
  BY InCall DEF Working, Placed
<1>2. r.off \in Nat /\ PLen(r) \in Nat /\ total[t] =< PLen(r)
  BY <1>1, RequestBounds, SoFar
<1>3. /\ pc \in [Thread -> Position] /\ startSector \in [Thread -> Nat]
      /\ total \in [Thread -> Nat] /\ k \in [Thread -> Nat]
  BY DEF TypeOK
<1>4. pc'[t] \in {"mid", "tail", "ret"}
  BY AdvanceFacts
<1>5. Index(t) \in Nat /\ Count(t) \in Nat /\ n \in Nat
  BY PieceFacts
<1>6. \A rest \in Nat : NextPart(rest) = "ret" => rest = 0
  BY DEF NextPart
<1>7. 0 * SectorSize = 0
  BY SMT
<1>8. CASE HeadDone(t)
  <2>1. HeadOff(r) # 0 /\ total[t] = 0 /\ k[t] = 0 /\ InHead(t)
    BY <1>8 DEF HeadDone, Placed
  <2>2. HeadLen(r) \in 0 .. PLen(r)
    BY <1>1, <2>1, HeadFacts
  <2>3. n = HeadLen(r)
    BY <1>7, <2>1, <2>2 DEF Index, Count
  <2>4. total'[t] = n /\ k'[t] = 0 /\ pc'[t] = NextPart(PLen(r) - n)
    BY <1>2, <1>3, <1>8, <2>1, <2>2, <2>3 DEF HeadDone, Rest
  <2>5. Index(t)' = n
    BY <1>7, <1>5, <2>4 DEF Index
  <2>6. pc'[t] = "ret" => n = PLen(r)
    BY <1>2, <1>6, <2>2, <2>3, <2>4
  <2> QED
    BY <1>4, <1>5, <2>4, <2>5, <2>6
<1>9. CASE MiddleSectorDone(t)
  <2>1. /\ pc[t] = "mid" /\ pc'[t] = "mid" /\ k'[t] = k[t] + 1 /\ total'[t] = total[t]
    BY <1>3, <1>9 DEF MiddleSectorDone
  <2>2. Count(t) = SectorSize
    BY <2>1 DEF Count, InHead, InTail
  <2>3. /\ k[t] * SectorSize \in Int
        /\ (k[t] + 1) * SectorSize = k[t] * SectorSize + SectorSize
    BY <1>1, NextSector
  <2>4. Index(t) = total[t] + k[t] * SectorSize
        /\ Index(t)' = total[t] + (k[t] + 1) * SectorSize
    BY <2>1 DEF Index
  <2>5. total[t] =< n
    <3>1. k[t] * SectorSize \in Nat
      BY <1>1, SMT
    <3> QED
      BY <1>1, <2>2, <2>4, <3>1
  <2> QED
    BY <1>1, <1>4, <1>5, <2>1, <2>2, <2>3, <2>4, <2>5
<1>10. CASE MiddleDone(t)
  <2> DEFINE num == NumSectors(t)
  <2>1. /\ pc[t] = "mid" /\ k[t] + 1 = num /\ k'[t] = 0
        /\ total'[t] = total[t] + num * SectorSize
        /\ pc'[t] = NextPart(Rest(t) - num * SectorSize)
    BY <1>3, <1>10 DEF MiddleDone
  <2>2. Count(t) = SectorSize /\ Index(t) = total[t] + k[t] * SectorSize
    BY <2>1 DEF Count, Index, InHead, InTail
  <2>3. /\ k[t] * SectorSize \in Int
        /\ (k[t] + 1) * SectorSize = k[t] * SectorSize + SectorSize
    BY <1>1, NextSector
  <2>4. num * SectorSize = k[t] * SectorSize + SectorSize
    BY <2>1, <2>3
  <2>5. n = total[t] + num * SectorSize
    BY <1>1, <2>2, <2>3, <2>4
  <2>6. Index(t)' = n
    BY <1>5, <1>7, <2>1, <2>5 DEF Index
  <2>7. Rest(t) \in Nat /\ Rest(t) = PLen(r) - total[t]
    BY <1>1, <1>2 DEF Rest
  <2>8. num * SectorSize =< Rest(t)
    BY <2>7, DivMod DEF NumSectors
  <2> HIDE DEF num
  <2>9. Rest(t) - num * SectorSize \in Nat
    BY <2>3, <2>4, <2>7, <2>8
  <2>10. pc'[t] = "ret" => n = PLen(r)
    BY <1>1, <1>2, <1>6, <2>1, <2>3, <2>4, <2>5, <2>7, <2>9
  <2> QED
    BY <1>4, <1>5, <2>1, <2>5, <2>6, <2>10
<1>11. CASE TailDone(t)
  <2>1. /\ InTail(t) /\ k[t] = 0 /\ pc'[t] = "ret" /\ total'[t] = total[t]
        /\ Rest(t) \in 1 .. SectorSize - 1
    BY <1>3, <1>11 DEF TailDone, Placed
  <2>2. Index(t) = total[t] /\ Count(t) = Rest(t)
    BY <1>1, <1>7, <2>1 DEF Index, Count, InTail, InHead
  <2>3. n = PLen(r)
    BY <1>1, <1>2, <2>2 DEF Rest
  <2> QED
    BY <1>2, <1>4, <1>5, <2>1, <2>3
<1> QED
  BY <1>8, <1>9, <1>10, <1>11 DEF Advance

(* The bytes that are done after a step that transfers the piece.             *)
LEMMA RecordDomain ==
    ASSUME TypeOK, NEW t \in Thread, Placed(t), Working(t), Done(t),
           NEW data, Record(t, data)
    PROVE  DOMAIN moved'[t] = 0 .. Index(t) + Count(t) - 1
<1>1. DOMAIN moved'[t] = DOMAIN moved[t] \cup Indices(t)
  BY DEF Record, TypeOK
<1>2. Index(t) \in Nat /\ Count(t) \in Nat
  BY PieceFacts
<1> QED
  BY <1>1, <1>2 DEF Done, Indices

(* Transferring the piece keeps the count right, done or failed.              *)
LEMMA TransferDone ==
    ASSUME TypeOK, NEW t \in Thread, Placed(t), Working(t), Done(t), req' = req,
           NEW data, Record(t, data), Advance(t) \/ Abort(t)
    PROVE  Done(t)'
<1>1. DOMAIN moved'[t] = 0 .. Index(t) + Count(t) - 1
  BY RecordDomain
<1>2. Index(t) \in Nat /\ Count(t) \in Nat
  BY PieceFacts
<1>3. CASE Advance(t)
  <2>1. err' = err /\ err[t] = "nil"
    BY <1>3 DEF Advance, Done
  <2>2. total'[t] \in Nat
    BY <1>3, AdvanceFacts
  <2>3. Working(t)' <=> pc'[t] \in {"mid", "tail"}
    BY <1>3, NextIndex DEF Working
  <2> QED
    BY <1>1, <1>2, <1>3, <2>1, <2>2, <2>3, NextIndex DEF Done
<1>4. CASE Abort(t)
  <2>1. pc'[t] = "ret" /\ err'[t] = "failed" /\ total'[t] = total[t]
    BY <1>4 DEF Abort, TypeOK
  <2>2. total[t] =< Index(t) /\ total[t] \in Nat
    <3>1. total[t] \in Nat /\ k[t] \in Nat
      BY DEF TypeOK
    <3>2. k[t] * SectorSize \in Nat
      BY <3>1, SMT
    <3> QED
      BY <3>1, <3>2 DEF Index
  <2> QED
    BY <1>1, <1>2, <2>1, <2>2 DEF Done, Working
<1> QED
  BY <1>3, <1>4

(* A goroutine that does nothing has done no more.                            *)
LEMMA DoneFrame ==
    ASSUME NEW u \in Thread, Done(u), pc'[u] = pc[u], req'[u] = req[u],
           total'[u] = total[u], k'[u] = k[u], err'[u] = err[u], moved'[u] = moved[u]
    PROVE  Done(u)'
BY DEF Done, Working, Index

(* Every step keeps the count right.                                          *)
LEMMA CountStep == CountInv /\ [Next]_vars => CountInv'
<1> SUFFICES ASSUME CountInv, [Next]_vars PROVE CountInv'
  OBVIOUS
<1>0. TypeInv /\ TypeOK /\ (\A u \in Thread : Placed(u)) /\ \A u \in Thread : Done(u)
  BY DEF CountInv, TypeInv
<1>1. SUFFICES \A u \in Thread : Done(u)'
  BY <1>0, TypeStep DEF CountInv
(* The others do nothing.                                                     *)
<1>2. ASSUME NEW t \in Thread, Done(t)',
             \A u \in Thread \ {t} :
                 /\ pc'[u] = pc[u] /\ req'[u] = req[u] /\ total'[u] = total[u]
                 /\ k'[u] = k[u] /\ err'[u] = err[u] /\ moved'[u] = moved[u]
      PROVE  \A u \in Thread : Done(u)'
  <2>1. ASSUME NEW u \in Thread, u # t PROVE Done(u)'
    BY <1>0, <1>2, <2>1, DoneFrame
  <2> QED
    BY <1>2, <2>1
<1>3. ASSUME NEW t \in Thread, NEW r \in Request, Call(t, r)
      PROVE  \A u \in Thread : Done(u)'
  <2>1. /\ pc[t] = "idle" /\ total'[t] = 0 /\ k'[t] = 0 /\ moved' = moved
        /\ DOMAIN moved[t] = {} /\ req'[t] = r
        /\ pc'[t] = IF Rejected(r) THEN "ret" ELSE IF Locks(r) THEN "lock" ELSE FirstPart(r)
        /\ Rejected(r) => err'[t] # "nil"
        /\ ~Rejected(r) => err'[t] = "nil"
    BY <1>0, <1>3 DEF Call, TypeOK, Placed, Done
  <2>2. Index(t)' = 0
    BY <2>1, SMT DEF Index
  <2>3. Done(t)'
    <3>1. CASE Rejected(r) \/ Locks(r)
      BY <2>1, <3>1 DEF Done, Working
    <3>2. CASE ~Rejected(r) /\ ~Locks(r)
      <4>1. FirstPart(r) \in {"head", "mid", "tail", "ret"} /\ PLen(r) \in Nat
        BY <3>2, FirstPartFacts, RequestBounds
      <4>2. FirstPart(r) = "ret" => PLen(r) = 0
        BY <4>1 DEF FirstPart, NextPart
      <4>3. pc'[t] = FirstPart(r) /\ err'[t] = "nil"
        BY <2>1, <3>2
      <4>4. CASE FirstPart(r) = "ret"
        BY <2>1, <4>1, <4>2, <4>3, <4>4 DEF Done, Working
      <4>5. CASE FirstPart(r) # "ret"
        BY <2>1, <2>2, <4>1, <4>3, <4>5 DEF Done, Working
      <4> QED
        BY <4>4, <4>5
    <3> QED
      BY <3>1, <3>2
  <2> QED
    BY <1>0, <1>2, <1>3, <2>3 DEF Call, TypeOK
<1>4. ASSUME NEW t \in Thread, Lock(t) PROVE \A u \in Thread : Done(u)'
  <2>1. /\ pc[t] = "lock" /\ total[t] = 0 /\ k[t] = 0 /\ ~Rejected(req[t])
        /\ req[t] \in Request /\ DOMAIN moved[t] = {} /\ err[t] = "nil"
        /\ pc'[t] = FirstPart(req[t])
        /\ UNCHANGED <<req, locals, moved>>
    BY <1>0, <1>4, InCall DEF Lock, TypeOK, Placed, Done
  <2>2. Index(t)' = 0
    BY <2>1, SMT DEF Index, locals
  <2>3. FirstPart(req[t]) \in {"head", "mid", "tail", "ret"} /\ PLen(req[t]) \in Nat
    BY <2>1, FirstPartFacts, RequestBounds
  <2>4. FirstPart(req[t]) = "ret" => PLen(req[t]) = 0
    BY <2>3 DEF FirstPart, NextPart
  <2>5. Done(t)'
    <3>1. CASE FirstPart(req[t]) = "ret"
      <4>1. /\ pc'[t] = "ret" /\ total'[t] = 0 /\ moved'[t] = moved[t] /\ req'[t] = req[t]
            /\ PLen(req[t]) = 0
        BY <2>1, <2>4, <3>1 DEF locals
      <4> QED
        BY <2>1, <4>1 DEF Done, Working
    <3>2. CASE FirstPart(req[t]) # "ret"
      BY <2>1, <2>2, <2>3, <3>2 DEF Done, Working, locals
    <3> QED
      BY <3>1, <3>2
  <2> QED
    BY <1>0, <1>2, <1>4, <2>1, <2>5 DEF Lock, TypeOK, locals
<1>5. ASSUME NEW t \in Thread, Return(t) PROVE \A u \in Thread : Done(u)'
  <2>1. Done(t)'
    BY <1>0, <1>5 DEF Return, TypeOK, Done, Working, Nothing
  <2> QED
    BY <1>0, <1>2, <1>5, <2>1 DEF Return, TypeOK
<1>6. ASSUME NEW t \in Thread, NEW data, Working(t), req' = req, Record(t, data),
             Advance(t) \/ Abort(t)
      PROVE  \A u \in Thread : Done(u)'
  <2>1. Done(t)'
    BY <1>0, <1>6, TransferDone
  <2>2. \A u \in Thread \ {t} : moved'[u] = moved[u] /\ err'[u] = err[u]
    BY <1>0, <1>6 DEF Record, Advance, Abort, TypeOK
  <2>3. \A u \in Thread \ {t} :
           pc'[u] = pc[u] /\ total'[u] = total[u] /\ k'[u] = k[u]
    BY <1>0, <1>6, AdvanceFacts, AbortFacts
  <2> QED
    BY <1>2, <1>6, <2>1, <2>2, <2>3
<1>7. ASSUME NEW t \in Thread, Fill(t) PROVE \A u \in Thread : Done(u)'
  BY <1>6, <1>7 DEF Fill, Working
<1>8. ASSUME NEW t \in Thread, Store(t) PROVE \A u \in Thread : Done(u)'
  BY <1>6, <1>8 DEF Store, Put, Working
<1>9. ASSUME NEW t \in Thread, Overwrite(t) PROVE \A u \in Thread : Done(u)'
  BY <1>6, <1>9 DEF Overwrite, Put, Working
<1>10. ASSUME NEW t \in Thread, Fetch(t) PROVE \A u \in Thread : Done(u)'
  <2>1. Working(t) /\ Working(t)' /\ pc'[t] # "ret"
        /\ UNCHANGED <<req, total, err, k, moved>>
    BY <1>0, <1>10 DEF Fetch, Working, TypeOK
  <2>2. Done(t)'
    BY <1>0, <2>1 DEF Done, Index, Working
  <2> QED
    BY <1>0, <1>2, <1>10, <2>1, <2>2 DEF Fetch, TypeOK
<1>11. ASSUME NEW t \in Thread, Fail(t) PROVE \A u \in Thread : Done(u)'
  <2>1. Working(t) /\ Abort(t) /\ req' = req /\ moved' = moved
    BY <1>11 DEF Fail, Working
  <2>2. pc'[t] = "ret" /\ err'[t] = "failed" /\ total'[t] = total[t]
    BY <1>0, <2>1 DEF Abort, TypeOK
  <2>3. total[t] =< Index(t) /\ total[t] \in Nat /\ Index(t) \in Nat
    <3>1. total[t] \in Nat /\ k[t] \in Nat
      BY <1>0 DEF TypeOK
    <3>2. k[t] * SectorSize \in Nat
      BY <3>1, SMT
    <3> QED
      BY <3>1, <3>2 DEF Index
  <2>4. Done(t)'
    BY <1>0, <2>1, <2>2, <2>3 DEF Done, Working
  <2> QED
    BY <1>0, <1>2, <2>1, <2>4 DEF Abort, TypeOK
<1>12. CASE UNCHANGED vars
  BY <1>0, <1>12, DoneFrame DEF vars
<1> QED
  BY <1>3, <1>4, <1>5, <1>7, <1>8, <1>9, <1>10, <1>11, <1>12 DEF Next, Work

(* The count is right at all times.                                           *)
LEMMA AlwaysCountInv == Spec => []CountInv
<1>1. Init => CountInv
  <2> SUFFICES ASSUME Init PROVE CountInv
    OBVIOUS
  <2>1. \A t \in Thread : Done(t)
    BY DEF Init, Done, Working, Nothing
  <2> QED
    BY <2>1, TypeInit DEF CountInv
<1> QED
  BY <1>1, CountStep, PTL DEF Spec

(* ReadAt and WriteAt never return more than they have transferred, whatever  *)
(* fails and wherever the call began.                                         *)
THEOREM HonestCount == Spec => []CountIsHonest
<1>1. CountInv => CountIsHonest
  <2> SUFFICES ASSUME CountInv, NEW t \in Thread, pc[t] = "ret"
               PROVE  /\ 0 .. Returned(t) - 1 \subseteq DOMAIN moved[t]
                      /\ err[t] = "nil" => DOMAIN moved[t] = 0 .. PLen(req[t]) - 1
    BY DEF CountIsHonest
  <2> QED
    BY DEF CountInv, Done, Returned
<1> QED
  BY <1>1, AlwaysCountInv, PTL

-----------------------------------------------------------------------------
(* The n of a call that returned without an error.                            *)

\* What is counted when a part begins, and in the end.
Whole(t) ==
    /\ pc[t] = "mid" => total[t] = HeadCount(req[t])
    /\ InTail(t) => total[t] = WholeCount(req[t])
    /\ pc[t] = "ret" /\ err[t] = "nil" => total[t] = WholeCount(req[t])

WholeInv == TypeInv /\ \A t \in Thread : Whole(t)

(* A rest that is less than a sector is not counted.                          *)
LEMMA WholeFacts ==
    ASSUME NEW r \in Request, ~Rejected(r)
    PROVE  /\ HeadCount(r) \in Nat /\ HeadCount(r) =< PLen(r) /\ PLen(r) \in Nat
           /\ PLen(r) - HeadCount(r) \in 0 .. SectorSize - 1 => WholeCount(r) = HeadCount(r)
<1>1. PLen(r) \in Nat
  BY RequestBounds
<1>2. HeadCount(r) \in Nat /\ HeadCount(r) =< PLen(r)
  BY <1>1, HeadFacts DEF HeadCount
<1>3. ASSUME NEW rest \in 0 .. SectorSize - 1 PROVE (rest \div SectorSize) * SectorSize = 0
  <2>1. 0 * SectorSize = 0 /\ rest \in Nat
    BY SMT
  <2>2. rest \div SectorSize = 0
    BY <2>1, DivModUnique
  <2> QED
    BY <2>1, <2>2
<1>4. ASSUME PLen(r) - HeadCount(r) \in 0 .. SectorSize - 1
      PROVE  WholeCount(r) = HeadCount(r)
  BY <1>2, <1>3, <1>4 DEF WholeCount
<1> QED
  BY <1>1, <1>2, <1>4

(* The first part begins with nothing counted.                                *)
LEMMA FirstWhole ==
    ASSUME NEW r \in Request, ~Rejected(r)
    PROVE  /\ FirstPart(r) = "mid" => HeadCount(r) = 0
           /\ FirstPart(r) \in {"tail", "ret"} => WholeCount(r) = 0
<1>1. CASE HeadOff(r) # 0
  BY <1>1 DEF FirstPart
<1>2. CASE HeadOff(r) = 0
  <2>1. HeadCount(r) = 0 /\ PLen(r) \in Nat
    BY <1>2, WholeFacts DEF HeadCount
  <2>2. FirstPart(r) \in {"tail", "ret"} => PLen(r) - HeadCount(r) \in 0 .. SectorSize - 1
    BY <1>2, <2>1 DEF FirstPart, NextPart
  <2> QED
    BY <2>1, <2>2, WholeFacts
<1> QED
  BY <1>1, <1>2

(* Moving on counts the part that was done, and never the tail.               *)
LEMMA AdvanceWhole ==
    ASSUME TypeOK, NEW t \in Thread, Placed(t), Working(t), Whole(t), Advance(t), req' = req
    PROVE  Whole(t)'
<1> DEFINE r == req[t]
<1>1. r \in Request /\ ~Rejected(r) /\ total[t] \in Nat
  BY InCall DEF Working, Placed
<1>2. /\ HeadCount(r) \in Nat /\ HeadCount(r) =< PLen(r) /\ PLen(r) \in Nat
      /\ PLen(r) - HeadCount(r) \in 0 .. SectorSize - 1 => WholeCount(r) = HeadCount(r)
  BY <1>1, WholeFacts
<1>3. HeadCount(r)' = HeadCount(r) /\ WholeCount(r)' = WholeCount(r)
  BY DEF HeadCount, WholeCount, HeadOff, HeadLen, PLen, Capacity
<1>4. pc \in [Thread -> Position] /\ total \in [Thread -> Nat]
  BY DEF TypeOK
<1>5. CASE HeadDone(t)
  <2>1. HeadCount(r) = HeadLen(r) /\ total[t] = 0
    BY <1>5 DEF HeadDone, Placed, HeadCount
  <2>2. total'[t] = HeadCount(r) /\ pc'[t] = NextPart(PLen(r) - HeadCount(r))
    BY <1>2, <1>4, <1>5, <2>1 DEF HeadDone, Rest
  <2>3. pc'[t] \in {"tail", "ret"} => PLen(r) - HeadCount(r) \in 0 .. SectorSize - 1
    BY <1>2, <2>2 DEF NextPart
  <2>4. pc'[t] \in {"mid", "tail", "ret"}
    BY <2>2 DEF NextPart
  <2> QED
    BY <1>2, <1>3, <2>2, <2>3, <2>4 DEF Whole, InTail
<1>6. CASE MiddleSectorDone(t)
  BY <1>3, <1>6 DEF MiddleSectorDone, Whole, InTail
<1>7. CASE MiddleDone(t)
  <2>1. total[t] = HeadCount(r)
    BY <1>7 DEF MiddleDone, Whole
  <2>2. total'[t] = WholeCount(r)
    BY <1>4, <1>7, <2>1 DEF MiddleDone, WholeCount, NumSectors, Rest
  <2>3. pc'[t] # "mid"
    <3>1. Rest(t) \in Nat
      BY <1>2, <2>1 DEF Rest
    <3>2. /\ (Rest(t) % SectorSize) \in 0 .. SectorSize - 1
          /\ Rest(t) = NumSectors(t) * SectorSize + (Rest(t) % SectorSize)
          /\ NumSectors(t) * SectorSize \in Nat
      <4> DEFINE rest == Rest(t)
      <4>1. rest \in Nat
        BY <3>1
      <4> HIDE DEF rest
      <4>2. /\ (rest % SectorSize) \in 0 .. SectorSize - 1
            /\ rest = (rest \div SectorSize) * SectorSize + (rest % SectorSize)
            /\ (rest \div SectorSize) * SectorSize \in Nat
        BY <4>1, DivMod
      <4> QED
        BY <4>2 DEF rest, NumSectors
    <3>3. Rest(t) - NumSectors(t) * SectorSize < SectorSize
      BY <3>1, <3>2
    <3> QED
      BY <1>4, <1>7, <3>1, <3>2, <3>3 DEF MiddleDone, NextPart
  <2> QED
    BY <1>3, <2>2, <2>3 DEF Whole
<1>8. CASE TailDone(t)
  BY <1>3, <1>4, <1>8 DEF TailDone, Whole, InTail
<1> QED
  BY <1>5, <1>6, <1>7, <1>8 DEF Advance

(* The count of every goroutine stays as its place says.                      *)
LEMMA WholeStep == WholeInv /\ [Next]_vars => WholeInv'
<1> SUFFICES ASSUME WholeInv, [Next]_vars PROVE WholeInv'
  OBVIOUS
<1>0. TypeInv /\ TypeOK /\ (\A u \in Thread : Placed(u)) /\ \A u \in Thread : Whole(u)
  BY DEF WholeInv, TypeInv
<1>1. SUFFICES \A u \in Thread : Whole(u)'
  BY <1>0, TypeStep DEF WholeInv
(* The others do nothing.                                                     *)
<1>2. ASSUME NEW t \in Thread, Whole(t)',
             \A u \in Thread \ {t} :
                 pc'[u] = pc[u] /\ req'[u] = req[u] /\ total'[u] = total[u] /\ err'[u] = err[u]
      PROVE  \A u \in Thread : Whole(u)'
  <2>1. ASSUME NEW u \in Thread, u # t PROVE Whole(u)'
    BY <1>0, <1>2, <2>1 DEF Whole, InTail
  <2> QED
    BY <1>2, <2>1
<1>3. ASSUME NEW t \in Thread, NEW r \in Request, Call(t, r)
      PROVE  \A u \in Thread : Whole(u)'
  <2>1. /\ total'[t] = 0 /\ req'[t] = r
        /\ pc'[t] = IF Rejected(r) THEN "ret" ELSE IF Locks(r) THEN "lock" ELSE FirstPart(r)
        /\ Rejected(r) => err'[t] # "nil"
    BY <1>0, <1>3 DEF Call, TypeOK, Placed
  <2>2. Whole(t)'
    <3>1. CASE Rejected(r) \/ Locks(r)
      BY <2>1, <3>1 DEF Whole, InTail
    <3>2. CASE ~Rejected(r) /\ ~Locks(r)
      <4>1. /\ FirstPart(r) \in {"head", "mid", "tail", "ret"}
            /\ FirstPart(r) = "mid" => HeadCount(r) = 0
            /\ FirstPart(r) \in {"tail", "ret"} => WholeCount(r) = 0
        BY <3>2, FirstPartFacts, FirstWhole
      <4>2. pc'[t] = FirstPart(r)
        BY <2>1, <3>2
      <4> QED
        BY <2>1, <4>1, <4>2 DEF Whole, InTail
    <3> QED
      BY <3>1, <3>2
  <2> QED
    BY <1>0, <1>2, <1>3, <2>2 DEF Call, TypeOK
<1>4. ASSUME NEW t \in Thread, Lock(t) PROVE \A u \in Thread : Whole(u)'
  <2>1. /\ pc[t] = "lock" /\ total[t] = 0 /\ ~Rejected(req[t]) /\ req[t] \in Request
        /\ pc'[t] = FirstPart(req[t]) /\ total'[t] = 0 /\ req' = req
    BY <1>0, <1>4, InCall DEF Lock, TypeOK, Placed, locals
  <2>2. /\ FirstPart(req[t]) \in {"head", "mid", "tail", "ret"}
        /\ FirstPart(req[t]) = "mid" => HeadCount(req[t]) = 0
        /\ FirstPart(req[t]) \in {"tail", "ret"} => WholeCount(req[t]) = 0
    BY <2>1, FirstPartFacts, FirstWhole
  <2>3. Whole(t)'
    BY <2>1, <2>2 DEF Whole, InTail
  <2> QED
    BY <1>0, <1>2, <1>4, <2>3 DEF Lock, TypeOK, locals
<1>5. ASSUME NEW t \in Thread, Return(t) PROVE \A u \in Thread : Whole(u)'
  <2>1. Whole(t)'
    BY <1>0, <1>5 DEF Return, TypeOK, Whole, InTail
  <2> QED
    BY <1>0, <1>2, <1>5, <2>1 DEF Return, TypeOK
<1>6. ASSUME NEW t \in Thread, Working(t), req' = req, Advance(t) \/ Abort(t)
      PROVE  \A u \in Thread : Whole(u)'
  <2>1. Abort(t) => Whole(t)'
    BY <1>0 DEF Abort, TypeOK, Whole, InTail
  <2>2. Whole(t)'
    BY <1>0, <1>6, <2>1, AdvanceWhole
  <2>3. \A u \in Thread \ {t} : pc'[u] = pc[u] /\ total'[u] = total[u]
    BY <1>0, <1>6, AdvanceFacts, AbortFacts
  <2>4. \A u \in Thread \ {t} : err'[u] = err[u]
    BY <1>0, <1>6 DEF Advance, Abort, TypeOK
  <2> QED
    BY <1>2, <1>6, <2>2, <2>3, <2>4
<1>7. ASSUME NEW t \in Thread, Fill(t) \/ Store(t) \/ Overwrite(t) \/ Fail(t)
      PROVE  \A u \in Thread : Whole(u)'
  BY <1>6, <1>7 DEF Fill, Store, Overwrite, Fail, Put, Working
<1>8. ASSUME NEW t \in Thread, Fetch(t) PROVE \A u \in Thread : Whole(u)'
  <2>1. Whole(t)'
    BY <1>0, <1>8 DEF Fetch, TypeOK, Whole, InTail
  <2> QED
    BY <1>0, <1>2, <1>8, <2>1 DEF Fetch, TypeOK
<1>9. CASE UNCHANGED vars
  BY <1>0, <1>9 DEF vars, locals, Whole, InTail
<1> QED
  BY <1>3, <1>4, <1>5, <1>7, <1>8, <1>9 DEF Next, Work

(* Without an error ReadAt returns the part in the first sector and all whole *)
(* sectors: what it leaves out is always less than one sector.                *)
THEOREM WholeSectorsCounted == Spec => []CountIsWhole
<1>1. Init => WholeInv
  <2>1. Init => \A t \in Thread : Whole(t)
    BY DEF Init, Whole, InTail
  <2> QED
    BY <2>1, TypeInit DEF WholeInv
<1>2. WholeInv => CountIsWhole
  BY DEF WholeInv, Whole, CountIsWhole, Returned
<1> QED
  BY <1>1, <1>2, WholeStep, PTL DEF Spec

-----------------------------------------------------------------------------
(* Misaligned calls are atomic.                                               *)

Misaligned(t) == Active(t) /\ ~Rejected(req[t]) /\ Locks(req[t])

(* What a call has read or written is what the disk holds.                    *)
AsMoved(t) ==
    \A i \in DOMAIN moved[t] :
        disk[req[t].off + i] = moved[t][i] \/ StoredByAligned(req[t].off + i)

Atomic == \A t \in Thread : Misaligned(t) => AsMoved(t)

AtomicInv == SurvivalInv /\ CountInv /\ Atomic

(* What a call is done with lies before the sector it works on.               *)
LEMMA DoneBefore ==
    ASSUME TypeOK, NEW t \in Thread, Placed(t), Working(t), Done(t),
           NEW i \in DOMAIN moved[t]
    PROVE  req[t].off + i \notin SectorOf(t)
<1>1. /\ Base(t) \in Nat /\ From(t) \in Nat /\ Index(t) \in Nat
      /\ Index(t) = Base(t) + From(t) - req[t].off /\ req[t].off \in Nat
  BY PieceFacts, RequestBounds DEF Placed
<1>2. i \in 0 .. Index(t) - 1
  BY DEF Done
<1>3. ~InHead(t)
  <2> SUFFICES ASSUME InHead(t) PROVE FALSE
    OBVIOUS
  <2>1. total[t] = 0 /\ k[t] = 0
    BY DEF Placed
  <2>2. Index(t) = 0
    BY <2>1, SMT DEF Index
  <2> QED
    BY <1>2, <2>2
<1>4. From(t) = 0
  BY <1>3 DEF From
<1> QED
  BY <1>1, <1>2, <1>4 DEF SectorOf

(* What a step records, byte by byte.                                         *)
LEMMA RecordValues ==
    ASSUME TypeOK, NEW t \in Thread, Placed(t), Working(t), NEW data, Record(t, data),
           NEW i \in DOMAIN moved'[t]
    PROVE  \/ req[t].off + i \in Piece(t) /\ moved'[t][i] = data[req[t].off + i]
           \/ /\ req[t].off + i \notin Piece(t)
              /\ i \in DOMAIN moved[t] /\ moved'[t][i] = moved[t][i]
<1>1. /\ Base(t) \in Nat /\ From(t) \in Nat /\ Index(t) \in Nat /\ Count(t) \in Nat
      /\ Index(t) = Base(t) + From(t) - req[t].off
      /\ req[t].off \in Nat /\ PLen(req[t]) \in Nat
  BY PieceFacts, RequestBounds DEF Placed, Working
<1>2. moved'[t] = [j \in DOMAIN moved[t] \cup Indices(t) |->
                      IF j \in Indices(t) THEN data[Base(t) + From(t) + j - Index(t)]
                                          ELSE moved[t][j]]
  BY DEF Record, TypeOK
<1>3. Indices(t) \subseteq Nat /\ DOMAIN moved[t] \subseteq Nat
  <2>1. DOMAIN moved[t] \subseteq 0 .. PLen(req[t]) - 1
    BY DEF TypeOK
  <2> QED
    BY <1>1, <2>1 DEF Indices
<1>4. i \in Nat /\ (i \in Indices(t) \/ i \in DOMAIN moved[t])
  BY <1>2, <1>3
<1>5. Base(t) + From(t) + i - Index(t) = req[t].off + i
  BY <1>1, <1>4
<1>6. i \in Indices(t) <=> req[t].off + i \in Piece(t)
  BY <1>1, <1>4 DEF Indices, Piece
<1> QED
  BY <1>2, <1>4, <1>5, <1>6

(* The bytes of a call are on the disk.                                       *)
LEMMA MovedOnDisk ==
    ASSUME TypeOK, NEW t \in Thread, pc[t] # "idle", ~Rejected(req[t]),
           NEW i \in DOMAIN moved[t]
    PROVE  req[t].off + i \in Byte
<1>1. /\ req[t].off \in Nat /\ PLen(req[t]) \in Nat /\ Capacity \in Nat
      /\ req[t].off + PLen(req[t]) =< Capacity
  BY InCall, RequestBounds
<1>2. i \in 0 .. PLen(req[t]) - 1
  BY DEF TypeOK
<1> QED
  BY <1>1, <1>2 DEF Byte

(* A write to the disk undoes no byte of a misaligned call but for an aligned *)
(* write.                                                                     *)
LEMMA PutAtomic ==
    ASSUME AtomicInv, NEW t \in Thread, Working(t), req[t].kind = "write",
           NEW data, Put(t, data), Advance(t) \/ Abort(t),
           \A b \in Piece(t) : data[b] = OwnDatum(t, b)
    PROVE  Atomic'
<1>1. /\ TypeOK /\ Exclusion /\ Atomic
      /\ (\A u \in Thread : Placed(u)) /\ \A u \in Thread : Done(u)
  BY DEF AtomicInv, SurvivalInv, CountInv, TypeInv
<1>2. /\ disk' = [b \in Byte |-> IF b \in SectorOf(t) THEN data[b] ELSE disk[b]]
      /\ last' = [b \in Byte |-> IF b \in Piece(t)
                                 THEN [req |-> req[t], idx |-> b - req[t].off]
                                 ELSE last[b]]
      /\ req' = req /\ Record(t, [b \in Piece(t) |-> OwnDatum(t, b)])
  BY DEF Put
<1>3. Piece(t) \subseteq SectorOf(t) /\ SectorOf(t) \subseteq Byte
  BY <1>1, PieceInSector
<1>4. /\ \A u \in Thread \ {t} : pc'[u] = pc[u] /\ moved'[u] = moved[u]
      /\ Active(t) /\ ~Rejected(req[t]) /\ pc[t] # "idle"
  <2>1. \A u \in Thread \ {t} : pc'[u] = pc[u]
    BY <1>1, <1>2, AdvanceFacts, AbortFacts
  <2>2. \A u \in Thread \ {t} : moved'[u] = moved[u]
    BY <1>1, <1>2 DEF Record, TypeOK
  <2> QED
    BY <1>1, <2>1, <2>2 DEF Active, Working, Placed
(* Bytes outside the sector stay as they are.                                 *)
<1>5. ASSUME NEW b \in Byte, b \notin SectorOf(t)
      PROVE  disk'[b] = disk[b] /\ (StoredByAligned(b)' <=> StoredByAligned(b))
  BY <1>2, <1>3, <1>5 DEF StoredByAligned
<1>6. Misaligned(t)' => AsMoved(t)'
  <2> SUFFICES ASSUME Misaligned(t)', NEW i \in DOMAIN moved'[t]
               PROVE  \/ disk'[req[t].off + i] = moved'[t][i]
                      \/ StoredByAligned(req[t].off + i)'
    BY <1>2 DEF AsMoved
  <2> DEFINE b == req[t].off + i
  <2>1. CASE b \in Piece(t)
    <3>1. moved'[t][i] = OwnDatum(t, b)
      BY <1>1, <1>2, <2>1, RecordValues
    <3>2. disk'[b] = OwnDatum(t, b)
      BY <1>2, <1>3, <2>1
    <3> QED
      BY <3>1, <3>2
  <2>2. CASE b \notin Piece(t)
    <3>1. i \in DOMAIN moved[t] /\ moved'[t][i] = moved[t][i]
      BY <1>1, <1>2, <2>2, RecordValues
    <3>2. b \notin SectorOf(t) /\ b \in Byte
      BY <1>1, <1>4, <3>1, DoneBefore, MovedOnDisk
    <3>3. Misaligned(t)
      BY <1>2, <1>4 DEF Misaligned, Locks, Aligned, PLen
    <3> QED
      BY <1>1, <1>2, <1>5, <3>1, <3>2, <3>3 DEF Atomic, AsMoved
  <2> QED
    BY <2>1, <2>2
<1>7. ASSUME NEW u \in Thread, u # t, Misaligned(u)' PROVE AsMoved(u)'
  <2>1. Misaligned(u)
    BY <1>2, <1>4, <1>7 DEF Misaligned, Active, Rejected, Locks, Aligned, PLen
  <2>2. ~Locks(req[t])
    BY <1>1, <1>4, <1>7, <2>1 DEF Exclusion, Misaligned
  <2>3. pc[t] = "mid"
    BY <1>1, <2>2 DEF Working, Placed, InHead, InTail
  <2>4. SectorOf(t) = Piece(t)
    BY <1>1, <2>3, PieceFacts DEF SectorOf, Piece, From, Count, InHead, InTail
  <2>5. ASSUME NEW i \in DOMAIN moved[u]
        PROVE  LET b == req[u].off + i
               IN  disk'[b] = moved[u][i] \/ StoredByAligned(b)'
    <3> DEFINE b == req[u].off + i
    <3>1. b \in Byte
      BY <1>1, <2>1, MovedOnDisk DEF Misaligned, Active
    <3>2. CASE b \in Piece(t)
      <4>1. last'[b] = [req |-> req[t], idx |-> b - req[t].off]
        BY <1>2, <3>1, <3>2
      <4>2. last'[b] \in [req : Request, idx : Nat]
        BY <1>1, <3>2, <4>1, OwnDatumFacts, PieceFacts
      <4>3. last'[b] # Zero /\ last'[b].req = req[t]
        BY <4>1, <4>2
      <4> QED
        BY <1>2, <2>2, <4>3 DEF StoredByAligned, Locks, Aligned, PLen
    <3>3. CASE b \notin Piece(t)
      BY <1>1, <1>2, <1>5, <2>1, <2>4, <3>1, <3>3 DEF Atomic, AsMoved
    <3> QED
      BY <3>2, <3>3
  <2> QED
    BY <1>2, <1>4, <1>7, <2>5 DEF AsMoved
<1> QED
  BY <1>6, <1>7 DEF Atomic

(* Every step keeps misaligned calls atomic.                                  *)
LEMMA AtomicStep == AtomicInv /\ [Next]_vars => AtomicInv'
<1> SUFFICES ASSUME AtomicInv, [Next]_vars PROVE AtomicInv'
  OBVIOUS
<1>0. /\ SurvivalInv /\ CountInv /\ TypeOK /\ Atomic
      /\ (\A u \in Thread : Placed(u)) /\ \A u \in Thread : Done(u)
  BY DEF AtomicInv, SurvivalInv, CountInv, TypeInv
<1>1. SUFFICES Atomic'
  BY <1>0, SurvivalStep, CountStep DEF AtomicInv
(* A step of t that leaves the disk alone.                                    *)
<1>2. ASSUME NEW t \in Thread, disk' = disk, last' = last,
             Misaligned(t)' => AsMoved(t)',
             \A u \in Thread \ {t} :
                 pc'[u] = pc[u] /\ req'[u] = req[u] /\ moved'[u] = moved[u]
      PROVE  Atomic'
  <2>1. ASSUME NEW u \in Thread, u # t, Misaligned(u)' PROVE AsMoved(u)'
    <3>1. Misaligned(u)
      BY <1>2, <2>1 DEF Misaligned, Active, Rejected, Locks, Aligned, PLen
    <3> QED
      BY <1>0, <1>2, <2>1, <3>1 DEF Atomic, AsMoved, StoredByAligned
  <2> QED
    BY <1>2, <2>1 DEF Atomic
(* A step of t that also leaves alone what t has moved.                       *)
<1>3. ASSUME NEW t \in Thread, disk' = disk, last' = last, req' = req, moved' = moved,
             Active(t), \A u \in Thread \ {t} : pc'[u] = pc[u]
      PROVE  Atomic'
  <2>1. Misaligned(t)' => Misaligned(t)
    BY <1>3 DEF Misaligned, Rejected, Locks, Aligned, PLen
  <2>2. Misaligned(t)' => AsMoved(t)'
    BY <1>0, <1>3, <2>1 DEF Atomic, AsMoved, StoredByAligned
  <2> QED
    BY <1>2, <1>3, <2>2
<1>4. ASSUME NEW t \in Thread, NEW r \in Request, Call(t, r) PROVE Atomic'
  <2>1. ~Misaligned(t)'
    BY <1>0, <1>4 DEF Call, TypeOK, Misaligned, Active, Rejected, Locks, Aligned, PLen
  <2> QED
    BY <1>0, <1>2, <1>4, <2>1 DEF Call, TypeOK
<1>5. ASSUME NEW t \in Thread, Lock(t) PROVE Atomic'
  <2>1. DOMAIN moved'[t] = {}
    BY <1>0, <1>5 DEF Lock, Done
  <2>2. AsMoved(t)'
    BY <2>1 DEF AsMoved
  <2> QED
    BY <1>0, <1>2, <1>5, <2>2 DEF Lock, TypeOK
<1>6. ASSUME NEW t \in Thread, Return(t) PROVE Atomic'
  <2>1. ~Misaligned(t)'
    BY <1>0, <1>6 DEF Return, TypeOK, Misaligned, Active
  <2> QED
    BY <1>0, <1>2, <1>6, <2>1 DEF Return, TypeOK
<1>7. ASSUME NEW t \in Thread, Fill(t) PROVE Atomic'
  <2>1. /\ Working(t) /\ Active(t) /\ req' = req /\ Record(t, disk)
        /\ disk' = disk /\ last' = last /\ (Advance(t) \/ Abort(t))
    BY <1>7 DEF Fill, Working, Active
  <2>2. \A u \in Thread \ {t} : pc'[u] = pc[u] /\ moved'[u] = moved[u]
    <3>1. \A u \in Thread \ {t} : pc'[u] = pc[u]
      BY <1>0, <2>1, AdvanceFacts, AbortFacts
    <3> QED
      BY <1>0, <2>1, <3>1 DEF Record, TypeOK
  <2>3. ASSUME Misaligned(t)', NEW i \in DOMAIN moved'[t]
        PROVE  \/ disk[req[t].off + i] = moved'[t][i]
               \/ StoredByAligned(req[t].off + i)
    <3>1. Misaligned(t)
      BY <2>1, <2>3 DEF Misaligned, Rejected, Locks, Aligned, PLen
    <3> QED
      BY <1>0, <2>1, <3>1, RecordValues DEF Atomic, AsMoved
  <2>4. Misaligned(t)' => AsMoved(t)'
    BY <2>1, <2>3 DEF AsMoved, StoredByAligned
  <2> QED
    BY <1>2, <2>1, <2>2, <2>4
<1>8. ASSUME NEW t \in Thread, Fetch(t) PROVE Atomic'
  BY <1>0, <1>3, <1>8 DEF Fetch, Active, TypeOK
<1>9. ASSUME NEW t \in Thread, Fail(t) PROVE Atomic'
  BY <1>0, <1>3, <1>9 DEF Fail, Abort, Active, TypeOK
<1>10. ASSUME NEW t \in Thread, Store(t) PROVE Atomic'
  <2> DEFINE data == [b \in SectorOf(t) |-> tmpBuf[t][b - Base(t)]]
  <2>1. /\ Working(t) /\ Buffering(t) /\ req[t].kind = "write"
        /\ Put(t, data) /\ (Advance(t) \/ Abort(t))
    BY <1>0, <1>10 DEF Store, Working, Buffering, Placed
  <2>2. \A b \in SectorOf(t) : data[b] = tmpBuf[t][b - Base(t)]
    OBVIOUS
  <2> HIDE DEF data
  <2>3. Piece(t) \subseteq SectorOf(t)
    BY <1>0, <2>1, PieceInSector
  <2>4. \A b \in Piece(t) : data[b] = OwnDatum(t, b)
    BY <1>0, <2>1, <2>2, <2>3, OwnDatumFacts DEF SurvivalInv, Fresh, Buffering
  <2> QED
    BY <2>1, <2>4, PutAtomic
<1>11. ASSUME NEW t \in Thread, Overwrite(t) PROVE Atomic'
  <2> DEFINE data == [b \in SectorOf(t) |-> OwnDatum(t, b)]
  <2>1. /\ Working(t) /\ req[t].kind = "write"
        /\ Put(t, data) /\ (Advance(t) \/ Abort(t))
    BY <1>11 DEF Overwrite, Working
  <2>2. \A b \in Piece(t) : data[b] = OwnDatum(t, b)
    BY <1>0, <2>1, PieceInSector
  <2> HIDE DEF data
  <2> QED
    BY <2>1, <2>2, PutAtomic
<1>12. CASE UNCHANGED vars
  BY <1>0, <1>12 DEF vars, Atomic, Misaligned, AsMoved, Active, StoredByAligned
<1> QED
  BY <1>4, <1>5, <1>6, <1>7, <1>8, <1>9, <1>10, <1>11, <1>12 DEF Next, Work

(* It holds at the beginning.                                                 *)
LEMMA AtomicInit == Init => AtomicInv
<1> SUFFICES ASSUME Init PROVE AtomicInv
  OBVIOUS
<1>1. CountInv
  BY TypeInit DEF CountInv, Init, Done, Working, Nothing
<1>2. Atomic
  BY DEF Init, Atomic, Misaligned, Active
<1> QED
  BY <1>1, <1>2, SurvivalInit DEF AtomicInv

(* As long as a misaligned call is under way, what it has read or written is  *)
(* on the disk, but for what an aligned write has stored over it.             *)
THEOREM AtomicCalls == Spec => []MisalignedCallsAtomic
<1>1. AtomicInv => MisalignedCallsAtomic
  BY DEF AtomicInv, Atomic, Misaligned, AsMoved, MisalignedCallsAtomic
<1> QED
  BY <1>1, AtomicInit, AtomicStep, PTL DEF Spec

-----------------------------------------------------------------------------
(* When calls are tidy: no lost update, and the refinement of ByteStore.      *)

(* What was last stored at a byte is of a write that goes there.              *)
Written(b) ==
    last[b] # Zero =>
        /\ last[b].req \in Request /\ last[b].req.kind = "write" /\ ~Rejected(last[b].req)
        /\ b \in last[b].req.off .. last[b].req.off + last[b].req.len - 1

StoreInv == AtomicInv /\ Tidy /\ \A b \in Byte : Written(b)

(* The bytes of a piece are bytes the call is about.                          *)
LEMMA PieceInCall ==
    ASSUME TypeOK, NEW t \in Thread, Placed(t), Working(t), NEW b \in Piece(t)
    PROVE  b \in req[t].off .. req[t].off + PLen(req[t]) - 1
<1>1. /\ Base(t) \in Nat /\ From(t) \in Nat /\ Count(t) \in Nat /\ Index(t) \in Nat
      /\ Index(t) + Count(t) =< PLen(req[t])
      /\ Index(t) = Base(t) + From(t) - req[t].off
      /\ req[t].off \in Nat /\ PLen(req[t]) \in Nat
  BY PieceFacts, RequestBounds DEF Placed, Working
<1> QED
  BY <1>1 DEF Piece

(* Writing a sector stores the data of the call.                              *)
LEMMA PutWritten ==
    ASSUME TypeOK, NEW t \in Thread, Placed(t), Working(t), req[t].kind = "write",
           NEW data, Put(t, data), \A b \in Byte : Written(b)
    PROVE  \A b \in Byte : Written(b)'
<1> SUFFICES ASSUME NEW b \in Byte PROVE Written(b)'
  OBVIOUS
<1>1. last'[b] = IF b \in Piece(t) THEN [req |-> req[t], idx |-> b - req[t].off] ELSE last[b]
  BY DEF Put
<1>2. CASE b \in Piece(t)
  <2>1. req[t] \in Request /\ ~Rejected(req[t]) /\ PLen(req[t]) = req[t].len
    BY InCall, RequestBounds DEF Working, Placed
  <2>2. b \in req[t].off .. req[t].off + req[t].len - 1
    BY <1>2, <2>1, PieceInCall
  <2>3. last'[b].req = req[t]
    BY <1>1, <1>2
  <2> QED
    BY <2>1, <2>2, <2>3 DEF Written, Rejected
<1>3. CASE b \notin Piece(t)
  BY <1>1, <1>3 DEF Written, Rejected
<1> QED
  BY <1>2, <1>3

(* Every step keeps StoreInv.                                                 *)
LEMMA StoreStep == StoreInv /\ [Next]_vars => StoreInv'
<1> SUFFICES ASSUME StoreInv, [Next]_vars PROVE StoreInv'
  OBVIOUS
<1>1. AtomicInv /\ Tidy /\ (\A b \in Byte : Written(b)) /\ TypeOK /\ \A t \in Thread : Placed(t)
  BY DEF StoreInv, AtomicInv, CountInv, TypeInv
<1>2. AtomicInv'
  BY <1>1, AtomicStep
<1>3. Tidy'
  BY <1>1 DEF Tidy, Rejected, Locks, Aligned, PLen, EdgeSector, HeadOff
<1>4. \A b \in Byte : Written(b)'
  <2>1. ASSUME NEW t \in Thread, Store(t) \/ Overwrite(t) PROVE \A b \in Byte : Written(b)'
    <3>1. Working(t) /\ req[t].kind = "write" /\ \E data : Put(t, data)
      BY <1>1, <2>1 DEF Store, Overwrite, Working, Placed
    <3> QED
      BY <1>1, <3>1, PutWritten
  <2>2. ASSUME last' = last PROVE \A b \in Byte : Written(b)'
    BY <1>1, <2>2 DEF Written, Rejected
  <2> QED
    BY <2>1, <2>2 DEF Next, Call, Lock, Work, Fill, Fetch, Fail, Return, vars
<1> QED
  BY <1>2, <1>3, <1>4 DEF StoreInv

(* No sector that is rewritten holds the data of an aligned write.            *)
LEMMA EdgesClean ==
    ASSUME StoreInv, NEW b \in Byte, EdgeSector(b \div SectorSize)
    PROVE  ~StoredByAligned(b)
BY DEF StoreInv, Written, Tidy, StoredByAligned

(* So the disk holds what was last stored.                                    *)
LEMMA NothingLost == StoreInv => NoLostUpdate
<1> SUFFICES ASSUME StoreInv PROVE NoLostUpdate
  OBVIOUS
<1>1. disk \in [Byte -> Datum] /\ last \in [Byte -> Datum] /\ MisalignedWritesSurvive
  BY DEF StoreInv, AtomicInv, SurvivalInv, TypeInv, TypeOK
<1>2. \A b \in Byte : disk[b] = last[b]
  BY <1>1, EdgesClean DEF MisalignedWritesSurvive
<1> QED
  BY <1>1, <1>2 DEF NoLostUpdate

-----------------------------------------------------------------------------
(* ByteStore.                                                                 *)

(* A function that changes at one argument only.                              *)
LEMMA ChangesAt ==
    ASSUME NEW S, NEW f, NEW g, NEW s \in S,
           f = [x \in S |-> f[x]], g = [x \in S |-> g[x]],
           \A x \in S \ {s} : g[x] = f[x]
    PROVE  g = [f EXCEPT ![s] = g[s]]
OBVIOUS

(* The view of a call from the store.                                         *)
LEMMA ViewAt ==
    ASSUME NEW t \in Thread
    PROVE  /\ StoreOp[t] = IF UnderWay(t) THEN req[t] ELSE NoRequest
           /\ StoreGot[t] = IF UnderWay(t) /\ req[t].kind = "read" THEN moved[t] ELSE Nothing
           /\ StoreOp'[t] = IF UnderWay(t)' THEN req'[t] ELSE NoRequest
           /\ StoreGot'[t] = IF UnderWay(t)' /\ req'[t].kind = "read" THEN moved'[t]
                                                                      ELSE Nothing
BY DEF StoreOp, StoreGot, Nothing

(* A step of t changes the view of t only.                                    *)
LEMMA ViewOfOne ==
    ASSUME NEW t \in Thread,
           \A u \in Thread \ {t} :
               pc'[u] = pc[u] /\ req'[u] = req[u] /\ moved'[u] = moved[u]
    PROVE  /\ StoreOp' = [StoreOp EXCEPT ![t] = StoreOp'[t]]
           /\ StoreGot' = [StoreGot EXCEPT ![t] = StoreGot'[t]]
           /\ StoreOp'[t] = StoreOp[t] => StoreOp' = StoreOp
           /\ StoreGot'[t] = StoreGot[t] => StoreGot' = StoreGot
<1>1. \A u \in Thread \ {t} : StoreOp'[u] = StoreOp[u] /\ StoreGot'[u] = StoreGot[u]
  <2> SUFFICES ASSUME NEW u \in Thread \ {t}
               PROVE  StoreOp'[u] = StoreOp[u] /\ StoreGot'[u] = StoreGot[u]
    OBVIOUS
  <2>1. UnderWay(u)' <=> UnderWay(u)
    BY DEF UnderWay, Active, Rejected
  <2> QED
    BY <2>1, ViewAt
<1>2. StoreOp = [u \in Thread |-> StoreOp[u]] /\ StoreGot = [u \in Thread |-> StoreGot[u]]
  BY DEF StoreOp, StoreGot
<1>3. StoreOp' = [u \in Thread |-> StoreOp'[u]] /\ StoreGot' = [u \in Thread |-> StoreGot'[u]]
  BY DEF StoreOp, StoreGot
<1> HIDE DEF StoreOp, StoreGot
<1>4. /\ StoreOp' = [StoreOp EXCEPT ![t] = StoreOp'[t]]
      /\ StoreGot' = [StoreGot EXCEPT ![t] = StoreGot'[t]]
  BY <1>1, <1>2, <1>3, ChangesAt
<1> QED
  BY <1>2, <1>4

(* The store under the handle.                                                *)
StoreStays == disk' = disk /\ StoreOp' = StoreOp /\ StoreGot' = StoreGot
StoreNext == [Promise!Next]_<<disk, StoreOp, StoreGot>>

(* A call comes under way.                                                    *)
LEMMA StartRefines ==
    ASSUME NEW t \in Thread, NEW r \in Request, disk' = disk,
           ~UnderWay(t), UnderWay(t)', req'[t] = r, moved'[t] = Nothing,
           Locks(r) => \A u \in Thread : ~(UnderWay(u) /\ Locks(req[u])),
           \A u \in Thread \ {t} :
               pc'[u] = pc[u] /\ req'[u] = req[u] /\ moved'[u] = moved[u]
    PROVE  StoreNext
<1>1. /\ StoreOp' = [StoreOp EXCEPT ![t] = StoreOp'[t]]
      /\ StoreGot'[t] = StoreGot[t] => StoreGot' = StoreGot
  BY ViewOfOne
<1>2. /\ StoreOp[t] = NoRequest /\ StoreGot[t] = Nothing
      /\ StoreOp'[t] = r /\ StoreGot'[t] = Nothing
  BY ViewAt
<1>3. r \in {q \in Request : Locks(q)} =>
         \A u \in Thread : StoreOp[u] \notin {q \in Request : Locks(q)}
  BY ViewAt, NoRequestFacts
<1>4. Promise!Start(t, r)
  BY <1>1, <1>2, <1>3 DEF Promise!Start
<1> QED
  BY <1>4 DEF StoreNext, Promise!Next

(* A call that is under way ends.                                             *)
LEMMA FinishRefines ==
    ASSUME NEW t \in Thread, disk' = disk, UnderWay(t), req[t] \in Request, ~UnderWay(t)',
           \A u \in Thread \ {t} :
               pc'[u] = pc[u] /\ req'[u] = req[u] /\ moved'[u] = moved[u]
    PROVE  StoreNext
<1>1. /\ StoreOp' = [StoreOp EXCEPT ![t] = StoreOp'[t]]
      /\ StoreGot' = [StoreGot EXCEPT ![t] = StoreGot'[t]]
  BY ViewOfOne
<1>2. StoreOp[t] # NoRequest /\ StoreOp'[t] = NoRequest /\ StoreGot'[t] = Nothing
  BY ViewAt, NoRequestFacts
<1>3. Promise!Finish(t)
  BY <1>1, <1>2 DEF Promise!Finish, Promise!Nothing, Nothing
<1> QED
  BY <1>3 DEF StoreNext, Promise!Next

(* A step that the store does not see.                                        *)
LEMMA StayRefines ==
    ASSUME NEW t \in Thread, disk' = disk, UnderWay(t)' <=> UnderWay(t),
           UnderWay(t) => /\ req'[t] = req[t]
                          /\ req[t].kind = "read" => moved'[t] = moved[t],
           \A u \in Thread \ {t} :
               pc'[u] = pc[u] /\ req'[u] = req[u] /\ moved'[u] = moved[u]
    PROVE  StoreNext
<1>1. /\ StoreOp'[t] = StoreOp[t] => StoreOp' = StoreOp
      /\ StoreGot'[t] = StoreGot[t] => StoreGot' = StoreGot
  BY ViewOfOne
<1>2. StoreOp'[t] = StoreOp[t] /\ StoreGot'[t] = StoreGot[t]
  BY ViewAt
<1> QED
  BY <1>1, <1>2 DEF StoreNext

(* The bytes of a piece are bytes the store gives the call.                   *)
LEMMA PieceInExtent ==
    ASSUME TypeOK, NEW t \in Thread, Placed(t), Working(t)
    PROVE  Piece(t) \in SUBSET Promise!Extent(req[t])
<1>1. req[t] \in Request /\ ~Rejected(req[t])
  BY InCall DEF Working, Placed
<1>2. /\ req[t].off \in Nat /\ req[t].len \in Nat /\ PLen(req[t]) \in Nat
      /\ Capacity \in Nat
      /\ req[t].off + PLen(req[t]) =< Capacity /\ PLen(req[t]) =< req[t].len
  BY <1>1, RequestBounds DEF PLen
<1>3. Promise!Extent(req[t]) =
         req[t].off ..
            (IF req[t].off + req[t].len > Capacity THEN Capacity ELSE req[t].off + req[t].len) - 1
  BY DEF Promise!Extent
<1> QED
  BY <1>2, <1>3, PieceInCall

(* Reading a piece.                                                           *)
LEMMA ReadRefines ==
    ASSUME TypeOK, NEW t \in Thread, Placed(t), Working(t), req[t].kind = "read",
           disk' = disk, req' = req, Record(t, disk), UnderWay(t), UnderWay(t)',
           \A u \in Thread \ {t} :
               pc'[u] = pc[u] /\ req'[u] = req[u] /\ moved'[u] = moved[u]
    PROVE  StoreNext
<1>1. /\ StoreOp'[t] = StoreOp[t] => StoreOp' = StoreOp
      /\ StoreGot' = [StoreGot EXCEPT ![t] = StoreGot'[t]]
  BY ViewOfOne
<1>2. /\ StoreOp[t] = req[t] /\ StoreOp'[t] = req[t]
      /\ StoreGot[t] = moved[t] /\ StoreGot'[t] = moved'[t]
  BY ViewAt
<1>3. /\ Base(t) \in Nat /\ From(t) \in Nat /\ Index(t) \in Nat /\ Count(t) \in Nat
      /\ Index(t) = Base(t) + From(t) - req[t].off
      /\ req[t].off \in Nat /\ PLen(req[t]) \in Nat
  BY PieceFacts, RequestBounds DEF Placed, Working
<1>4. Indices(t) = {b - req[t].off : b \in Piece(t)}
  <2>1. ASSUME NEW i \in Indices(t) PROVE i \in {b - req[t].off : b \in Piece(t)}
    <3>1. req[t].off + i \in Piece(t) /\ (req[t].off + i) - req[t].off = i
      BY <1>3 DEF Indices, Piece
    <3> QED
      BY <3>1
  <2>2. ASSUME NEW b \in Piece(t) PROVE b - req[t].off \in Indices(t)
    BY <1>3 DEF Indices, Piece
  <2> QED
    BY <2>1, <2>2
<1>5. moved'[t] = [i \in DOMAIN moved[t] \cup {b - req[t].off : b \in Piece(t)} |->
                      IF req[t].off + i \in Piece(t) THEN disk[req[t].off + i]
                                                     ELSE moved[t][i]]
  <2> DEFINE all == DOMAIN moved[t] \cup Indices(t)
  <2>1. moved'[t] = [i \in all |-> moved'[t][i]] /\ DOMAIN moved'[t] = all
    <3> DEFINE f == [i \in all |-> IF i \in Indices(t)
                                    THEN disk[Base(t) + From(t) + i - Index(t)]
                                    ELSE moved[t][i]]
    <3>1. moved'[t] = f
      BY DEF Record, TypeOK
    <3>2. f = [i \in all |-> f[i]] /\ DOMAIN f = all
      OBVIOUS
    <3> QED
      BY <3>1, <3>2
  <2>2. ASSUME NEW i \in all
        PROVE  moved'[t][i] = IF req[t].off + i \in Piece(t) THEN disk[req[t].off + i]
                                                             ELSE moved[t][i]
    BY <2>1, RecordValues
  <2> QED
    BY <1>4, <2>1, <2>2
<1>6. Promise!Read(t, Piece(t))
  BY <1>1, <1>2, <1>5 DEF Promise!Read
<1>7. StoreOp[t] # NoRequest /\ Piece(t) \in SUBSET Promise!Extent(StoreOp[t])
  BY <1>2, PieceInExtent, InCall, NoRequestFacts DEF Working
<1> QED
  BY <1>6, <1>7 DEF StoreNext, Promise!Next

(* Writing a sector whose bytes around the piece are those of the disk.       *)
LEMMA WriteRefines ==
    ASSUME TypeOK, NEW t \in Thread, Placed(t), Working(t), req[t].kind = "write",
           NEW data, Put(t, data), UnderWay(t), UnderWay(t)',
           \A b \in Piece(t) : data[b] = [req |-> req[t], idx |-> b - req[t].off],
           \A b \in SectorOf(t) \ Piece(t) : data[b] = disk[b],
           \A u \in Thread \ {t} :
               pc'[u] = pc[u] /\ req'[u] = req[u] /\ moved'[u] = moved[u]
    PROVE  StoreNext
<1>1. /\ StoreOp'[t] = StoreOp[t] => StoreOp' = StoreOp
      /\ StoreGot'[t] = StoreGot[t] => StoreGot' = StoreGot
  BY ViewOfOne
<1>2. req' = req
  BY DEF Put
<1>3. /\ StoreOp[t] = req[t] /\ StoreOp'[t] = req[t]
      /\ StoreGot[t] = Nothing /\ StoreGot'[t] = Nothing
  BY <1>2, ViewAt
<1>4. Piece(t) \subseteq SectorOf(t)
  BY PieceInSector
<1>5. disk' = [b \in 0 .. Capacity - 1 |->
                  IF b \in Piece(t) THEN [req |-> req[t], idx |-> b - req[t].off]
                                    ELSE disk[b]]
  BY <1>4 DEF Put, Byte
<1>6. Promise!Write(t, Piece(t))
  BY <1>1, <1>3, <1>5 DEF Promise!Write
<1>7. StoreOp[t] # NoRequest /\ Piece(t) \in SUBSET Promise!Extent(StoreOp[t])
  BY <1>3, PieceInExtent, InCall, NoRequestFacts DEF Working
<1> QED
  BY <1>6, <1>7 DEF StoreNext, Promise!Next

(* Every step is a step of the store, or the store does not see it.           *)
LEMMA HandleRefines ==
    ASSUME StoreInv, [Next]_vars
    PROVE  StoreNext
<1>0. /\ TypeOK /\ Exclusion /\ NoLostUpdate
      /\ \A u \in Thread : Placed(u) /\ Done(u) /\ Fresh(u)
  BY NothingLost DEF StoreInv, AtomicInv, SurvivalInv, CountInv, TypeInv
<1>1. ASSUME NEW t \in Thread, Working(t)
      PROVE  UnderWay(t) /\ req[t] \in Request
  BY <1>0, <1>1, InCall DEF UnderWay, Active, Working, Placed
<1>2. ASSUME NEW t \in Thread, Working(t), req' = req, Advance(t) \/ Abort(t)
      PROVE  UnderWay(t)' /\ \A u \in Thread \ {t} : pc'[u] = pc[u]
  BY <1>0, <1>1, <1>2, AdvanceFacts, AbortFacts DEF UnderWay, Active, Rejected
<1>3. ASSUME NEW t \in Thread, pc[t] \in {"idle", "lock"} PROVE moved[t] = Nothing
  <2>1. DOMAIN moved[t] = {} /\ moved[t] \in [DOMAIN moved[t] -> Datum]
    BY <1>0, <1>3 DEF Done, TypeOK
  <2> QED
    BY <2>1 DEF Nothing
<1>4. ASSUME NEW t \in Thread, NEW r \in Request, Call(t, r) PROVE StoreNext
  <2>1. /\ pc[t] = "idle" /\ req'[t] = r /\ disk' = disk /\ moved' = moved
        /\ pc'[t] = IF Rejected(r) THEN "ret" ELSE IF Locks(r) THEN "lock" ELSE FirstPart(r)
        /\ \A u \in Thread \ {t} : pc'[u] = pc[u] /\ req'[u] = req[u]
    BY <1>0, <1>4 DEF Call, TypeOK
  <2>2. ~UnderWay(t) /\ moved'[t] = Nothing
    BY <1>3, <2>1 DEF UnderWay, Active
  <2>3. CASE Rejected(r) \/ Locks(r)
    <3>1. ~UnderWay(t)'
      BY <2>1, <2>3 DEF UnderWay, Active, Rejected
    <3> QED
      BY <2>1, <2>2, <3>1, StayRefines
  <2>4. CASE ~Rejected(r) /\ ~Locks(r)
    <3>1. UnderWay(t)'
      BY <2>1, <2>4, FirstPartFacts DEF UnderWay, Active, Rejected
    <3> QED
      BY <2>1, <2>2, <2>4, <3>1, StartRefines
  <2> QED
    BY <2>3, <2>4
<1>5. ASSUME NEW t \in Thread, Lock(t) PROVE StoreNext
  <2>1. /\ pc[t] = "lock" /\ mutex = NoThread /\ req' = req /\ disk' = disk /\ moved' = moved
        /\ pc'[t] = FirstPart(req[t]) /\ \A u \in Thread \ {t} : pc'[u] = pc[u]
        /\ req[t] \in Request /\ ~Rejected(req[t])
    BY <1>0, <1>5, InCall DEF Lock, TypeOK, Placed
  <2>2. ~UnderWay(t) /\ moved'[t] = Nothing
    BY <1>3, <2>1 DEF UnderWay, Active
  <2>3. UnderWay(t)'
    BY <2>1, FirstPartFacts DEF UnderWay, Active, Rejected
  <2>4. \A u \in Thread : ~(UnderWay(u) /\ Locks(req[u]))
    BY <1>0, <2>1 DEF Exclusion, UnderWay
  <2> QED
    BY <2>1, <2>2, <2>3, <2>4, StartRefines
<1>6. ASSUME NEW t \in Thread, Return(t) PROVE StoreNext
  <2>1. /\ pc[t] = "ret" /\ disk' = disk /\ ~UnderWay(t)' /\ req[t] \in Request
        /\ \A u \in Thread \ {t} :
              pc'[u] = pc[u] /\ req'[u] = req[u] /\ moved'[u] = moved[u]
    BY <1>0, <1>6, InCall DEF Return, TypeOK, UnderWay, Active
  <2> QED
    BY <2>1, FinishRefines, StayRefines
<1>7. ASSUME NEW t \in Thread, Fill(t) PROVE StoreNext
  <2>1. /\ Working(t) /\ req[t].kind = "read" /\ req' = req /\ Record(t, disk)
        /\ disk' = disk /\ (Advance(t) \/ Abort(t))
        /\ \A u \in Thread \ {t} : moved'[u] = moved[u]
    BY <1>0, <1>7 DEF Fill, Working, Record, TypeOK
  <2> QED
    BY <1>0, <1>1, <1>2, <2>1, ReadRefines
<1>8. ASSUME NEW t \in Thread, Fetch(t) PROVE StoreNext
  <2>1. /\ Working(t) /\ req' = req /\ disk' = disk /\ moved' = moved
        /\ pc'[t] \in {"headWrite", "tailWrite"} /\ \A u \in Thread \ {t} : pc'[u] = pc[u]
    BY <1>0, <1>8 DEF Fetch, Working, TypeOK
  <2>2. UnderWay(t) /\ UnderWay(t)'
    BY <1>1, <2>1 DEF UnderWay, Active, Rejected
  <2> QED
    BY <2>1, <2>2, StayRefines
<1>9. ASSUME NEW t \in Thread, Fail(t) PROVE StoreNext
  <2>1. Working(t) /\ Abort(t) /\ req' = req /\ disk' = disk /\ moved' = moved
    BY <1>9 DEF Fail, Working
  <2> QED
    BY <1>1, <1>2, <2>1, StayRefines
<1>10. ASSUME NEW t \in Thread, Store(t) PROVE StoreNext
  <2> DEFINE data == [b \in SectorOf(t) |-> tmpBuf[t][b - Base(t)]]
  <2>1. /\ Working(t) /\ Buffering(t) /\ req[t].kind = "write" /\ req' = req
        /\ Put(t, data) /\ (Advance(t) \/ Abort(t))
    BY <1>0, <1>10 DEF Store, Put, Working, Buffering, Placed
  <2>2. \A b \in SectorOf(t) : data[b] = tmpBuf[t][b - Base(t)]
    OBVIOUS
  <2>3. \A u \in Thread \ {t} : moved'[u] = moved[u]
    BY <1>0, <2>1 DEF Put, Record, TypeOK
  <2> HIDE DEF data
  <2>4. Piece(t) \subseteq SectorOf(t) /\ SectorOf(t) \subseteq Byte
    BY <1>0, <2>1, PieceInSector
  <2>5. \A b \in Piece(t) : data[b] = [req |-> req[t], idx |-> b - req[t].off]
    BY <1>0, <2>1, <2>2, <2>4 DEF Fresh, Buffering
  <2>6. ASSUME NEW b \in SectorOf(t) \ Piece(t) PROVE data[b] = disk[b]
    <3>1. data[b] = last[b] \/ StoredByAligned(b)
      BY <1>0, <2>1, <2>2, <2>6 DEF Fresh, Buffering
    <3>2. ~StoredByAligned(b)
      BY <1>0, <2>1, <2>4, <2>6, EdgeOfBuffer, EdgesClean
    <3> QED
      BY <1>0, <3>1, <3>2 DEF NoLostUpdate
  <2> QED
    BY <1>0, <1>1, <1>2, <2>1, <2>3, <2>5, <2>6, WriteRefines
<1>11. ASSUME NEW t \in Thread, Overwrite(t) PROVE StoreNext
  <2> DEFINE data == [b \in SectorOf(t) |-> OwnDatum(t, b)]
  <2>1. /\ Working(t) /\ pc[t] = "mid" /\ req[t].kind = "write" /\ req' = req
        /\ Put(t, data) /\ (Advance(t) \/ Abort(t))
    BY <1>11 DEF Overwrite, Put, Working
  <2>2. SectorOf(t) = Piece(t)
    BY <1>0, <2>1, PieceFacts DEF SectorOf, Piece, From, Count, InHead, InTail
  <2>3. \A b \in Piece(t) : data[b] = [req |-> req[t], idx |-> b - req[t].off]
    BY <1>0, <2>1, <2>2, OwnDatumFacts
  <2> HIDE DEF data
  <2>4. \A u \in Thread \ {t} : moved'[u] = moved[u]
    BY <1>0, <2>1 DEF Put, Record, TypeOK
  <2> QED
    BY <1>0, <1>1, <1>2, <2>1, <2>2, <2>3, <2>4, WriteRefines
<1>12. CASE UNCHANGED vars
  <2>1. StoreOp' = StoreOp /\ StoreGot' = StoreGot
    BY <1>12 DEF vars, StoreOp, StoreGot, UnderWay, Active, Rejected
  <2> QED
    BY <1>12, <2>1 DEF vars, StoreNext
<1> QED
  BY <1>4, <1>5, <1>6, <1>7, <1>8, <1>9, <1>10, <1>11, <1>12 DEF Next, Work

(* When calls are tidy the invariants of the handle hold always.              *)
LEMMA AlwaysStoreInv == Tidy /\ Spec => []StoreInv
<1>1. Tidy /\ Init => StoreInv
  <2> SUFFICES ASSUME Tidy, Init PROVE StoreInv
    OBVIOUS
  <2>1. AtomicInv
    BY AtomicInit
  <2>2. \A b \in Byte : Written(b)
    BY DEF Init, Written
  <2> QED
    BY <2>1, <2>2 DEF StoreInv
<1> QED
  BY <1>1, StoreStep, PTL DEF Spec

(* No update is lost when no aligned write goes to a sector that others       *)
(* rewrite.                                                                   *)
THEOREM TidyLosesNothing == Tidy /\ Spec => []NoLostUpdate
BY NothingLost, AlwaysStoreInv, PTL

(* And then the handle is a store of bytes.                                   *)
THEOREM Refinement == Tidy /\ Spec => ImplementsByteStore
<1>1. Init => Promise!Init
  <2> SUFFICES ASSUME Init PROVE Promise!Init
    OBVIOUS
  <2>1. StoreOp = [t \in Thread |-> NoRequest] /\ StoreGot = [t \in Thread |-> Nothing]
    BY DEF Init, StoreOp, StoreGot, UnderWay, Active
  <2> QED
    BY <2>1 DEF Init, Promise!Init, Promise!Nothing, Nothing, Byte
<1>2. StoreInv /\ [Next]_vars => StoreNext
  BY HandleRefines
<1> QED
  BY <1>1, <1>2, AlwaysStoreInv, PTL DEF Spec, ImplementsByteStore, Promise!Spec, StoreNext
=============================================================================
