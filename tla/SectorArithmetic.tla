--------------------------- MODULE SectorArithmetic ---------------------------
(* Facts about addresses and sectors, for a sector of any size n: what the   *)
(* proofs about DiskHandle need of division, remainder and multiplication.   *)
EXTENDS Integers, TLAPS

(* An address is that of its sector plus the offset in the sector.           *)
LEMMA DivMod ==
    ASSUME NEW n \in Nat \ {0}, NEW a \in Nat
    PROVE  /\ a \div n \in Nat
           /\ (a % n) \in 0 .. n - 1
           /\ (a \div n) * n \in Nat
           /\ (a \div n) * n =< a
           /\ a = (a \div n) * n + (a % n)
<1>1. a \div n \in Nat /\ (a % n) \in 0 .. n - 1 /\ a = (a \div n) * n + (a % n)
  BY SMT
<1>2. ASSUME NEW d \in Nat PROVE d * n \in Nat
  BY SMT
<1>3. (a \div n) * n \in Nat
  BY <1>1, <1>2
<1> QED
  BY <1>1, <1>3

(* Multiplication by the sector size is monotonic.                           *)
LEMMA Mono ==
    ASSUME NEW n \in Nat \ {0}, NEW p \in Int, NEW q \in Int, p =< q
    PROVE  p * n =< q * n
<1>1. ASSUME NEW d \in Nat PROVE d * n >= 0
  BY SMT
<1>2. (q - p) * n >= 0
  BY <1>1, SMT
<1>3. (q - p) * n = q * n - p * n /\ p * n \in Int /\ q * n \in Int
  BY SMT
<1> QED
  BY <1>2, <1>3

(* A sector that begins before another one ends before or at its beginning.  *)
LEMMA Strict ==
    ASSUME NEW n \in Nat \ {0}, NEW p \in Int, NEW q \in Int, p * n < q * n
    PROVE  p + 1 =< q
<1>1. SUFFICES ASSUME q =< p PROVE FALSE
  BY SMT
<1>2. q * n =< p * n
  BY <1>1, Mono
<1> QED
  BY <1>2, SMT

(* The next sector begins n bytes later.                                     *)
LEMMA NextSector ==
    ASSUME NEW n \in Nat \ {0}, NEW p \in Int
    PROVE  p * n \in Int /\ (p + 1) * n = p * n + n
BY SMT

(* Quotient and remainder are unique: the sector of an address.              *)
LEMMA DivModUnique ==
    ASSUME NEW n \in Nat \ {0}, NEW q \in Nat, NEW r \in 0 .. n - 1,
           NEW a \in Nat, a = q * n + r
    PROVE  a \div n = q /\ (a % n) = r
<1>1. /\ a \div n \in Nat
      /\ (a % n) \in 0 .. n - 1
      /\ a = (a \div n) * n + (a % n)
  BY DivMod
<1>2. /\ q * n \in Int /\ (q + 1) * n = q * n + n
      /\ (a \div n) * n \in Int /\ (a \div n + 1) * n = (a \div n) * n + n
  BY <1>1, NextSector
<1>3. (a \div n) * n < (q + 1) * n /\ q * n < (a \div n + 1) * n
  BY <1>1, <1>2
<1>4. a \div n = q
  <2>1. a \div n + 1 =< q + 1
    BY <1>1, <1>3, Strict
  <2>2. q + 1 =< a \div n + 1
    BY <1>1, <1>3, Strict
  <2> QED
    BY <1>1, <2>1, <2>2
<1> QED
  BY <1>1, <1>2, <1>4

(* A sector that begins at or before an address of the disk is on the disk.  *)
LEMMA SectorInDisk ==
    ASSUME NEW n \in Nat \ {0}, NEW s \in Nat, NEW sectors \in Nat,
           NEW a \in Nat, s * n =< a, a < sectors * n
    PROVE  s * n \in Nat /\ s + 1 =< sectors /\ s * n + n =< sectors * n
<1>1. s * n \in Nat /\ sectors * n \in Nat /\ (s + 1) * n = s * n + n
  BY SMT
<1>2. s + 1 =< sectors
  BY <1>1, Strict
<1>3. (s + 1) * n =< sectors * n
  BY <1>2, Mono
<1> QED
  BY <1>1, <1>2, <1>3
=============================================================================
