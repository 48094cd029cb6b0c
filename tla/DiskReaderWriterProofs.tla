------------------------ MODULE DiskReaderWriterProofs ------------------------
(***************************************************************************)
(* Proofs about DiskReaderWriter: the cursor's calls are ordinary calls of *)
(* ReadAt and WriteAt, so what DiskHandleProofs proves of the handle holds *)
(* under them, and Read, Write and Seek together leave no gap.             *)
(***************************************************************************)
EXTENDS DiskReaderWriter, DiskHandleProofs

\* A call that was refused has done nothing and says so.
Refused(t) ==
    pc[t] = "ret" /\ Rejected(req[t]) => total[t] = 0 /\ err[t] # "nil"

\* A goroutine with the cursor's mutex is in the call it made at the offset;
\* one that waits for it has not called the handle yet.
Seated(t) ==
    /\ rwMutex = t <=> phase[t] = "in"
    /\ phase[t] = "in" => pc[t] # "idle" /\ req[t].off = offset
    /\ phase[t] = "lock" => pc[t] = "idle" /\ call[t] \in CursorCall

CursorInv ==
    /\ AtomicInv
    /\ CursorTypeOK
    /\ start =< offset /\ offset =< MaxOffset
    /\ CursorTilesDisk
    /\ \A t \in Thread : Refused(t) /\ Seated(t)

-----------------------------------------------------------------------------
(* A call of the handle starts, or goes on, without touching the others.      *)
LEMMA OthersStay ==
    ASSUME NEW t \in Thread, Lock(t) \/ Work(t) \/ Return(t), TypeOK
    PROVE  /\ req \in [Thread -> Request \cup {NoRequest}] /\ pc \in [Thread -> Position]
           /\ \A u \in Thread \ {t} :
                 /\ pc'[u] = pc[u] /\ req'[u] = req[u]
                 /\ total'[u] = total[u] /\ err'[u] = err[u]
BY DEF TypeOK, Lock, Work, Return, Fill, Fetch, Store, Overwrite, Fail, Put, Advance, Abort,
       HeadDone, MiddleSectorDone, MiddleDone, TailDone, locals

(* What a call that is under way returns with was not refused.                *)
LEMMA RefusedStep ==
    ASSUME TypeInv, NEW t \in Thread, Lock(t) \/ Work(t) \/ Return(t)
    PROVE  /\ Refused(t)'
           /\ Lock(t) \/ Work(t) => req' = req /\ pc'[t] # "idle"
<1>1. TypeOK /\ Placed(t) /\ pc[t] \in Position
  BY DEF TypeInv, TypeOK
<1>2. CASE Lock(t) \/ Work(t)
  <2>1. req' = req
    BY <1>2 DEF Lock, Work, Fill, Fetch, Store, Overwrite, Fail, Put
  <2>2. pc[t] = "lock" \/ Working(t)
    BY <1>2 DEF Lock, Work, Fill, Fetch, Store, Overwrite, Fail, Working
  <2>3. ~Rejected(req[t])
    BY <1>1, <2>2 DEF Placed
  <2>4. pc'[t] # "idle"
    BY <1>1, <1>2 DEF Lock, Work, Fill, Fetch, Store, Overwrite, Fail, Put, Advance, Abort,
       HeadDone, MiddleSectorDone, MiddleDone, TailDone, FirstPart, NextPart, TypeOK
  <2> QED
    BY <2>1, <2>3, <2>4 DEF Refused, Rejected, Capacity
<1>3. CASE Return(t)
  BY <1>1, <1>3 DEF Return, Refused, TypeOK, Lock, Work, Fill, Fetch, Store, Overwrite, Fail
<1> QED
  BY <1>2, <1>3

(* ReadAt and WriteAt return an n that stays on the disk, or nothing.         *)
LEMMA ReturnedBounds ==
    ASSUME TypeInv, NEW t \in Thread, pc[t] = "ret", Refused(t)
    PROVE  /\ Returned(t) \in Nat
           /\ Returned(t) = 0 \/ req[t].off + Returned(t) =< Capacity
<1>1. TypeOK /\ req[t] \in Request /\ total[t] \in Nat
  BY InCall DEF TypeInv
<1>2. CASE Rejected(req[t])
  BY <1>1, <1>2 DEF Refused, Returned
<1>3. CASE ~Rejected(req[t])
  <2>1. PLen(req[t]) \in Nat /\ req[t].off \in Nat /\ Capacity \in Nat
        /\ req[t].off + PLen(req[t]) =< Capacity
    BY <1>1, <1>3, RequestBounds
  <2>2. total[t] # 0 => total[t] =< PLen(req[t])
    BY <1>1 DEF TypeOK
  <2> QED
    BY <1>1, <2>1, <2>2 DEF Returned
<1> QED
  BY <1>2, <1>3

-----------------------------------------------------------------------------
(* Every step of the cursor is a step of the handle or leaves it alone.       *)
LEMMA CursorIsHandle == CursorInv /\ [CursorNext]_allVars => [Next]_vars
<1> SUFFICES ASSUME CursorInv, [CursorNext]_allVars PROVE [Next]_vars
  OBVIOUS
<1>1. CASE UNCHANGED allVars
  BY <1>1 DEF allVars
<1>2. ASSUME NEW t \in Thread, Enter(t) PROVE Next
  <2>1. call[t] \in CursorCall /\ call[t].op # "seek" /\ offset \in 0 .. MaxOffset
    BY <1>2 DEF CursorInv, CursorTypeOK, Seated, Enter
  <2>2. [kind |-> call[t].op, off |-> offset, len |-> call[t].len] \in Request
    BY <2>1, CursorAssumption
  <2> QED
    BY <1>2, <2>2 DEF Enter, Next
<1>3. ASSUME NEW t \in Thread, NEW r \in DirectCall, Direct(t, r) PROVE Next
  BY <1>3, CursorAssumption DEF Direct, Next
<1>4. ASSUME NEW t \in Thread,
             Leave(t) \/ InnerLock(t) \/ InnerWork(t) \/ DirectReturn(t)
      PROVE  Next
  BY <1>4 DEF Leave, InnerLock, InnerWork, DirectReturn, Next
<1>5. ASSUME NEW t \in Thread, (\E c \in CursorCall : Begin(t, c)) \/ Seek(t)
      PROVE  UNCHANGED vars
  BY <1>5 DEF Begin, Seek
<1> QED
  BY <1>1, <1>2, <1>3, <1>4, <1>5 DEF CursorNext

(* The strengthened invariant holds at the start.                             *)
LEMMA CursorInvInit == CursorInit => CursorInv
<1> SUFFICES ASSUME CursorInit PROVE CursorInv
  OBVIOUS
<1>1. AtomicInv /\ TypeOK
  BY AtomicInit DEF CursorInit, AtomicInv, CountInv, TypeInv
<1>2. start = 0 /\ offset = 0 /\ seen = {} /\ 0 =< MaxOffset
  BY CursorAssumption DEF CursorInit
<1> QED
  BY <1>1, <1>2, DiskAssumption
  DEF CursorInit, Init, CursorInv, CursorTypeOK, CursorTilesDisk, Refused, Seated

(* The strengthened invariant is kept by every step.                          *)
LEMMA CursorInvStep == CursorInv /\ [CursorNext]_allVars => CursorInv'
<1> SUFFICES ASSUME CursorInv, [CursorNext]_allVars PROVE CursorInv'
  OBVIOUS
<1>0. /\ AtomicInv' /\ TypeOK' /\ TypeInv /\ TypeOK
      /\ CursorTypeOK /\ CursorTilesDisk /\ start =< offset /\ offset =< MaxOffset
      /\ \A t \in Thread : Refused(t) /\ Seated(t)
  BY CursorIsHandle, AtomicStep DEF CursorInv, AtomicInv, CountInv, TypeInv
<1>a. MaxOffset \in Nat /\ Capacity \in Nat /\ MaxOffset >= Capacity
  BY CursorAssumption, DiskAssumption DEF Capacity
<1> DEFINE Cursor ==
        /\ offset \in Nat
        /\ rwMutex \in Thread \cup {NoThread}
        /\ phase \in [Thread -> {"out", "lock", "in"}]
        /\ call \in [Thread -> CursorCall \cup {NoCall}]
        /\ start \in Nat
        /\ seen \subseteq Nat
        /\ start =< offset /\ offset =< MaxOffset
        /\ CursorTilesDisk
<1> SUFFICES Cursor' /\ \A t \in Thread : Refused(t)' /\ Seated(t)'
  BY <1>0 DEF CursorInv, CursorTypeOK
<1>1. CASE UNCHANGED allVars
  BY <1>0, <1>1 DEF allVars, cursorVars, vars, locals, CursorTypeOK, CursorTilesDisk, Refused, Seated,
     Rejected, Capacity
<1>2. ASSUME NEW t \in Thread, NEW c \in CursorCall, Begin(t, c)
      PROVE  Cursor' /\ \A u \in Thread : Refused(u)' /\ Seated(u)'
  BY <1>0, <1>2 DEF Begin, Outside, vars, locals, CursorTypeOK, CursorTilesDisk, Refused, Seated,
     Rejected, Capacity
(* A call of the handle starts at the offset.                                 *)
<1>3. ASSUME NEW t \in Thread, NEW r, Call(t, r)
      PROVE  /\ pc'[t] # "idle" /\ req'[t] = r
             /\ \A u \in Thread \ {t} : pc'[u] = pc[u] /\ req'[u] = req[u]
             /\ \A u \in Thread : Refused(u)'
  <2>1. total[t] = 0
    BY <1>0, <1>3 DEF Call, TypeInv, Placed
  <2>2. /\ pc' = [pc EXCEPT ![t] = IF Rejected(r) THEN "ret"
                               ELSE IF Locks(r) THEN "lock" ELSE FirstPart(r)]
        /\ req' = [req EXCEPT ![t] = r] /\ total' = total
        /\ err' = [err EXCEPT ![t] = IF ~Rejected(r) THEN "nil"
                                 ELSE IF r.kind = "read" THEN "EOF"
                                 ELSE "short write"]
    BY <1>3 DEF Call
  <2>3. /\ pc \in [Thread -> Position] /\ req \in [Thread -> Request \cup {NoRequest}]
        /\ DOMAIN err = Thread /\ DOMAIN total = Thread
    BY <1>0 DEF TypeOK
  <2>4. pc'[t] # "idle" /\ req'[t] = r
        /\ \A u \in Thread \ {t} : pc'[u] = pc[u] /\ req'[u] = req[u] /\ err'[u] = err[u]
    BY <2>2, <2>3 DEF FirstPart, NextPart
  <2>5. Refused(t)'
    BY <2>1, <2>2, <2>3, <2>4 DEF Refused, Rejected, Capacity
  <2>6. ASSUME NEW u \in Thread \ {t} PROVE Refused(u)'
    BY <1>0, <2>2, <2>4 DEF Refused, Rejected, Capacity
  <2> QED
    BY <2>4, <2>5, <2>6
<1>4. ASSUME NEW t \in Thread, Enter(t)
      PROVE  Cursor' /\ \A u \in Thread : Refused(u)' /\ Seated(u)'
  <2> DEFINE r == [kind |-> call[t].op, off |-> offset, len |-> call[t].len]
  <2>1. Call(t, r) /\ r.off = offset
    BY <1>4 DEF Enter
  <2>2. /\ pc'[t] # "idle" /\ req'[t].off = offset
        /\ \A u \in Thread \ {t} : pc'[u] = pc[u] /\ req'[u] = req[u]
        /\ \A u \in Thread : Refused(u)'
    BY <1>3, <2>1
  <2> QED
    BY <1>0, <1>4, <2>2, DiskAssumption DEF Enter, CursorTypeOK, CursorTilesDisk, Seated
<1>5. ASSUME NEW t \in Thread, Leave(t)
      PROVE  Cursor' /\ \A u \in Thread : Refused(u)' /\ Seated(u)'
  <2>1. /\ Returned(t) \in Nat /\ pc[t] = "ret"
        /\ Returned(t) = 0 \/ req[t].off + Returned(t) =< Capacity
    BY <1>0, <1>5, ReturnedBounds DEF Leave, Return
  <2>2. req[t].off = offset /\ rwMutex = t
    BY <1>0, <1>5 DEF Leave, Seated
  <2>3. Refused(t)' /\ \A u \in Thread \ {t} :
           pc'[u] = pc[u] /\ req'[u] = req[u] /\ total'[u] = total[u] /\ err'[u] = err[u]
    BY <1>0, <1>5, RefusedStep, OthersStay DEF Leave
  <2>4. \A u \in Thread : Refused(u)'
    BY <1>0, <2>3 DEF Refused, Rejected, Capacity
  <2>5. /\ offset' = offset + Returned(t) /\ start' = start
        /\ seen' = seen \cup (offset .. offset + Returned(t) - 1)
    BY <1>5, <2>2 DEF Leave
  <2>6. offset' \in Nat /\ start' =< offset' /\ offset' =< MaxOffset /\ start' \in Nat
    BY <1>0, <1>a, <2>1, <2>2, <2>5 DEF CursorTypeOK
  <2>7. seen' = start' .. offset' - 1 /\ seen' \subseteq Nat
    BY <1>0, <2>1, <2>5, <2>6 DEF CursorTypeOK, CursorTilesDisk
  <2>8. Cursor'
    BY <1>0, <1>5, <2>6, <2>7 DEF Leave, CursorTypeOK, CursorTilesDisk
  <2>9. ASSUME NEW u \in Thread PROVE Seated(u)'
    BY <1>0, <1>5, <2>2, <2>3, DiskAssumption DEF Leave, CursorTypeOK, Seated
  <2> QED
    BY <2>4, <2>8, <2>9
<1>6. ASSUME NEW t \in Thread, Seek(t)
      PROVE  Cursor' /\ \A u \in Thread : Refused(u)' /\ Seated(u)'
  <2>1. call[t] \in [op : {"seek"}, offset : Int, whence : Whence]
    BY <1>0, <1>6, CursorAssumption DEF Seek, Seated
  <2>2. offset \in Nat /\ DesiredOffset(call[t]) \in Int
    BY <1>0, <2>1 DEF DesiredOffset, CursorTypeOK
  <2>3. CASE SeekRefused(call[t])
    BY <1>0, <1>6, <2>3 DEF Seek, vars, locals, CursorTypeOK, CursorTilesDisk, Refused, Seated,
       Rejected, Capacity
  <2>4. CASE ~SeekRefused(call[t])
    <3>1. /\ offset' = DesiredOffset(call[t]) /\ start' = offset' /\ seen' = {}
          /\ offset' \in 0 .. MaxOffset
      BY <1>6, <1>a, <2>2, <2>4 DEF Seek, SeekRefused
    <3>2. Cursor'
      BY <1>0, <1>6, <1>a, <3>1 DEF Seek, CursorTypeOK, CursorTilesDisk
    <3>3. ASSUME NEW u \in Thread PROVE Refused(u)' /\ Seated(u)'
      BY <1>0, <1>6, DiskAssumption
      DEF Seek, vars, locals, CursorTypeOK, Refused, Seated, Rejected, Capacity
    <3> QED
      BY <3>2, <3>3
  <2> QED
    BY <2>3, <2>4
<1>7. ASSUME NEW t \in Thread, InnerLock(t) \/ InnerWork(t) \/ DirectReturn(t)
      PROVE  Cursor' /\ \A u \in Thread : Refused(u)' /\ Seated(u)'
  <2>1. Lock(t) \/ Work(t) \/ Return(t)
    BY <1>7 DEF InnerLock, InnerWork, DirectReturn
  <2>2. /\ Refused(t)' /\ (Lock(t) \/ Work(t) => req' = req /\ pc'[t] # "idle")
        /\ \A u \in Thread \ {t} :
              pc'[u] = pc[u] /\ req'[u] = req[u] /\ total'[u] = total[u] /\ err'[u] = err[u]
    BY <1>0, <2>1, RefusedStep, OthersStay
  <2>3. \A u \in Thread : Refused(u)'
    BY <1>0, <2>2 DEF Refused, Rejected, Capacity
  <2>4. UNCHANGED cursorVars /\ pc[t] # "idle"
    BY <1>7 DEF InnerLock, InnerWork, DirectReturn, Lock, Work, Return, Fill, Fetch, Store,
       Overwrite, Fail
  <2>5. phase[t] = "out" \/ Lock(t) \/ Work(t)
    BY <1>7 DEF InnerLock, InnerWork, DirectReturn
  <2>6. Cursor'
    BY <1>0, <2>4 DEF cursorVars, CursorTypeOK, CursorTilesDisk
  <2>7. ASSUME NEW u \in Thread PROVE Seated(u)'
    BY <1>0, <2>2, <2>4, <2>5 DEF cursorVars, Seated
  <2> QED
    BY <2>3, <2>6, <2>7
<1>8. ASSUME NEW t \in Thread, NEW r \in DirectCall, Direct(t, r)
      PROVE  Cursor' /\ \A u \in Thread : Refused(u)' /\ Seated(u)'
  <2>1. Call(t, r) /\ UNCHANGED cursorVars /\ phase[t] = "out"
    BY <1>8 DEF Direct, Outside
  <2>2. /\ \A u \in Thread \ {t} : pc'[u] = pc[u] /\ req'[u] = req[u]
        /\ \A u \in Thread : Refused(u)'
    BY <1>3, <2>1
  <2> QED
    BY <1>0, <2>1, <2>2 DEF cursorVars, CursorTypeOK, CursorTilesDisk, Seated
<1> QED
  BY <1>1, <1>2, <1>4, <1>5, <1>6, <1>7, <1>8 DEF CursorNext

(* The strengthened invariant holds in every state.                           *)
LEMMA AlwaysCursorInv == CursorSpec => []CursorInv
BY CursorInvInit, CursorInvStep, PTL DEF CursorSpec

-----------------------------------------------------------------------------
(* The types, and the offset is never negative and stays within its bound,    *)
(* whatever the goroutines seek, read and write.                              *)
THEOREM CursorTypes == CursorSpec => []CursorTypeOK
<1>1. CursorInv => CursorTypeOK
  BY DEF CursorInv
<1> QED
  BY <1>1, AlwaysCursorInv, PTL

(* Read and Write of all the goroutines together take every byte from the     *)
(* last Seek to the offset, and none twice.                                   *)
THEOREM Tiles == CursorSpec => []CursorTilesDisk
<1>1. CursorInv => CursorTilesDisk
  BY DEF CursorInv
<1> QED
  BY <1>1, AlwaysCursorInv, PTL

(* What goroutines do to a handle through a cursor and beside it, they could  *)
(* do with ReadAt and WriteAt alone: whatever the handle promises holds.      *)
THEOREM CursorUsesHandle == CursorSpec => Spec
<1>1. CursorInit => Init
  BY DEF CursorInit
<1> QED
  BY <1>1, AlwaysCursorInv, CursorIsHandle, PTL DEF CursorSpec, Spec

(* So a cursor and direct ReadAt and WriteAt calls beside it, which its mutex *)
(* does not order, are byte store calls, as long as no aligned write goes to  *)
(* a sector that a misaligned write rewrites.                                 *)
THEOREM CursorRefines == Tidy /\ CursorSpec => ImplementsByteStore
  BY CursorUsesHandle, Refinement, PTL
=============================================================================
