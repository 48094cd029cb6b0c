--------------------------- MODULE DiskReaderWriter ---------------------------
(***************************************************************************)
(* DiskReaderWriter (pkg/virtual_disks/gvddk.go): a cursor over a          *)
(* DiskConnectHandle.  Read, Write and Seek use the shared offset under a  *)
(* mutex of their own, held across the whole ReadAt or WriteAt, which may  *)
(* take the handle's mutex as well; ReadAt and WriteAt go straight to the  *)
(* handle.  The handle's state and steps are those of DiskHandle.          *)
(***************************************************************************)
EXTENDS DiskHandle

CONSTANTS
    CursorCall,    \* the Read, Write and Seek calls
    DirectCall,    \* the ReadAt and WriteAt calls
    MaxOffset      \* bound: a Seek further than this is not done

Whence == {"SeekStart", "SeekCurrent", "SeekEnd", "other"}

ASSUME CursorAssumption ==
    /\ MaxOffset \in Nat /\ MaxOffset >= Capacity
    /\ DirectCall \subseteq Request
    /\ CursorCall \subseteq [op : {"read", "write"}, len : Nat]
                       \cup [op : {"seek"}, offset : Int, whence : Whence]
    /\ \A c \in CursorCall : c.op # "seek" =>
          \A o \in 0 .. MaxOffset : [kind |-> c.op, off |-> o, len |-> c.len] \in Request

NoCall == [op |-> "none"]

VARIABLES
    offset,   \* DiskReaderWriter.offset
    rwMutex,  \* the goroutine that holds DiskReaderWriter.mutex
    phase,    \* each goroutine is outside, waits for rwMutex or has it
    call,     \* the cursor call of each goroutine
    start,    \* history: the offset after the last Seek
    seen      \* history: the bytes the cursor calls since then say they did

cursorVars == <<offset, rwMutex, phase, call, start, seen>>
allVars == <<vars, cursorVars>>

CursorInit ==
    /\ Init
    /\ offset = 0
    /\ rwMutex = NoThread
    /\ phase = [t \in Thread |-> "out"]
    /\ call = [t \in Thread |-> NoCall]
    /\ start = 0
    /\ seen = {}

Outside(t) == phase[t] = "out" /\ pc[t] = "idle"

\* A goroutine calls Read, Write or Seek and waits for the cursor's mutex.
Begin(t, c) ==
    /\ Outside(t)
    /\ phase' = [phase EXCEPT ![t] = "lock"]
    /\ call' = [call EXCEPT ![t] = c]
    /\ UNCHANGED <<vars, offset, rwMutex, start, seen>>

\* Mutated form of Enter: Read and Write do not wait for the mutex.
EnterUnlocked(t) ==
    /\ phase[t] = "lock"
    /\ call[t].op \in {"read", "write"}
    /\ rwMutex' = t
    /\ phase' = [phase EXCEPT ![t] = "in"]
    /\ Call(t, [kind |-> call[t].op, off |-> offset, len |-> call[t].len])
    /\ UNCHANGED <<offset, call, start, seen>>

\* Read or Write has the mutex and calls ReadAt or WriteAt at the offset.
Enter(t) ==
    /\ phase[t] = "lock"
    /\ call[t].op \in {"read", "write"}
    /\ rwMutex = NoThread
    /\ rwMutex' = t
    /\ phase' = [phase EXCEPT ![t] = "in"]
    /\ Call(t, [kind |-> call[t].op, off |-> offset, len |-> call[t].len])
    /\ UNCHANGED <<offset, call, start, seen>>

\* Mutated form of Leave: no Unlock when ReadAt or WriteAt returned an error.
LeaveLocked(t) ==
    /\ phase[t] = "in"
    /\ Return(t)
    /\ offset' = offset + Returned(t)
    /\ seen' = seen \cup (req[t].off .. req[t].off + Returned(t) - 1)
    /\ rwMutex' = IF err[t] = "nil" THEN NoThread ELSE rwMutex
    /\ phase' = [phase EXCEPT ![t] = "out"]
    /\ call' = [call EXCEPT ![t] = NoCall]
    /\ UNCHANGED start

\* ReadAt or WriteAt returned: advance by n, with or without an error, unlock.
Leave(t) ==
    /\ phase[t] = "in"
    /\ Return(t)
    /\ offset' = offset + Returned(t)
    /\ seen' = seen \cup (req[t].off .. req[t].off + Returned(t) - 1)
    /\ rwMutex' = NoThread
    /\ phase' = [phase EXCEPT ![t] = "out"]
    /\ call' = [call EXCEPT ![t] = NoCall]
    /\ UNCHANGED start

\* Where Seek wants to go; SeekEnd is an error, another whence stays here.
DesiredOffset(c) ==
    CASE c.whence = "SeekStart" -> c.offset
      [] c.whence = "SeekCurrent" -> offset + c.offset
      [] OTHER -> offset

SeekRefused(c) ==
    \/ c.whence = "SeekEnd"
    \/ DesiredOffset(c) < 0
    \/ DesiredOffset(c) > MaxOffset   \* bound

\* Mutated form of Seek: a negative offset is not refused.
SeekAnywhere(t) ==
    /\ phase[t] = "lock"
    /\ call[t].op = "seek"
    /\ rwMutex = NoThread
    /\ DesiredOffset(call[t]) <= MaxOffset
    /\ offset' = DesiredOffset(call[t])
    /\ start' = offset'
    /\ seen' = {}
    /\ phase' = [phase EXCEPT ![t] = "out"]
    /\ call' = [call EXCEPT ![t] = NoCall]
    /\ UNCHANGED <<vars, rwMutex>>

\* Seek, from taking the mutex to its deferred Unlock.
Seek(t) ==
    /\ phase[t] = "lock"
    /\ call[t].op = "seek"
    /\ rwMutex = NoThread
    /\ IF SeekRefused(call[t])
       THEN UNCHANGED <<offset, start, seen>>
       ELSE /\ offset' = DesiredOffset(call[t])
            /\ start' = offset'
            /\ seen' = {}
    /\ phase' = [phase EXCEPT ![t] = "out"]
    /\ call' = [call EXCEPT ![t] = NoCall]
    /\ UNCHANGED <<vars, rwMutex>>

\* The steps of ReadAt and WriteAt, and of a direct call to them.
InnerLock(t) == Lock(t) /\ UNCHANGED cursorVars
InnerWork(t) == Work(t) /\ UNCHANGED cursorVars
Direct(t, r) == Outside(t) /\ Call(t, r) /\ UNCHANGED cursorVars
DirectReturn(t) == phase[t] = "out" /\ Return(t) /\ UNCHANGED cursorVars

CursorNext ==
    \E t \in Thread :
        \/ \E c \in CursorCall : Begin(t, c)
        \/ Enter(t)
        \/ Leave(t)
        \/ Seek(t)
        \/ InnerLock(t)
        \/ InnerWork(t)
        \/ \E r \in DirectCall : Direct(t, r)
        \/ DirectReturn(t)

CursorSpec == CursorInit /\ [][CursorNext]_allVars

(* Both mutexes are Go's: a goroutine that waits gets its turn.            *)
CursorFairness ==
    \A t \in Thread :
        /\ SF_allVars(Enter(t)) /\ SF_allVars(Seek(t)) /\ SF_allVars(InnerLock(t))
        /\ WF_allVars(InnerWork(t)) /\ WF_allVars(Leave(t)) /\ WF_allVars(DirectReturn(t))

FairCursorSpec == CursorSpec /\ CursorFairness

-----------------------------------------------------------------------------
(* Types; the offset is never negative, as ReadAt and WriteAt require.     *)
CursorTypeOK ==
    /\ TypeOK
    /\ offset \in Nat
    /\ rwMutex \in Thread \cup {NoThread}
    /\ phase \in [Thread -> {"out", "lock", "in"}]
    /\ call \in [Thread -> CursorCall \cup {NoCall}]
    /\ start \in Nat
    /\ seen \subseteq Nat

(* "Lock to ensure that multiple-threads do not break offset or see the    *)
(* same data twice": since the last Seek the cursor calls of all the       *)
(* goroutines took the bytes from there to the offset, none left out; and  *)
(* as each call adds its own bytes to the offset, none twice.              *)
CursorTilesDisk == seen = start .. offset - 1

(* A call on the cursor returns, though it may have to take both mutexes   *)
(* and direct calls compete for the second one.                            *)
CursorCallsReturn == \A t \in Thread : phase[t] # "out" ~> phase[t] = "out"
=============================================================================
