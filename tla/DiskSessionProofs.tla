-------------------------- MODULE DiskSessionProofs --------------------------
(* Proofs about DiskSession, for every set of sessions, virtual machines,     *)
(* connections and handles, and any number of calls of Close: its invariants, *)
(* and that it implements DiskLease.                                          *)
EXTENDS DiskSession, FiniteSetTheorems, TLAPS

USE SessionAssumption, LibAssumption

-----------------------------------------------------------------------------
(* The inductive invariant.                                                   *)

Closing == {"close", "disconnect", "endAccess", "closed", "closeFailed"}

(* What a session has at each place.  Its connection and handle are values    *)
(* the library has given out, and as long as it has not begun to release them *)
(* they are live.                                                             *)
Held(s) ==
    /\ pc[s] \in {"prepare", "connect"} => myConn[s] = Nil
    /\ pc[s] \in {"prepare", "connect", "open"} => myDli[s] = Nil
    /\ myConn[s] # Nil => conn[myConn[s]] # "unused"
    /\ myDli[s] # Nil => handle[myDli[s]] # "unused"
    /\ pc[s] \in {"open", "info", "undoConnect", "ready"} =>
          myConn[s] # Nil /\ conn[myConn[s]] = "connected"
    /\ pc[s] \in {"info", "ready"} =>
          myDli[s] # Nil /\ handle[myDli[s]] = "open" /\ via[myDli[s]] = myConn[s]
    /\ pc[s] \in Closing => myConn[s] # Nil /\ myDli[s] # Nil
    /\ pc[s] \in {"disconnect", "endAccess", "closed"} => handle[myDli[s]] = "closed"
    /\ pc[s] \in {"endAccess", "closed"} => conn[myConn[s]] = "disconnected"

(* The first call of Close finds everything still there.                      *)
FirstClose(s) ==
    /\ pc[s] \in Closing <=> closes[s] > 0
    /\ pc[s] = "close" /\ closes[s] = 1 =>
          handle[myDli[s]] = "open" /\ conn[myConn[s]] = "connected"
    /\ pc[s] = "disconnect" /\ closes[s] = 1 => conn[myConn[s]] = "connected"

(* A registration is left behind only by the last call of an Open that fails. *)
Unrefused(s) ==
    /\ pc[s] = "prepare" => refused[s] = {}
    /\ pc[s] # "openFailed" => refused[s] \cap {"prepare", "undoAccess"} = {}

(* Two sessions have nothing in common.                                       *)
Apart(r, s) ==
    /\ myConn[r] = myConn[s] => myConn[s] = Nil
    /\ myDli[r] = myDli[s] => myDli[s] = Nil

SessionInv ==
    /\ TypeOK
    /\ \A s \in Session : Held(s) /\ FirstClose(s) /\ Unrefused(s)
    /\ \A s \in Session : \A r \in Session \ {s} : Apart(r, s)

(* A step of one session.                                                     *)
Step(s) ==
    \/ Prepare(s) \/ ConnectEx(s) \/ OpenDisk(s) \/ GetInfo(s)
    \/ UndoConnect(s) \/ UndoAccess(s)
    \/ CallClose(s) \/ CloseDisk(s) \/ CloseConnection(s) \/ CloseAccess(s)

(* A session's step is its own: the other ones stay where they are, with what *)
(* they have, and nothing they have is taken from them or given to them.      *)
LEMMA StepOfOne ==
    ASSUME SessionInv, NEW s \in Session, Step(s), NEW r \in Session \ {s}
    PROVE  /\ pc'[r] = pc[r] /\ myConn'[r] = myConn[r] /\ myDli'[r] = myDli[r]
           /\ closes'[r] = closes[r] /\ refused'[r] = refused[r]
           /\ myConn[r] # Nil => conn'[myConn[r]] = conn[myConn[r]]
           /\ myDli[r] # Nil =>
                 handle'[myDli[r]] = handle[myDli[r]] /\ via'[myDli[r]] = via[myDli[r]]
<1>1. TypeOK /\ Held(r) /\ Held(s) /\ Apart(r, s)
  BY DEF SessionInv
<1> USE DEF TypeOK, LibTypeOK, Moves, Refusing, Goto, libVars
<1>2. CASE Prepare(s) \/ GetInfo(s) \/ UndoAccess(s) \/ CallClose(s) \/ CloseAccess(s)
  BY <1>1, <1>2 DEF Prepare, GetInfo, UndoAccess, CallClose, CloseAccess,
                    PrepareForAccess, EndAccess
<1>3. CASE ConnectEx(s)   \* the new connection was unused, r's is not
  BY <1>1, <1>3 DEF ConnectEx, Connect, Held
<1>4. CASE OpenDisk(s)    \* the new handle was unused, r's is not
  BY <1>1, <1>4 DEF OpenDisk, Open, Held
<1>5. CASE UndoConnect(s) \/ CloseConnection(s)
  BY <1>1, <1>5 DEF UndoConnect, CloseConnection, Disconnect, Held, Apart
<1>6. CASE CloseDisk(s)
  BY <1>1, <1>6 DEF CloseDisk, Close, Held, Apart
<1> QED
  BY <1>2, <1>3, <1>4, <1>5, <1>6 DEF Step

(* What a step makes of the session that takes it.                            *)
LEMMA StepOfItself ==
    ASSUME SessionInv, NEW s \in Session, Step(s)
    PROVE  TypeOK' /\ Held(s)' /\ FirstClose(s)' /\ Unrefused(s)'
<1>1. TypeOK /\ Held(s) /\ FirstClose(s) /\ Unrefused(s)
  BY DEF SessionInv
<1>2. \A r \in Session \ {s} :
         /\ pc'[r] = pc[r] /\ myConn'[r] = myConn[r] /\ myDli'[r] = myDli[r]
  BY StepOfOne
<1> USE DEF TypeOK, LibTypeOK, Place, Moves, Refusing, Goto, libVars,
            Held, FirstClose, Unrefused, Closing
<1>3. CASE Prepare(s)
  BY <1>1, <1>2, <1>3 DEF Prepare, PrepareForAccess
<1>4. CASE ConnectEx(s)
  BY <1>1, <1>2, <1>4 DEF ConnectEx, Connect
<1>5. CASE OpenDisk(s)
  BY <1>1, <1>2, <1>5 DEF OpenDisk, Open
<1>6. CASE GetInfo(s)
  BY <1>1, <1>2, <1>6 DEF GetInfo
<1>7. CASE UndoConnect(s)
  BY <1>1, <1>2, <1>7 DEF UndoConnect, Disconnect
<1>8. CASE UndoAccess(s)
  BY <1>1, <1>2, <1>8 DEF UndoAccess, EndAccess
<1>9. CASE CallClose(s)
  BY <1>1, <1>2, <1>9 DEF CallClose
<1>10. CASE CloseDisk(s)
  BY <1>1, <1>2, <1>10 DEF CloseDisk, Close
<1>11. CASE CloseConnection(s)
  BY <1>1, <1>2, <1>11 DEF CloseConnection, Disconnect
<1>12. CASE CloseAccess(s)
  BY <1>1, <1>2, <1>12 DEF CloseAccess, EndAccess
<1> QED
  BY <1>3, <1>4, <1>5, <1>6, <1>7, <1>8, <1>9, <1>10, <1>11, <1>12 DEF Step

(* What a session gets from the library nobody had before.                    *)
LEMMA StepKeepsApart ==
    ASSUME SessionInv, NEW s \in Session, Step(s), NEW r \in Session \ {s}
    PROVE  Apart(r, s)' /\ Apart(s, r)'
<1>1. TypeOK /\ Held(r) /\ Apart(r, s) /\ Apart(s, r)
  BY DEF SessionInv
<1>2. myConn'[r] = myConn[r] /\ myDli'[r] = myDli[r]
  BY StepOfOne
<1> USE DEF TypeOK, Moves, Refusing, Goto, libVars, Apart
<1>3. CASE ConnectEx(s)
  BY <1>1, <1>2, <1>3 DEF ConnectEx, Connect, Held
<1>4. CASE OpenDisk(s)
  BY <1>1, <1>2, <1>4 DEF OpenDisk, Open, Held
<1>5. CASE ~ConnectEx(s) /\ ~OpenDisk(s)
  <2>1. myConn' = myConn /\ myDli' = myDli
    BY <1>5 DEF Step, Prepare, GetInfo, UndoConnect, UndoAccess, CallClose, CloseDisk,
                CloseConnection, CloseAccess
  <2> QED
    BY <1>1, <2>1
<1> QED
  BY <1>3, <1>4, <1>5

(* The session invariant holds at the beginning.                              *)
LEMMA SessionInvInit == Init => SessionInv
BY DEF Init, LibInit, SessionInv, TypeOK, LibTypeOK, Place, Held, FirstClose, Closing,
       Unrefused, Apart

(* The session invariant is kept by every step.                               *)
LEMMA SessionInvNext == SessionInv /\ [Next]_vars => SessionInv'
<1> SUFFICES ASSUME SessionInv, [Next]_vars PROVE SessionInv'
  OBVIOUS
<1>1. ASSUME NEW s \in Session, Step(s) PROVE SessionInv'
  <2>1. TypeOK' /\ Held(s)' /\ FirstClose(s)' /\ Unrefused(s)'
    BY <1>1, StepOfItself
  <2>2. ASSUME NEW r \in Session \ {s} PROVE Held(r)' /\ FirstClose(r)' /\ Unrefused(r)'
    <3>1. Held(r) /\ FirstClose(r) /\ Unrefused(r)
      BY DEF SessionInv
    <3> QED
      BY <1>1, <3>1, StepOfOne DEF Held, FirstClose, Unrefused, Closing
  <2>3. ASSUME NEW q \in Session, NEW r \in Session \ {q} PROVE Apart(r, q)'
    <3>1. CASE q = s \/ r = s
      BY <1>1, <3>1, StepKeepsApart
    <3>2. CASE q # s /\ r # s
      <4>1. Apart(r, q)
        BY DEF SessionInv
      <4> QED
        BY <1>1, <3>2, <4>1, StepOfOne DEF Apart
    <3> QED
      BY <3>1, <3>2
  <2> QED
    BY <2>1, <2>2, <2>3 DEF SessionInv
<1>2. CASE UNCHANGED vars
  BY <1>2 DEF vars, libVars, sessionVars, SessionInv, TypeOK, LibTypeOK, Held, FirstClose,
              Unrefused, Apart
<1> QED
  BY <1>1, <1>2 DEF Next, Step

(* The session invariant holds in every state.                                *)
LEMMA AlwaysSessionInv == Spec => []SessionInv
  BY SessionInvInit, SessionInvNext, PTL DEF Spec

(* Types, and that Open and Close never use or release a Nil.                 *)
THEOREM TypeCorrect == Spec => []TypeOK
<1>1. SessionInv => TypeOK
  BY DEF SessionInv
<1> QED
  BY <1>1, AlwaysSessionInv, PTL

-----------------------------------------------------------------------------
(* What is released.                                                          *)

(* When Close has returned nil the handle is closed and the connection        *)
(* disconnected, at the first call or at a later one.                         *)
THEOREM ClosedReleases == Spec => []ClosedMeansReleased
<1>1. SessionInv => ClosedMeansReleased
  BY DEF SessionInv, Held, ClosedMeansReleased
<1> QED
  BY <1>1, AlwaysSessionInv, PTL

(* A connection that is connected is still the session's that made it, and    *)
(* that session is yet to disconnect it, or was refused to.                   *)
LEMMA AccountedNext ==
    SessionInv /\ ConnectionsAccounted /\ [Next]_vars => ConnectionsAccounted'
<1> DEFINE Keeps(s) ==
        pc[s] \in {"open", "info", "undoConnect", "ready", "close", "disconnect", "closeFailed"}
        \/ "undoConnect" \in refused[s]
<1> SUFFICES ASSUME SessionInv, ConnectionsAccounted, [Next]_vars,
                    NEW c \in Connection, conn'[c] = "connected"
             PROVE  \E s \in Session : myConn'[s] = c /\ Keeps(s)'
  BY DEF ConnectionsAccounted
<1>1. ASSUME NEW s \in Session, Step(s) PROVE \E q \in Session : myConn'[q] = c /\ Keeps(q)'
  <2> USE DEF SessionInv, TypeOK, LibTypeOK, Moves, Refusing, Goto, libVars
  <2>1. CASE conn[c] # "connected"
    <3>1. myConn'[s] = c /\ pc'[s] = "open"
      BY <1>1, <2>1 DEF Step, Prepare, ConnectEx, OpenDisk, GetInfo, UndoConnect, UndoAccess,
                        CallClose, CloseDisk, CloseConnection, CloseAccess, PrepareForAccess,
                        EndAccess, Connect, Open, Close, Disconnect
    <3> QED
      BY <3>1
  <2>2. CASE conn[c] = "connected"
    <3>1. PICK q \in Session : myConn[q] = c /\ Keeps(q)
      BY <2>2 DEF ConnectionsAccounted
    <3>2. CASE q # s
      BY <1>1, <3>1, <3>2, StepOfOne
    <3>3. CASE q = s
      <4>1. myConn'[s] = c /\ Keeps(s)'
        BY <1>1, <3>1, <3>3, LibAssumption
           DEF Step, Prepare, ConnectEx, OpenDisk, GetInfo, UndoConnect, UndoAccess,
               CallClose, CloseDisk, CloseConnection, CloseAccess, Disconnect, Held
      <4> QED
        BY <4>1
    <3> QED
      BY <3>2, <3>3
  <2> QED
    BY <2>1, <2>2
<1>2. CASE UNCHANGED vars
  BY <1>2 DEF vars, libVars, sessionVars, ConnectionsAccounted
<1> QED
  BY <1>1, <1>2 DEF Next, Step

(* No connection is lost.                                                     *)
THEOREM Accounted == Spec => []ConnectionsAccounted
<1>1. Init => ConnectionsAccounted
  BY DEF Init, LibInit, ConnectionsAccounted
<1> QED
  BY <1>1, AccountedNext, AlwaysSessionInv, PTL DEF Spec

(* A step releases something again only when Close was called again.          *)
LEMMA TwiceNext ==
    SessionInv /\ TwiceOnlyWhenClosedAgain /\ [Next]_vars => TwiceOnlyWhenClosedAgain'
<1> SUFFICES ASSUME SessionInv, TwiceOnlyWhenClosedAgain, [Next]_vars, NEW x \in twice'
             PROVE  \E s \in Session : x \in {myConn'[s], myDli'[s]} /\ closes'[s] > 1
  BY DEF TwiceOnlyWhenClosedAgain
<1>1. ASSUME NEW s \in Session, Step(s)
      PROVE  \E q \in Session : x \in {myConn'[q], myDli'[q]} /\ closes'[q] > 1
  <2> USE DEF SessionInv, TypeOK, LibTypeOK, Moves, Refusing, Goto, libVars
  <2>1. CASE x \notin twice
    <3>1. x \in {myConn'[s], myDli'[s]} /\ closes'[s] > 1
      BY <1>1, <2>1 DEF Step, Prepare, ConnectEx, OpenDisk, GetInfo, UndoConnect, UndoAccess,
                        CallClose, CloseDisk, CloseConnection, CloseAccess, PrepareForAccess,
                        EndAccess, Connect, Open, Close, Disconnect, Held, FirstClose, Closing
    <3> QED
      BY <3>1
  <2>2. CASE x \in twice
    <3>1. PICK q \in Session : x \in {myConn[q], myDli[q]} /\ closes[q] > 1
      BY <2>2 DEF TwiceOnlyWhenClosedAgain
    <3>2. CASE q # s
      BY <1>1, <3>1, <3>2, StepOfOne
    <3>3. CASE q = s   \* as s is closing, its connection and handle are settled
      <4>1. x \in {myConn'[s], myDli'[s]} /\ closes'[s] > 1
        BY <1>1, <3>1, <3>3 DEF Step, Prepare, ConnectEx, OpenDisk, GetInfo, UndoConnect,
               UndoAccess, CallClose, CloseDisk, CloseConnection, CloseAccess,
               FirstClose, Closing
      <4> QED
        BY <4>1
    <3> QED
      BY <3>2, <3>3
  <2> QED
    BY <2>1, <2>2
<1>2. CASE UNCHANGED vars
  BY <1>2 DEF vars, libVars, sessionVars, TwiceOnlyWhenClosedAgain
<1> QED
  BY <1>1, <1>2 DEF Next, Step

(* Only a Close that is called again after it failed releases anything twice. *)
THEOREM TwiceWhenClosedAgain == Spec => []TwiceOnlyWhenClosedAgain
<1>1. Init => TwiceOnlyWhenClosedAgain
  BY DEF Init, LibInit, TwiceOnlyWhenClosedAgain
<1> QED
  BY <1>1, TwiceNext, AlwaysSessionInv, PTL DEF Spec

-----------------------------------------------------------------------------
(* Registrations.                                                             *)

Started == {s \in Session : pc[s] # "prepare"}
Holders(a) == {s \in Session : KeyOf[s] = a /\ Holds(s)}
Leakers(a) == {s \in Session : KeyOf[s] = a /\ Leaks(s)}

(* Sessions may be without number, but at any time only finitely many have    *)
(* started.                                                                   *)
MatchInv == IsFiniteSet(Started) /\ AccessMatched

(* AccessMatched, in the words of this module.                                *)
LEMMA MatchedMeans ==
    AccessMatched <=>
        \A a \in Access : access[a] = Cardinality(Holders(a)) + Cardinality(Leakers(a))
BY DEF AccessMatched, Holders, Leakers

(* What is counted is finite as long as finitely many sessions started.       *)
LEMMA FiniteHolders ==
    ASSUME IsFiniteSet(Started), NEW a
    PROVE  /\ IsFiniteSet(Holders(a)) /\ IsFiniteSet(Leakers(a))
           /\ Cardinality(Holders(a)) \in Nat /\ Cardinality(Leakers(a)) \in Nat
<1>1. Holders(a) \subseteq Started /\ Leakers(a) \subseteq Started
  BY DEF Holders, Leakers, Leaks, Started, Holds
<1> QED
  BY <1>1, FS_Subset, FS_CardinalityType

(* A session that holds a registration is counted.                            *)
LEMMA HolderCounts ==
    ASSUME SessionInv, MatchInv, NEW s \in Session, Holds(s)
    PROVE  access[KeyOf[s]] > 0
<1>1. s \in Holders(KeyOf[s])
  BY DEF Holders
<1>2. Cardinality(Holders(KeyOf[s])) > 0
  BY <1>1, FiniteHolders, FS_EmptySet DEF MatchInv
<1>3. access[KeyOf[s]] = Cardinality(Holders(KeyOf[s])) + Cardinality(Leakers(KeyOf[s]))
  BY MatchedMeans DEF MatchInv
<1> QED
  BY <1>2, <1>3, FiniteHolders DEF MatchInv

(* How a step of s changes who holds and who leaks: only as to s, and only    *)
(* for its own virtual machine.                                               *)
LEMMA HoldersChange ==
    ASSUME SessionInv, NEW s \in Session, Step(s), NEW a \in Access
    PROVE  /\ Holders(a)' = IF KeyOf[s] = a /\ Holds(s)'
                            THEN Holders(a) \cup {s} ELSE Holders(a) \ {s}
           /\ Leakers(a)' = IF KeyOf[s] = a /\ Leaks(s)'
                            THEN Leakers(a) \cup {s} ELSE Leakers(a) \ {s}
<1>1. \A r \in Session \ {s} : pc'[r] = pc[r] /\ refused'[r] = refused[r]
  BY StepOfOne
<1> QED
  BY <1>1 DEF Holders, Leakers, Holds, Leaks

(* A step makes as many registrations as it makes holders and leaks.          *)
LEMMA MatchNext == SessionInv /\ MatchInv /\ [Next]_vars => MatchInv'
<1> SUFFICES ASSUME SessionInv, MatchInv, [Next]_vars PROVE MatchInv'
  OBVIOUS
<1>1. ASSUME NEW s \in Session, Step(s) PROVE MatchInv'
  <2> DEFINE k == KeyOf[s]
  <2>1. IsFiniteSet(Started')
    <3>1. Started' \subseteq Started \cup {s}
      BY <1>1, StepOfOne DEF Started
    <3> QED
      BY <3>1, FS_AddElement, FS_Subset DEF MatchInv
  <2>2. \A a \in Access : access[a] = Cardinality(Holders(a)) + Cardinality(Leakers(a))
    BY MatchedMeans DEF MatchInv
  <2>3. /\ k \in Access /\ access \in [Access -> Nat]
        /\ IsFiniteSet(Started) /\ Unrefused(s)
        /\ ~(Holds(s) /\ Leaks(s))
    BY DEF SessionInv, MatchInv, TypeOK, LibTypeOK, Holds, Leaks
  <2>4. s \in Holders(k) <=> Holds(s)
    BY DEF Holders
  <2>5. s \in Leakers(k) <=> Leaks(s)
    BY DEF Leakers
  <2>6. \A a \in Access \ {k} : Holders(a)' = Holders(a) /\ Leakers(a)' = Leakers(a)
    BY <1>1, HoldersChange DEF Holders, Leakers
  <2>7. \A a \in Access \ {k} : access'[a] = access[a]
    BY <1>1, <2>3 DEF Step, Prepare, ConnectEx, OpenDisk, GetInfo, UndoConnect, UndoAccess,
                      CallClose, CloseDisk, CloseConnection, CloseAccess, PrepareForAccess,
                      EndAccess, Connect, Open, Close, Disconnect, Moves, Refusing, libVars
  <2>8. access'[k] = Cardinality(Holders(k)') + Cardinality(Leakers(k)')
    <3> DEFINE n == Cardinality(Holders(k))
               m == Cardinality(Leakers(k))
    <3>1. n \in Nat /\ m \in Nat /\ access[k] = n + m
      BY <2>2, <2>3, FiniteHolders
    <3>2. CASE ~Holds(s) /\ Holds(s)' /\ ~Leaks(s) /\ ~Leaks(s)' /\ access'[k] = access[k] + 1
      <4>1. Holders(k)' = Holders(k) \cup {s} /\ s \notin Holders(k) /\ Leakers(k)' = Leakers(k)
        BY <1>1, <2>3, <2>4, <2>5, <3>2, HoldersChange
      <4>2. Cardinality(Holders(k)') = n + 1
        BY <2>3, <4>1, FiniteHolders, FS_AddElement
      <4> QED
        BY <3>1, <3>2, <4>1, <4>2
    <3>2a. CASE ~Holds(s) /\ ~Holds(s)' /\ ~Leaks(s) /\ Leaks(s)' /\ access'[k] = access[k] + 1
      <4>1. Leakers(k)' = Leakers(k) \cup {s} /\ s \notin Leakers(k) /\ Holders(k)' = Holders(k)
        BY <1>1, <2>3, <2>4, <2>5, <3>2a, HoldersChange
      <4>2. Cardinality(Leakers(k)') = m + 1
        BY <2>3, <4>1, FiniteHolders, FS_AddElement
      <4> QED
        BY <3>1, <3>2a, <4>1, <4>2
    <3>3. CASE Holds(s) /\ ~Holds(s)' /\ ~Leaks(s)' /\ access'[k] = access[k] - 1
      <4>1. Holders(k)' = Holders(k) \ {s} /\ s \in Holders(k) /\ Leakers(k)' = Leakers(k)
        BY <1>1, <2>3, <2>4, <2>5, <3>3, HoldersChange
      <4>2. Cardinality(Holders(k)') = n - 1
        BY <2>3, <4>1, FiniteHolders, FS_RemoveElement
      <4> QED
        BY <3>1, <3>3, <4>1, <4>2
    <3>4. CASE Holds(s) /\ ~Holds(s)' /\ Leaks(s)' /\ access'[k] = access[k]
      <4>1. Holders(k)' = Holders(k) \ {s} /\ s \in Holders(k)
        BY <1>1, <2>3, <2>4, <3>4, HoldersChange
      <4>2. Leakers(k)' = Leakers(k) \cup {s} /\ s \notin Leakers(k)
        BY <1>1, <2>3, <2>5, <3>4, HoldersChange
      <4>3. Cardinality(Holders(k)') = n - 1
        BY <2>3, <4>1, FiniteHolders, FS_RemoveElement
      <4>4. Cardinality(Leakers(k)') = m + 1
        BY <2>3, <4>2, FiniteHolders, FS_AddElement
      <4> QED
        BY <3>1, <3>4, <4>3, <4>4
    <3>5. CASE Holds(s)' = Holds(s) /\ ~Leaks(s) /\ ~Leaks(s)' /\ access' = access
      <4>1. Holders(k)' = Holders(k) /\ Leakers(k)' = Leakers(k)
        BY <1>1, <2>3, <2>4, <2>5, <3>5, HoldersChange
      <4> QED
        BY <3>1, <3>5, <4>1
    <3> USE DEF Moves, Refusing, Goto, libVars
    <3>6. SessionInv /\ TypeOK /\ FirstClose(s)
      BY DEF SessionInv
    <3>7. CASE Prepare(s)
      BY <2>3, <3>2, <3>2a, <3>5, <3>6, <3>7 DEF Prepare, PrepareForAccess, Holds, Leaks, TypeOK,
                                          Unrefused
    <3>8. CASE UndoAccess(s)
      <4>1. Holds(s) /\ access[k] > 0 /\ ~Holds(s)' /\ refused[s] \cap {"prepare", "undoAccess"} = {}
        BY <2>3, <3>6, <3>8, HolderCounts DEF UndoAccess, Holds, TypeOK, Unrefused
      <4>2. CASE EndAccess(k) /\ refused' = refused
        BY <2>3, <3>3, <4>1, <4>2 DEF EndAccess, Leaks
      <4>3. CASE Refusing(s, "undoAccess", "openFailed")
        BY <2>3, <3>4, <3>6, <4>1, <4>3 DEF Leaks, TypeOK
      <4> QED
        BY <3>8, <4>2, <4>3 DEF UndoAccess
    <3>9. CASE CloseAccess(s)
      <4>1. Holds(s) /\ access[k] > 0
        BY <3>9, HolderCounts DEF CloseAccess, Holds
      <4> QED
        BY <2>3, <3>3, <3>5, <3>6, <3>9, <4>1 DEF CloseAccess, EndAccess, Holds, Leaks, TypeOK
    <3>10. CASE ~Prepare(s) /\ ~UndoAccess(s) /\ ~CloseAccess(s)
      BY <1>1, <2>3, <3>5, <3>6, <3>10 DEF Step, ConnectEx, OpenDisk, GetInfo, UndoConnect,
            CallClose, CloseDisk, CloseConnection, Connect, Open, Close, Disconnect,
            Holds, Leaks, TypeOK
    <3> QED
      BY <3>7, <3>8, <3>9, <3>10
  <2>9. ASSUME NEW a \in Access
        PROVE  access'[a] = Cardinality(Holders(a)') + Cardinality(Leakers(a)')
    BY <2>2, <2>6, <2>7, <2>8
  <2> QED
    BY <2>1, <2>9 DEF MatchInv, AccessMatched, Holders, Leakers, Leaks
<1>2. CASE UNCHANGED vars
  BY <1>2 DEF vars, libVars, sessionVars, MatchInv, AccessMatched, Started, Holds, Leaks
<1> QED
  BY <1>1, <1>2 DEF Next, Step

(* The matching of preparations holds in every state.                         *)
LEMMA AlwaysMatchInv == Spec => []MatchInv
<1>1. Init => MatchInv
  <2> SUFFICES ASSUME Init PROVE MatchInv
    OBVIOUS
  <2>1. Started = {} /\ \A a \in Access : Holders(a) = {} /\ Leakers(a) = {}
    BY DEF Init, Started, Holders, Leakers, Holds, Leaks
  <2>2. \A a \in Access : access[a] = 0
    BY DEF Init, LibInit
  <2> QED
    BY <2>1, <2>2, FS_EmptySet, MatchedMeans DEF MatchInv
<1> QED
  BY <1>1, MatchNext, AlwaysSessionInv, PTL DEF Spec

(* The registrations of a virtual machine are those of the sessions that need *)
(* one, and of the Opens that failed and left theirs behind.                  *)
THEOREM Matched == Spec => []AccessMatched
<1>1. MatchInv => AccessMatched
  BY DEF MatchInv
<1> QED
  BY <1>1, AlwaysMatchInv, PTL

(* A disk that Open has returned works: handle open over its live connection, *)
(* virtual machine registered, and no other session has a part in it.         *)
THEOREM ReadyWorks == Spec => []ReadyDiskWorks
<1>1. SessionInv /\ MatchInv => ReadyDiskWorks
  <2> SUFFICES ASSUME SessionInv, MatchInv, NEW s \in Session, pc[s] = "ready"
               PROVE  /\ handle[myDli[s]] = "open" /\ via[myDli[s]] = myConn[s]
                      /\ conn[myConn[s]] = "connected"
                      /\ access[KeyOf[s]] > 0
                      /\ \A r \in Session \ {s} : myDli[r] # myDli[s] /\ myConn[r] # myConn[s]
    BY DEF ReadyDiskWorks
  <2>1. Held(s) /\ \A r \in Session \ {s} : Apart(r, s)
    BY DEF SessionInv
  <2>2. access[KeyOf[s]] > 0
    BY HolderCounts DEF Holds
  <2> QED
    BY <2>1, <2>2 DEF Held, Apart
<1> QED
  BY <1>1, AlwaysSessionInv, AlwaysMatchInv, PTL

-----------------------------------------------------------------------------
(* The refinement of DiskLease.                                               *)

(* What the lease shows of a session depends on these.                        *)
SameView(s) ==
    /\ pc'[s] = pc[s] /\ refused'[s] = refused[s]
    /\ Connected(s)' = Connected(s) /\ Opened(s)' = Opened(s)

(* A step of one session is not seen by another one.                          *)
LEMMA ViewOfOthers ==
    ASSUME SessionInv, NEW s \in Session, Step(s), NEW r \in Session \ {s}
    PROVE  SameView(r)
BY StepOfOne DEF SameView, Connected, Opened

(* A session that sees no change has its lease unchanged.                     *)
LEMMA SameLease ==
    ASSUME NEW s \in Session, SameView(s)
    PROVE  LeasePhase'[s] = LeasePhase[s] /\ LeaseDepth'[s] = LeaseDepth[s]
           /\ LeaseLost'[s] = LeaseLost[s]
<1>1. Holds(s)' = Holds(s) /\ Failing(s)' = Failing(s)
  BY DEF SameView, Holds, Failing
<1>2. LeasePhase'[s] = LeasePhase[s]
  BY <1>1 DEF LeasePhase, SameView
<1>3. LeaseDepth'[s] = LeaseDepth[s]
  BY <1>1 DEF LeaseDepth, SameView
<1>4. LeaseLost'[s] = LeaseLost[s]
  BY <1>1 DEF LeaseLost, Leaks, SameView
<1> QED
  BY <1>2, <1>3, <1>4

(* A function that changes at one argument only.                              *)
LEMMA ChangesAt ==
    ASSUME NEW S, NEW f, NEW g, NEW s \in S,
           f = [x \in S |-> f[x]], g = [x \in S |-> g[x]],
           \A x \in S \ {s} : g[x] = f[x]
    PROVE  g = [f EXCEPT ![s] = g[s]]
OBVIOUS

(* The lease variables are functions on the sessions.                         *)
LEMMA LeaseFunctions ==
    /\ LeasePhase = [s \in Session |-> LeasePhase[s]]
    /\ LeaseDepth = [s \in Session |-> LeaseDepth[s]]
    /\ LeaseLost = [s \in Session |-> LeaseLost[s]]
BY DEF LeasePhase, LeaseDepth, LeaseLost

(* So a step of s changes the lease at s only.                                *)
LEMMA LeaseOfOne ==
    ASSUME SessionInv, NEW s \in Session, Step(s)
    PROVE  /\ LeasePhase' = [LeasePhase EXCEPT ![s] = LeasePhase'[s]]
           /\ LeaseDepth' = [LeaseDepth EXCEPT ![s] = LeaseDepth'[s]]
           /\ LeaseLost' = [LeaseLost EXCEPT ![s] = LeaseLost'[s]]
<1>1. \A r \in Session \ {s} :
         LeasePhase'[r] = LeasePhase[r] /\ LeaseDepth'[r] = LeaseDepth[r]
         /\ LeaseLost'[r] = LeaseLost[r]
  BY ViewOfOthers, SameLease
<1>2. /\ LeasePhase' = [r \in Session |-> LeasePhase'[r]]
      /\ LeaseDepth' = [r \in Session |-> LeaseDepth'[r]]
      /\ LeaseLost' = [r \in Session |-> LeaseLost'[r]]
  BY DEF LeasePhase, LeaseDepth, LeaseLost
<1> QED
  BY <1>1, <1>2, LeaseFunctions, ChangesAt

(* The lease of a session at each place.                                      *)
AtPlace(s) ==
    /\ LeasePhase[s] = CASE pc[s] \in {"prepare", "connect", "open", "info"} -> "opening"
                         [] pc[s] \in {"undoConnect", "undoAccess", "openFailed"} -> "failing"
                         [] pc[s] = "ready" -> "ready"
                         [] OTHER -> "closing"
    /\ pc[s] \in {"prepare", "openFailed", "closed"} => LeaseDepth[s] = 0
    /\ pc[s] \in {"connect", "undoAccess", "endAccess"} => LeaseDepth[s] = 1
    /\ pc[s] \in {"open", "undoConnect"} => LeaseDepth[s] = 2
    /\ pc[s] \in {"info", "ready"} => LeaseDepth[s] = 3
    /\ pc[s] = "disconnect" => LeaseDepth[s] = 1 + (IF Connected(s) THEN 1 ELSE 0)
    /\ pc[s] \in {"close", "closeFailed"} =>
          LeaseDepth[s] = 1 + (IF Connected(s) THEN 1 ELSE 0) + (IF Opened(s) THEN 1 ELSE 0)
    /\ ~Failing(s) => LeaseLost[s] = {}
    /\ Failing(s) => LeaseLost[s] =
          (IF Opened(s) THEN {"handle"} ELSE {})
          \cup (IF Connected(s) /\ pc[s] # "undoConnect" THEN {"connection"} ELSE {})
          \cup (IF Leaks(s) THEN {"access"} ELSE {})

(* Where a session is tells the phase and depth of its lease.                 *)
LEMMA Places == SessionInv => \A s \in Session : AtPlace(s)
<1> SUFFICES ASSUME SessionInv, NEW s \in Session PROVE AtPlace(s)
  OBVIOUS
<1>1. TypeOK /\ Held(s)
  BY DEF SessionInv
<1>2. LeasePhase[s] = CASE pc[s] \in {"prepare", "connect", "open", "info"} -> "opening"
                         [] pc[s] \in {"undoConnect", "undoAccess", "openFailed"} -> "failing"
                         [] pc[s] = "ready" -> "ready"
                         [] OTHER -> "closing"
  BY DEF LeasePhase, Failing
<1>3. LeaseDepth[s] =
        IF ~Holds(s) THEN 0
        ELSE IF Failing(s) THEN IF pc[s] = "undoConnect" THEN 2 ELSE 1
        ELSE 1 + (IF Connected(s) THEN 1 ELSE 0) + (IF Opened(s) THEN 1 ELSE 0)
  BY DEF LeaseDepth
<1>4. LeaseLost[s] = {r \in {"access", "connection", "handle"} :
            /\ Failing(s)
            /\ r = "handle" => Opened(s)
            /\ r = "connection" => Connected(s) /\ pc[s] # "undoConnect"
            /\ r = "access" => Leaks(s)}
  BY DEF LeaseLost
<1>5. /\ pc[s] \in {"connect"} => ~Connected(s) /\ ~Opened(s)
      /\ pc[s] \in {"open"} => Connected(s) /\ ~Opened(s)
      /\ pc[s] \in {"info", "ready"} => Connected(s) /\ Opened(s)
      /\ pc[s] = "endAccess" => ~Connected(s) /\ ~Opened(s)
      /\ pc[s] = "disconnect" => ~Opened(s)
  BY <1>1 DEF Held, Connected, Opened
<1>6. /\ pc[s] \in {"prepare", "openFailed", "closed"} => LeaseDepth[s] = 0
      /\ pc[s] \in {"connect", "undoAccess", "endAccess"} => LeaseDepth[s] = 1
      /\ pc[s] \in {"open", "undoConnect"} => LeaseDepth[s] = 2
      /\ pc[s] \in {"info", "ready"} => LeaseDepth[s] = 3
      /\ pc[s] = "disconnect" => LeaseDepth[s] = 1 + (IF Connected(s) THEN 1 ELSE 0)
      /\ pc[s] \in {"close", "closeFailed"} =>
          LeaseDepth[s] = 1 + (IF Connected(s) THEN 1 ELSE 0) + (IF Opened(s) THEN 1 ELSE 0)
  BY <1>3, <1>5 DEF Holds, Failing
<1>7. /\ ~Failing(s) => LeaseLost[s] = {}
      /\ Failing(s) => LeaseLost[s] =
          (IF Opened(s) THEN {"handle"} ELSE {})
          \cup (IF Connected(s) /\ pc[s] # "undoConnect" THEN {"connection"} ELSE {})
          \cup (IF Leaks(s) THEN {"access"} ELSE {})
  BY <1>4
<1> QED
  BY <1>2, <1>6, <1>7 DEF AtPlace

(* Depths of the lease are numbers.                                           *)
LEMMA DepthType ==
    ASSUME SessionInv, NEW s \in Session
    PROVE  LeaseDepth[s] \in 0 .. 3
<1>1. AtPlace(s) /\ pc[s] \in Place
  BY Places DEF SessionInv, TypeOK
<1> QED
  BY <1>1 DEF AtPlace, Place

(* A step that changes the lease's depth at s by one.                         *)
LEMMA GoesAt ==
    ASSUME SessionInv, NEW s \in Session, Step(s), NEW by \in {-1, 1},
           LeaseDepth'[s] = LeaseDepth[s] + by,
           access' = IF {LeaseDepth[s], LeaseDepth[s] + by} = {0, 1}
                     THEN [access EXCEPT ![KeyOf[s]] = @ + by] ELSE access
    PROVE  Lease!Goes(s, by)
BY LeaseOfOne DEF Lease!Goes

(* A step that leaves all of the lease as it is.                              *)
LEMMA LeaseStays ==
    ASSUME SessionInv, NEW s \in Session, Step(s), access' = access,
           LeasePhase'[s] = LeasePhase[s], LeaseDepth'[s] = LeaseDepth[s],
           LeaseLost'[s] = LeaseLost[s]
    PROVE  UNCHANGED <<LeasePhase, LeaseDepth, LeaseLost, access>>
BY LeaseOfOne, LeaseFunctions

(* Parts of the lease that a step does not change at s it does not change.    *)
LEMMA PartStays ==
    ASSUME SessionInv, NEW s \in Session, Step(s)
    PROVE  /\ LeasePhase'[s] = LeasePhase[s] => LeasePhase' = LeasePhase
           /\ LeaseDepth'[s] = LeaseDepth[s] => LeaseDepth' = LeaseDepth
           /\ LeaseLost'[s] = LeaseLost[s] => LeaseLost' = LeaseLost
BY LeaseOfOne, LeaseFunctions

(* Each step of a session is a step of its lease, or changes nothing there.   *)
LeaseStep(s) ==
    \/ Lease!Acquire(s) \/ Lease!BeReady(s) \/ Lease!GiveUp(s)
    \/ Lease!StartClosing(s) \/ Lease!Release(s) \/ Lease!Lose(s)
    \/ UNCHANGED <<LeasePhase, LeaseDepth, LeaseLost, access>>

(* The same after a step.                                                     *)
LEMMA PlacesNext == SessionInv' => \A s \in Session : AtPlace(s)'
<1>1. SessionInv' => (\A s \in Session : AtPlace(s))'
  BY Places, PTL
<1> QED
  BY <1>1

(* Every step of a session is a step of its lease or none.                    *)
LEMMA StepRefines ==
    ASSUME SessionInv, SessionInv', MatchInv, NEW s \in Session, Step(s)
    PROVE  LeaseStep(s)
<1>1. Held(s) /\ Unrefused(s) /\ AtPlace(s) /\ Held(s)' /\ AtPlace(s)'
  BY Places, PlacesNext DEF SessionInv
<1>2. /\ pc \in [Session -> Place] /\ myConn \in [Session -> Connection \cup {Nil}]
      /\ myDli \in [Session -> Handle \cup {Nil}] /\ refused \in [Session -> SUBSET Place]
      /\ conn \in [Connection -> {"unused", "connected", "disconnected"}]
      /\ handle \in [Handle -> {"unused", "open", "closed"}]
      /\ access \in [Access -> Nat]
  BY DEF SessionInv, TypeOK, LibTypeOK
<1>3. KeyOf[s] \in Access
  OBVIOUS
<1>4. LeaseDepth[s] \in 0 .. 3
  BY DepthType
<1> USE DEF Moves, Refusing, Goto, libVars
<1>p. CASE Prepare(s)
  <2>1. LeasePhase[s] = "opening" /\ LeaseDepth[s] = 0 /\ LeaseLost[s] = {}
    BY <1>1, <1>p DEF Prepare, AtPlace, Failing
  <2>2. CASE pc'[s] = "connect"
    <3>1. LeasePhase'[s] = "opening" /\ LeaseDepth'[s] = 1 /\ LeaseLost'[s] = {}
      BY <1>1, <2>2 DEF AtPlace, Failing
    <3>2. access' = [access EXCEPT ![KeyOf[s]] = @ + 1]
      BY <1>2, <1>p, <2>2 DEF Prepare, PrepareForAccess
    <3>3. {LeaseDepth[s], LeaseDepth[s] + 1} = {0, 1} /\ LeaseDepth'[s] = LeaseDepth[s] + 1
      BY <2>1, <3>1
    <3>4. Lease!Goes(s, 1)
      BY <3>2, <3>3, <1>p, GoesAt DEF Step
    <3> QED
      BY <2>1, <3>1, <3>4, <1>p, PartStays DEF Step, LeaseStep, Lease!Acquire
  <2>3. CASE pc'[s] = "openFailed"
    <3>1. Connected(s)' = FALSE /\ Opened(s)' = FALSE
      BY <1>1, <1>2, <1>p, <2>3 DEF Prepare, PrepareForAccess, Held, Connected, Opened
    <3>2. LeasePhase'[s] = "failing" /\ LeaseDepth'[s] = 0
      BY <1>1, <2>3 DEF AtPlace
    <3>3. LeasePhase' = [LeasePhase EXCEPT ![s] = "failing"] /\ UNCHANGED LeaseDepth
      BY <2>1, <3>2, <1>p, PartStays, LeaseOfOne DEF Step
    <3>4. CASE access' = access /\ refused' = refused
      <4>1. ~Leaks(s)'
        BY <1>1, <1>p, <3>4 DEF Prepare, Unrefused, Leaks
      <4>2. LeaseLost'[s] = {}
        BY <1>1, <2>3, <3>1, <4>1 DEF AtPlace, Failing
      <4> QED
        BY <2>1, <3>3, <3>4, <4>2, <1>p, PartStays DEF Step, LeaseStep, Lease!GiveUp
    <3>5. CASE /\ access' = [access EXCEPT ![KeyOf[s]] = @ + 1]
               /\ refused' = [refused EXCEPT ![s] = {"prepare"}]   \* it is registered
      <4>1. Leaks(s)'
        BY <1>2, <2>3, <3>5 DEF Leaks
      <4>2. LeaseLost'[s] = {"access"}
        BY <1>1, <2>3, <3>1, <4>1 DEF AtPlace, Failing
      <4>3. LeaseLost' = [LeaseLost EXCEPT ![s] = {"access"}]
        BY <4>2, <1>p, LeaseOfOne DEF Step
      <4> QED
        BY <2>1, <3>3, <3>5, <4>3 DEF LeaseStep, Lease!GiveUp
    <3> QED
      BY <1>2, <1>p, <2>3, <3>4, <3>5 DEF Prepare, PrepareForAccess
  <2> QED
    BY <1>2, <1>p, <2>2, <2>3 DEF Prepare
<1>c. CASE ConnectEx(s)
  <2>1. /\ LeasePhase[s] = "opening" /\ LeaseDepth[s] = 1 /\ LeaseLost[s] = {}
        /\ access' = access
    BY <1>1, <1>c DEF ConnectEx, Connect, AtPlace, Failing
  <2>2. CASE pc'[s] = "open"
    <3>1. LeasePhase'[s] = "opening" /\ LeaseDepth'[s] = 2 /\ LeaseLost'[s] = {}
      BY <1>1, <2>2 DEF AtPlace, Failing
    <3>2. Lease!Goes(s, 1)
      BY <2>1, <3>1, <1>c, GoesAt DEF Step
    <3> QED
      BY <2>1, <3>1, <3>2, <1>c, PartStays DEF Step, LeaseStep, Lease!Acquire
  <2>3. CASE pc'[s] = "undoAccess"
    <3>1. Connected(s)' = FALSE /\ Opened(s)' = FALSE /\ ~Leaks(s)'
      BY <1>1, <1>2, <1>c, <2>3 DEF ConnectEx, Held, Leaks, Connected, Opened
    <3>2. LeasePhase'[s] = "failing" /\ LeaseDepth'[s] = 1 /\ LeaseLost'[s] = {}
      BY <1>1, <2>3, <3>1 DEF AtPlace, Failing
    <3>3. /\ LeasePhase' = [LeasePhase EXCEPT ![s] = "failing"]
          /\ UNCHANGED <<LeaseDepth, LeaseLost>>
      BY <2>1, <3>2, <1>c, PartStays, LeaseOfOne DEF Step
    <3> QED
      BY <2>1, <3>3 DEF LeaseStep, Lease!GiveUp
  <2> QED
    BY <1>2, <1>c, <2>2, <2>3 DEF ConnectEx
<1>o. CASE OpenDisk(s)
  <2>1. /\ LeasePhase[s] = "opening" /\ LeaseDepth[s] = 2 /\ LeaseLost[s] = {}
        /\ access' = access
    BY <1>1, <1>o DEF OpenDisk, Open, AtPlace, Failing
  <2>2. CASE pc'[s] = "info"
    <3>1. LeasePhase'[s] = "opening" /\ LeaseDepth'[s] = 3 /\ LeaseLost'[s] = {}
      BY <1>1, <2>2 DEF AtPlace, Failing
    <3>2. Lease!Goes(s, 1)
      BY <2>1, <3>1, <1>o, GoesAt DEF Step
    <3> QED
      BY <2>1, <3>1, <3>2, <1>o, PartStays DEF Step, LeaseStep, Lease!Acquire
  <2>3. CASE pc'[s] = "undoConnect"
    <3>1. Opened(s)' = FALSE /\ ~Leaks(s)'
      BY <1>1, <1>2, <1>o, <2>3 DEF OpenDisk, Held, Leaks, Opened
    <3>2. LeasePhase'[s] = "failing" /\ LeaseDepth'[s] = 2 /\ LeaseLost'[s] = {}
      BY <1>1, <2>3, <3>1 DEF AtPlace, Failing
    <3>3. /\ LeasePhase' = [LeasePhase EXCEPT ![s] = "failing"]
          /\ UNCHANGED <<LeaseDepth, LeaseLost>>
      BY <2>1, <3>2, <1>o, PartStays, LeaseOfOne DEF Step
    <3> QED
      BY <2>1, <3>3 DEF LeaseStep, Lease!GiveUp
  <2> QED
    BY <1>2, <1>o, <2>2, <2>3 DEF OpenDisk
<1>i. CASE GetInfo(s)
  <2>1. /\ LeasePhase[s] = "opening" /\ LeaseDepth[s] = 3 /\ LeaseLost[s] = {}
        /\ access' = access
    BY <1>1, <1>i DEF GetInfo, AtPlace, Failing
  <2>2. CASE pc'[s] = "ready"
    <3>1. LeasePhase'[s] = "ready" /\ LeaseDepth'[s] = 3 /\ LeaseLost'[s] = {}
      BY <1>1, <2>2 DEF AtPlace, Failing
    <3> QED
      BY <2>1, <3>1, <1>i, PartStays, LeaseOfOne DEF Step, LeaseStep, Lease!BeReady
  <2>3. CASE pc'[s] = "undoConnect"   \* the handle stays open: it is lost
    <3>1. Opened(s)' /\ ~Leaks(s)'
      BY <1>1, <1>2, <1>i, <2>3 DEF GetInfo, Held, Leaks, Opened
    <3>2. LeasePhase'[s] = "failing" /\ LeaseDepth'[s] = 2 /\ LeaseLost'[s] = {"handle"}
      BY <1>1, <2>3, <3>1 DEF AtPlace, Failing
    <3>3. Lease!Goes(s, -1)
      BY <2>1, <3>2, <1>i, GoesAt DEF Step
    <3> QED
      BY <2>1, <3>2, <3>3, <1>i, LeaseOfOne DEF Step, LeaseStep, Lease!GiveUp
  <2> QED
    BY <1>2, <1>i, <2>2, <2>3 DEF GetInfo
<1>u. CASE UndoConnect(s)
  <2>1. /\ LeasePhase[s] = "failing" /\ LeaseDepth[s] = 2
        /\ LeasePhase'[s] = "failing" /\ LeaseDepth'[s] = 1
        /\ access' = access /\ Opened(s)' = Opened(s)
    BY <1>1, <1>2, <1>u DEF UndoConnect, Disconnect, AtPlace, Opened
  <2>1a. ~Leaks(s) /\ ~Leaks(s)'
    BY <1>2, <1>u DEF UndoConnect, Leaks
  <2>2. CASE Disconnect(myConn[s]) /\ refused' = refused
    <3>1. LeaseLost'[s] = LeaseLost[s]
      BY <1>1, <1>2, <1>u, <2>1, <2>1a, <2>2 DEF UndoConnect, Disconnect, AtPlace, Failing, Connected, Held
    <3>2. Lease!Goes(s, -1)
      BY <2>1, <1>u, GoesAt DEF Step
    <3> QED
      BY <2>1, <3>1, <3>2, <1>u, PartStays DEF Step, LeaseStep, Lease!Release
  <2>3. CASE Refusing(s, "undoConnect", "undoAccess")
    <3>1. LeaseLost'[s] = LeaseLost[s] \cup {"connection"}
      BY <1>1, <1>2, <2>1, <2>1a, <2>3 DEF AtPlace, Failing, Connected, Held
    <3>2. Lease!Level[2] = "connection"
      BY DEF Lease!Level
    <3> QED
      BY <2>1, <3>1, <3>2, <1>u, PartStays, LeaseOfOne DEF Step, LeaseStep, Lease!Lose
  <2> QED
    BY <1>u, <2>2, <2>3 DEF UndoConnect
<1>a. CASE UndoAccess(s)
  <2>1. /\ LeasePhase[s] = "failing" /\ LeaseDepth[s] = 1
        /\ LeasePhase'[s] = "failing" /\ LeaseDepth'[s] = 0
        /\ Connected(s)' = Connected(s) /\ Opened(s)' = Opened(s)
    BY <1>1, <1>2, <1>a DEF UndoAccess, EndAccess, AtPlace, Opened, Connected
  <2>2. CASE EndAccess(KeyOf[s]) /\ refused' = refused
    <3>1. LeaseLost'[s] = LeaseLost[s]
      BY <1>1, <1>2, <1>a, <2>1, <2>2 DEF UndoAccess, AtPlace, Failing, Unrefused, Leaks
    <3>2. access[KeyOf[s]] > 0
      BY <1>a, HolderCounts DEF UndoAccess, Holds
    <3>3. access' = [access EXCEPT ![KeyOf[s]] = @ - 1]
      BY <1>2, <1>3, <2>2, <3>2 DEF EndAccess
    <3>4. {LeaseDepth[s], LeaseDepth[s] + (-1)} = {0, 1} /\ LeaseDepth'[s] = LeaseDepth[s] + (-1)
      BY <2>1
    <3>5. access' = [access EXCEPT ![KeyOf[s]] = @ + (-1)]
      BY <1>2, <1>3, <3>3
    <3>6. Lease!Goes(s, -1)
      BY <3>4, <3>5, <1>a, GoesAt DEF Step
    <3> QED
      BY <2>1, <3>1, <3>6, <1>a, PartStays DEF Step, LeaseStep, Lease!Release
  <2>3. CASE Refusing(s, "undoAccess", "openFailed")
    <3>1. LeaseLost'[s] = LeaseLost[s] \cup {"access"}
      BY <1>1, <1>2, <2>1, <2>3 DEF AtPlace, Failing, Leaks
    <3>2. Lease!Level[1] = "access"
      BY DEF Lease!Level
    <3> QED
      BY <2>1, <2>3, <3>1, <3>2, <1>a, PartStays, LeaseOfOne DEF Step, LeaseStep, Lease!Lose
  <2> QED
    BY <1>a, <2>2, <2>3 DEF UndoAccess
<1>l. CASE CallClose(s)
  <2>1. /\ LeasePhase'[s] = "closing" /\ LeaseLost[s] = {} /\ LeaseLost'[s] = {}
        /\ Connected(s)' = Connected(s) /\ Opened(s)' = Opened(s) /\ access' = access
        /\ LeaseDepth'[s] = 1 + (IF Connected(s) THEN 1 ELSE 0) + (IF Opened(s) THEN 1 ELSE 0)
    BY <1>1, <1>2, <1>l DEF CallClose, AtPlace, Failing, Connected, Opened
  <2>2. CASE pc[s] = "ready"
    <3>1. LeasePhase[s] = "ready" /\ LeaseDepth[s] = 3 /\ Connected(s) /\ Opened(s)
      BY <1>1, <2>2 DEF AtPlace, Held, Connected, Opened
    <3> QED
      BY <2>1, <3>1, <1>l, PartStays, LeaseOfOne DEF Step, LeaseStep, Lease!StartClosing
  <2>3. CASE pc[s] = "closeFailed"
    <3>1. LeasePhase[s] = "closing" /\ LeaseDepth[s] = LeaseDepth'[s]
      BY <1>1, <2>1, <2>3 DEF AtPlace
    <3> QED
      BY <2>1, <3>1, <1>l, LeaseStays DEF Step, LeaseStep
  <2> QED
    BY <1>l, <2>2, <2>3 DEF CallClose
<1>d. CASE CloseDisk(s)
  <2>1. /\ LeasePhase[s] = "closing" /\ LeasePhase'[s] = "closing"
        /\ LeaseLost[s] = {} /\ LeaseLost'[s] = {}
        /\ Connected(s)' = Connected(s) /\ access' = access
        /\ LeaseDepth[s] = 1 + (IF Connected(s) THEN 1 ELSE 0) + (IF Opened(s) THEN 1 ELSE 0)
    BY <1>1, <1>2, <1>d DEF CloseDisk, Close, AtPlace, Failing, Connected
  <2>2. CASE Opened(s) /\ pc'[s] = "disconnect"
    <3>1. LeaseDepth'[s] = LeaseDepth[s] - 1 /\ LeaseDepth[s] >= 2
      BY <1>1, <2>1, <2>2 DEF AtPlace
    <3>2. Lease!Goes(s, -1)
      BY <1>4, <2>1, <3>1, <1>d, GoesAt DEF Step
    <3> QED
      BY <2>1, <3>1, <3>2, <1>d, PartStays DEF Step, LeaseStep, Lease!Release
  <2>3. CASE ~(Opened(s) /\ pc'[s] = "disconnect")
    <3>1. LeaseDepth'[s] = LeaseDepth[s]
      BY <1>1, <1>2, <1>d, <2>1, <2>3 DEF CloseDisk, AtPlace, Opened
    <3> QED
      BY <2>1, <3>1, <1>d, LeaseStays DEF Step, LeaseStep
  <2> QED
    BY <2>2, <2>3
<1>n. CASE CloseConnection(s)
  <2>1. /\ LeasePhase[s] = "closing" /\ LeasePhase'[s] = "closing"
        /\ LeaseLost[s] = {} /\ LeaseLost'[s] = {} /\ access' = access
        /\ LeaseDepth[s] = 1 + (IF Connected(s) THEN 1 ELSE 0)
        /\ ~Opened(s) /\ ~Opened(s)'
    BY <1>1, <1>2, <1>n DEF CloseConnection, Disconnect, AtPlace, Failing, Held, Opened
  <2>2. CASE Connected(s) /\ pc'[s] = "endAccess"
    <3>1. LeaseDepth'[s] = LeaseDepth[s] - 1 /\ LeaseDepth[s] >= 2
      BY <1>1, <2>1, <2>2 DEF AtPlace
    <3>2. Lease!Goes(s, -1)
      BY <1>4, <2>1, <3>1, <1>n, GoesAt DEF Step
    <3> QED
      BY <2>1, <3>1, <3>2, <1>n, PartStays DEF Step, LeaseStep, Lease!Release
  <2>3. CASE ~(Connected(s) /\ pc'[s] = "endAccess")
    <3>1. LeaseDepth'[s] = LeaseDepth[s]
      BY <1>1, <1>2, <1>n, <2>1, <2>3 DEF CloseConnection, AtPlace, Connected
    <3> QED
      BY <2>1, <3>1, <1>n, LeaseStays DEF Step, LeaseStep
  <2> QED
    BY <2>2, <2>3
<1>e. CASE CloseAccess(s)
  <2>1. /\ LeasePhase[s] = "closing" /\ LeasePhase'[s] = "closing"
        /\ LeaseLost[s] = {} /\ LeaseLost'[s] = {} /\ LeaseDepth[s] = 1
    BY <1>1, <1>2, <1>e DEF CloseAccess, AtPlace, Failing
  <2>2. CASE pc'[s] = "closed"
    <3>1. LeaseDepth'[s] = 0
      BY <1>1, <2>2 DEF AtPlace
    <3>2. access[KeyOf[s]] > 0
      BY <1>e, HolderCounts DEF CloseAccess, Holds
    <3>3. access' = [access EXCEPT ![KeyOf[s]] = @ - 1]
      BY <1>2, <1>3, <1>e, <2>2, <3>2 DEF CloseAccess, EndAccess
    <3>4. {LeaseDepth[s], LeaseDepth[s] + (-1)} = {0, 1} /\ LeaseDepth'[s] = LeaseDepth[s] + (-1)
      BY <2>1, <3>1
    <3>5. access' = [access EXCEPT ![KeyOf[s]] = @ + (-1)]
      BY <1>2, <1>3, <3>3
    <3>6. Lease!Goes(s, -1)
      BY <3>4, <3>5, <1>e, GoesAt DEF Step
    <3> QED
      BY <2>1, <3>1, <3>6, <1>e, PartStays DEF Step, LeaseStep, Lease!Release
  <2>3. CASE pc'[s] = "closeFailed"
    <3>1. ~Connected(s)' /\ ~Opened(s)' /\ access' = access
      BY <1>1, <1>2, <1>e, <2>3 DEF CloseAccess, Held, Connected, Opened
    <3>2. LeaseDepth'[s] = 1
      BY <1>1, <2>3, <3>1 DEF AtPlace
    <3> QED
      BY <2>1, <3>1, <3>2, <1>e, LeaseStays DEF Step, LeaseStep
  <2> QED
    BY <1>2, <1>e, <2>2, <2>3 DEF CloseAccess
<1> QED
  BY <1>p, <1>c, <1>o, <1>i, <1>u, <1>a, <1>l, <1>d, <1>n, <1>e DEF Step

(* Open and Close keep the promise of DiskLease.                              *)
THEOREM Refinement == Spec => ImplementsDiskLease
<1>1. Init => Lease!LeaseInit
  <2> SUFFICES ASSUME Init PROVE Lease!LeaseInit
    OBVIOUS
  <2>1. \A s \in Session : LeasePhase[s] = "opening" /\ LeaseDepth[s] = 0 /\ LeaseLost[s] = {}
    BY Places, SessionInvInit DEF Init, AtPlace, Failing
  <2>2. access = [a \in Access |-> 0]
    BY DEF Init, LibInit
  <2> QED
    BY <2>1, <2>2, LeaseFunctions DEF Lease!LeaseInit
<1>2. SessionInv /\ SessionInv' /\ MatchInv /\ [Next]_vars
         => [Lease!LeaseNext]_(Lease!leaseVars)
  <2> SUFFICES ASSUME SessionInv, SessionInv', MatchInv, [Next]_vars
               PROVE  [Lease!LeaseNext]_(Lease!leaseVars)
    OBVIOUS
  <2>1. ASSUME NEW s \in Session, Step(s) PROVE [Lease!LeaseNext]_(Lease!leaseVars)
    BY <2>1, StepRefines DEF LeaseStep, Lease!LeaseNext, Lease!leaseVars
  <2>2. CASE UNCHANGED vars
    <3>1. \A s \in Session : SameView(s)
      BY <2>2 DEF vars, libVars, sessionVars, SameView, Connected, Opened
    <3> QED
      BY <2>2, <3>1, SameLease, LeaseFunctions
         DEF vars, libVars, Lease!leaseVars, LeasePhase, LeaseDepth, LeaseLost
  <2> QED
    BY <2>1, <2>2 DEF Next, Step
<1> QED
  BY <1>1, <1>2, AlwaysSessionInv, AlwaysMatchInv, PTL DEF Spec, ImplementsDiskLease, Lease!LeaseSpec
=============================================================================
