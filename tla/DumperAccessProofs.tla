-------------------------- MODULE DumperAccessProofs --------------------------
(* Proofs about DumperAccess, for every set of dumpers and identities, any    *)
(* number of tries, and any number of crashes.                                *)
EXTENDS DumperAccess, FiniteSetTheorems, TLAPS

USE DumperAssumption

-----------------------------------------------------------------------------
(* The inductive invariant.                                                   *)

(* What a dumper claims at each place, and that a clash of identities is not  *)
(* forgotten.                                                                 *)
AccessInv ==
    /\ TypeOK
    /\ \A d \in Dumper :
          /\ pc[d] \in {"prepare", "undo"} => claim[d] = "calling"
          /\ pc[d] = "libCleanup" => claim[d] = "no"
    /\ Clashes(identity) \subseteq shared
    /\ PreparedIsRegistered

(* A step of one dumper.                                                      *)
Step(d) ==
    \/ CallPrepare(d) \/ Prepared(d) \/ NotPrepared(d) \/ UndoTry(d)
    \/ CallEnd(d) \/ Ended(d) \/ NotEnded(d) \/ LibCleanup(d)

(* A dumper's step is its own, but for its registrations.                     *)
LEMMA StepOfOne ==
    ASSUME TypeOK, NEW d \in Dumper, Step(d)
    PROVE  /\ UNCHANGED <<identity, shared>>
           /\ \A e \in Dumper \ {d} : pc'[e] = pc[e] /\ claim'[e] = claim[e]
           /\ \A a \in Access \ {identity[d]} : access'[a] = access[a]
BY DEF TypeOK, LibTypeOK, Step, CallPrepare, Prepared, NotPrepared, UndoTry, NextTry, CallEnd,
       Ended, NotEnded, LibCleanup, Goto, PrepareFails, PrepareForAccess, EndAccess, libVars

(* A step keeps the types.                                                    *)
LEMMA StepKeepsTypes ==
    ASSUME AccessInv, NEW d \in Dumper, Step(d)
    PROVE  TypeOK'
<1>1. TypeOK
  BY DEF AccessInv
<1> USE DEF TypeOK, LibTypeOK, Goto, libVars
<1>2. CASE CallPrepare(d)
  BY <1>1, <1>2 DEF CallPrepare
<1>3. CASE Prepared(d)
  BY <1>1, <1>3 DEF Prepared, PrepareForAccess
<1>4. CASE NotPrepared(d)
  BY <1>1, <1>4 DEF NotPrepared, PrepareFails, PrepareForAccess
<1>5. CASE UndoTry(d)
  BY <1>1, <1>5 DEF UndoTry, NextTry, EndAccess
<1>6. CASE CallEnd(d)
  BY <1>1, <1>6 DEF CallEnd
<1>7. CASE Ended(d)
  BY <1>1, <1>7 DEF Ended, EndAccess
<1>8. CASE NotEnded(d)
  BY <1>1, <1>8 DEF NotEnded
<1>9. CASE LibCleanup(d)
  BY <1>1, <1>9 DEF LibCleanup
<1> QED
  BY <1>2, <1>3, <1>4, <1>5, <1>6, <1>7, <1>8, <1>9 DEF Step

(* What a dumper claims after its step, and what is then registered.          *)
LEMMA StepOfItself ==
    ASSUME AccessInv, NEW d \in Dumper, Step(d)
    PROVE  /\ pc'[d] \in {"prepare", "undo"} => claim'[d] = "calling"
           /\ pc'[d] = "libCleanup" => claim'[d] = "no"
           /\ claim'[d] = "yes" => \/ claim[d] = "yes" /\ access' = access
                                   \/ access'[identity[d]] > 0
<1>1. /\ TypeOK
      /\ pc[d] \in {"prepare", "undo"} => claim[d] = "calling"
      /\ pc[d] = "libCleanup" => claim[d] = "no"
  BY DEF AccessInv
<1> QED
  BY <1>1 DEF TypeOK, LibTypeOK, Step, CallPrepare, Prepared, NotPrepared, UndoTry, NextTry,
              CallEnd, Ended, NotEnded, LibCleanup, Goto, PrepareFails, PrepareForAccess, EndAccess, libVars

(* After a crash, the registrations are still there.                          *)
LEMMA RestartKeeps ==
    ASSUME AccessInv, Restart
    PROVE  AccessInv'
<1>1. TypeOK /\ PreparedIsRegistered
  BY DEF AccessInv
<1>2. TypeOK'
  BY <1>1 DEF TypeOK, LibTypeOK, Restart, ProcessExit, Clashes
<1>3. Clashes(identity') \subseteq shared' /\ shared \subseteq shared' /\ access' = access
  BY DEF Restart, ProcessExit
<1>4. \A d \in Dumper :
         /\ pc'[d] = "idle"
         /\ claim'[d] = "yes" => identity'[d] = identity[d] /\ claim[d] = "yes"
  BY <1>1 DEF Restart, TypeOK
<1>5. PreparedIsRegistered'
  BY <1>1, <1>3, <1>4 DEF PreparedIsRegistered
<1> QED
  BY <1>2, <1>3, <1>4, <1>5 DEF AccessInv, Clashes

(* It holds at the beginning.                                                 *)
LEMMA AccessInvInit == Init => AccessInv
BY DEF Init, LibInit, AccessInv, TypeOK, LibTypeOK, PreparedIsRegistered, Clashes

(* Every step keeps it.                                                       *)
LEMMA AccessInvNext == AccessInv /\ [Next]_vars => AccessInv'
<1> SUFFICES ASSUME AccessInv, [Next]_vars PROVE AccessInv'
  OBVIOUS
<1>1. ASSUME NEW d \in Dumper, Step(d) PROVE AccessInv'
  <2>1. TypeOK /\ TypeOK'
    BY <1>1, StepKeepsTypes DEF AccessInv
  <2>2. /\ UNCHANGED <<identity, shared>>
        /\ \A e \in Dumper \ {d} : pc'[e] = pc[e] /\ claim'[e] = claim[e]
        /\ \A a \in Access \ {identity[d]} : access'[a] = access[a]
    BY <1>1, <2>1, StepOfOne
  <2>3. PreparedIsRegistered'
    <3> SUFFICES ASSUME NEW e \in Dumper, claim'[e] = "yes", identity[e] \notin shared
                 PROVE  access'[identity[e]] > 0
      BY <2>2 DEF PreparedIsRegistered
    <3>1. identity[e] \in Access
      BY <2>1 DEF TypeOK
    <3>2. CASE e = d
      BY <1>1, <2>2, <3>2, StepOfItself DEF AccessInv, PreparedIsRegistered
    <3>3. CASE e # d   \* d has another identity: they do not clash
      <4>1. identity[e] # identity[d]
        BY <3>1, <3>3 DEF AccessInv, Clashes
      <4> QED
        BY <2>2, <3>1, <3>3, <4>1 DEF AccessInv, PreparedIsRegistered
    <3> QED
      BY <3>2, <3>3
  <2>4. \A e \in Dumper :
           /\ pc'[e] \in {"prepare", "undo"} => claim'[e] = "calling"
           /\ pc'[e] = "libCleanup" => claim'[e] = "no"
    BY <1>1, <2>2, StepOfItself DEF AccessInv
  <2> QED
    BY <2>1, <2>2, <2>3, <2>4 DEF AccessInv, Clashes
<1>2. CASE UNCHANGED vars
  BY <1>2 DEF vars, libVars, accessVars, AccessInv, TypeOK, LibTypeOK, PreparedIsRegistered,
              Clashes
<1> QED
  BY <1>1, <1>2, RestartKeeps DEF Next, Step

(* It holds always.                                                           *)
LEMMA AlwaysAccessInv == Spec => []AccessInv
BY AccessInvInit, AccessInvNext, PTL DEF Spec

(* Types; no loop runs past its number of tries.                              *)
THEOREM TypeCorrect == Spec => []TypeOK
<1>1. AccessInv => TypeOK
  BY DEF AccessInv
<1> QED
  BY <1>1, AlwaysAccessInv, PTL

(* A virtual machine that PrepareForAccess has registered stays registered    *)
(* until its EndAccess, refused ones and crashes included, when no other      *)
(* dumper has had its identity.                                               *)
THEOREM StaysPrepared == Spec => []PreparedIsRegistered
<1>1. AccessInv => PreparedIsRegistered
  BY DEF AccessInv
<1> QED
  BY <1>1, AlwaysAccessInv, PTL

-----------------------------------------------------------------------------
(* Registrations are matched.                                                 *)

(* The dumpers that may have one registration each: between two tries a       *)
(* dumper has none.                                                           *)
Holds(d) == claim[d] # "no" /\ pc[d] # "prepare"
Claimants == {d \in Dumper : claim[d] # "no"}
Holders(a) == {d \in Dumper : identity[d] = a /\ Holds(d)}

(* Dumpers may be without number, but at any time finitely many have a claim. *)
MatchInv ==
    /\ IsFiniteSet(Claimants)
    /\ \A a \in Access \ abandoned : access[a] <= Cardinality(Holders(a))

(* The holders can be counted.                                                *)
LEMMA FiniteHolders ==
    ASSUME IsFiniteSet(Claimants), NEW a
    PROVE  IsFiniteSet(Holders(a)) /\ Cardinality(Holders(a)) \in Nat
<1>1. Holders(a) \subseteq Claimants
  BY DEF Holders, Holds, Claimants
<1> QED
  BY <1>1, FS_Subset, FS_CardinalityType

(* A step of d changes who holds only as to d, and only for its identity.     *)
LEMMA HoldersChange ==
    ASSUME TypeOK, NEW d \in Dumper, Step(d), NEW a
    PROVE  Holders(a)' = IF identity[d] = a /\ Holds(d)'
                         THEN Holders(a) \cup {d} ELSE Holders(a) \ {d}
BY StepOfOne DEF Holders, Holds

(* A step of d adds a registration only when d becomes a holder, and takes    *)
(* one back when it ceases to be one, or it gives the identity up.            *)
LEMMA RegistersAsHolder ==
    ASSUME AccessInv, NEW d \in Dumper, Step(d)
    PROVE  LET a == identity[d] IN
           \/ access'[a] <= access[a] /\ (Holds(d) => Holds(d)')
           \/ access'[a] <= access[a] + 1 /\ ~Holds(d) /\ Holds(d)'
           \/ Holds(d) /\ access'[a] = IF access[a] > 0 THEN access[a] - 1 ELSE 0
           \/ a \in abandoned'
<1>1. /\ TypeOK
      /\ pc[d] \in {"prepare", "undo"} => claim[d] = "calling"
      /\ pc[d] = "libCleanup" => claim[d] = "no"
      /\ identity[d] \in Access /\ access[identity[d]] \in Nat
  BY DEF AccessInv, TypeOK, LibTypeOK
<1> USE DEF TypeOK, LibTypeOK, Goto, libVars, Holds
<1>2. CASE CallPrepare(d)
  BY <1>1, <1>2 DEF CallPrepare
<1>3. CASE Prepared(d)
  BY <1>1, <1>3 DEF Prepared, PrepareForAccess
<1>4. CASE NotPrepared(d)
  BY <1>1, <1>4 DEF NotPrepared, PrepareFails, PrepareForAccess
<1>5. CASE UndoTry(d)
  BY <1>1, <1>5 DEF UndoTry, NextTry, EndAccess
<1>6. CASE CallEnd(d)
  BY <1>1, <1>6 DEF CallEnd
<1>7. CASE Ended(d)
  BY <1>1, <1>7 DEF Ended, EndAccess
<1>8. CASE NotEnded(d)
  BY <1>1, <1>8 DEF NotEnded
<1>9. CASE LibCleanup(d)
  BY <1>1, <1>9 DEF LibCleanup
<1> QED
  BY <1>2, <1>3, <1>4, <1>5, <1>6, <1>7, <1>8, <1>9 DEF Step

(* A dumper's step registers no more than it comes to hold.                   *)
LEMMA StepKeepsMatch ==
    ASSUME AccessInv, MatchInv, NEW d \in Dumper, Step(d)
    PROVE  MatchInv'
<1> DEFINE k == identity[d]
<1>1. /\ TypeOK /\ TypeOK' /\ IsFiniteSet(Claimants)
      /\ \A a \in Access : access[a] \in Nat /\ access'[a] \in Nat
  BY StepKeepsTypes DEF AccessInv, TypeOK, LibTypeOK, MatchInv
<1>2. IsFiniteSet(Claimants')
  <2>1. Claimants' \subseteq Claimants \cup {d}
    BY <1>1, StepOfOne DEF Claimants
  <2> QED
    BY <1>1, <2>1, FS_AddElement, FS_Subset
<1>3. abandoned \subseteq abandoned'
  BY DEF Step, CallPrepare, Prepared, NotPrepared, UndoTry, CallEnd, Ended, NotEnded, LibCleanup
<1>4. ASSUME NEW a \in Access \ abandoned'
      PROVE  access'[a] <= Cardinality(Holders(a)')
  <2> DEFINE n == Cardinality(Holders(a))
  <2>1. n \in Nat /\ IsFiniteSet(Holders(a)) /\ access[a] <= n
    BY <1>1, <1>3, <1>4, FiniteHolders DEF MatchInv
  <2>2. Holders(a)' = IF k = a /\ Holds(d)' THEN Holders(a) \cup {d} ELSE Holders(a) \ {d}
    BY <1>1, HoldersChange
  <2>3. d \in Holders(a) <=> k = a /\ Holds(d)
    BY DEF Holders
  <2>4. CASE a # k
    <3>1. Holders(a)' = Holders(a) /\ access'[a] = access[a]
      BY <1>1, <2>2, <2>3, <2>4, StepOfOne
    <3> QED
      BY <2>1, <3>1
  <2>5. CASE a = k /\ access'[a] <= access[a] /\ (Holds(d) => Holds(d)')
    <3>1. Holders(a)' = Holders(a) \/ (Holders(a)' = Holders(a) \cup {d} /\ d \notin Holders(a))
      BY <2>2, <2>3, <2>5
    <3>2. Cardinality(Holders(a)') \in {n, n + 1}
      BY <2>1, <3>1, FS_AddElement
    <3> QED
      BY <1>1, <2>1, <2>5, <3>2
  <2>6. CASE a = k /\ access'[a] <= access[a] + 1 /\ ~Holds(d) /\ Holds(d)'
    <3>1. Holders(a)' = Holders(a) \cup {d} /\ d \notin Holders(a)
      BY <2>2, <2>3, <2>6
    <3>2. Cardinality(Holders(a)') = n + 1
      BY <2>1, <3>1, FS_AddElement
    <3> QED
      BY <1>1, <2>1, <2>6, <3>2
  <2>7. CASE a = k /\ Holds(d) /\ access'[a] = IF access[a] > 0 THEN access[a] - 1 ELSE 0
    <3>1. d \in Holders(a) /\ (Holders(a)' = Holders(a) \ {d} \/ Holders(a)' = Holders(a))
      BY <2>2, <2>3, <2>7
    <3>2. Cardinality(Holders(a) \ {d}) = n - 1
      BY <2>1, <3>1, FS_RemoveElement
    <3>3. Cardinality(Holders(a)') \in {n - 1, n} /\ n - 1 \in Nat
      BY <2>1, <3>1, <3>2, FS_RemoveElement, FS_CardinalityType
    <3> QED
      BY <1>1, <2>1, <2>7, <3>3
  <2> QED
    BY <1>4, <2>4, <2>5, <2>6, <2>7, RegistersAsHolder
<1> QED
  BY <1>2, <1>4 DEF MatchInv

(* A crash leaves every claim under the identity it was made with, or the     *)
(* identity abandoned.                                                        *)
LEMMA RestartKeepsMatch ==
    ASSUME AccessInv, MatchInv, Restart
    PROVE  MatchInv'
<1>1. TypeOK /\ TypeOK' /\ IsFiniteSet(Claimants)
  BY RestartKeeps DEF AccessInv, MatchInv
<1>2. /\ access' = access /\ abandoned \subseteq abandoned'
      /\ \A d \in Dumper :
            /\ pc'[d] = "idle"
            /\ claim'[d] = IF identity'[d] = identity[d] THEN claim[d] ELSE "no"
            /\ identity'[d] # identity[d] /\ claim[d] # "no" => identity[d] \in abandoned'
  BY DEF Restart, ProcessExit
<1>3. Claimants' \subseteq Claimants
  BY <1>2 DEF Claimants
<1>4. IsFiniteSet(Claimants')
  BY <1>1, <1>3, FS_Subset
<1>5. ASSUME NEW a \in Access \ abandoned'
      PROVE  access'[a] <= Cardinality(Holders(a)')
  <2>1. Holders(a) \subseteq Holders(a)'
    BY <1>2, <1>5 DEF Holders, Holds
  <2>2. IsFiniteSet(Holders(a)')
    <3>1. Holders(a)' \subseteq Claimants'
      BY DEF Holders, Holds, Claimants
    <3> QED
      BY <1>4, <3>1, FS_Subset
  <2>3. /\ Cardinality(Holders(a)) <= Cardinality(Holders(a)')
        /\ Cardinality(Holders(a)) \in Nat /\ Cardinality(Holders(a)') \in Nat
    BY <2>1, <2>2, FS_Subset, FS_CardinalityType
  <2>4. access[a] <= Cardinality(Holders(a)) /\ access[a] \in Nat
    BY <1>1, <1>2, <1>5 DEF MatchInv, TypeOK, LibTypeOK
  <2> QED
    BY <1>2, <2>3, <2>4
<1> QED
  BY <1>4, <1>5 DEF MatchInv

(* Every step keeps the registrations matched.                                *)
LEMMA MatchNext == AccessInv /\ MatchInv /\ [Next]_vars => MatchInv'
<1> SUFFICES ASSUME AccessInv, MatchInv, [Next]_vars PROVE MatchInv'
  OBVIOUS
<1>1. CASE UNCHANGED vars
  BY <1>1 DEF vars, libVars, accessVars, MatchInv, Claimants, Holders, Holds
<1> QED
  BY <1>1, StepKeepsMatch, RestartKeepsMatch DEF Next, Step

(* They are always matched.                                                   *)
LEMMA AlwaysMatchInv == Spec => []MatchInv
<1>1. Init => MatchInv
  <2> SUFFICES ASSUME Init PROVE MatchInv
    OBVIOUS
  <2>1. Claimants = {} /\ \A a \in Access : Holders(a) = {} /\ access[a] = 0
    BY DEF Init, LibInit, Claimants, Holders, Holds
  <2> QED
    BY <2>1, FS_EmptySet DEF MatchInv
<1> QED
  BY <1>1, MatchNext, AlwaysAccessInv, PTL DEF Spec

(* However often tries fail and dumpers crash, a virtual machine has no more  *)
(* registrations than dumpers with a claim, unless the identity was given up. *)
THEOREM Matched == Spec => []AccessMatched
<1>1. AccessInv /\ MatchInv => AccessMatched
  <2> SUFFICES ASSUME AccessInv, MatchInv, NEW a \in Access \ abandoned
               PROVE  access[a] <=
                         Cardinality({d \in Dumper : identity[d] = a /\ claim[d] # "no"})
    BY DEF AccessMatched
  <2> DEFINE C == {d \in Dumper : identity[d] = a /\ claim[d] # "no"}
  <2>1. IsFiniteSet(C) /\ Holders(a) \subseteq C
    BY FS_Subset DEF MatchInv, Claimants, Holders, Holds
  <2>2. /\ Cardinality(Holders(a)) <= Cardinality(C)
        /\ Cardinality(Holders(a)) \in Nat /\ Cardinality(C) \in Nat
    BY <2>1, FS_Subset, FS_CardinalityType
  <2>3. access[a] <= Cardinality(Holders(a)) /\ access[a] \in Nat
    BY DEF MatchInv, AccessInv, TypeOK, LibTypeOK
  <2> QED
    BY <2>2, <2>3
<1> QED
  BY <1>1, AlwaysAccessInv, AlwaysMatchInv, PTL
=============================================================================
