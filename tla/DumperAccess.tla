---------------------------- MODULE DumperAccess ----------------------------
(***************************************************************************)
(* VadpDumper.PrepareForAccess and VadpDumper.EndAccess (dumper/           *)
(* dumper.go): dumpers of one program that register a virtual machine,     *)
(* trying again when disklib refuses, and that may crash and come back.    *)
(* The registration is that of the virtual machine under the dumper's      *)
(* identity, which NewVddkParams draws at random and a restarted program   *)
(* may have kept.  No disk is opened here: DumperDisks does that.          *)
(***************************************************************************)
EXTENDS VixDiskLib

CONSTANTS
    Dumper,         \* the VadpDumper values of the program
    PrepareTries,   \* 10 in the code
    EndTries,       \* 30 in the code
    MaxAccess       \* bound: registrations of one identity

ASSUME DumperAssumption ==
    /\ Dumper # {}
    /\ {PrepareTries, EndTries, MaxAccess} \subseteq Nat \ {0}

VARIABLES
    identity,   \* the access of each dumper: its virtual machine and Identity
    pc,         \* the disklib call each dumper makes next, or "idle"
    tries,      \* i in the loops
    claim,      \* history: is a PrepareForAccess to be matched ("no", "calling", "yes")
    abandoned,  \* history: accesses with a failed try, or a claim, that nobody undid
    shared      \* history: accesses that two dumpers have had at once

accessVars == <<identity, pc, tries, claim, abandoned, shared>>
vars == <<libVars, accessVars>>

Clashes(ids) == {a \in Access : \E d, e \in Dumper : d # e /\ ids[d] = a /\ ids[e] = a}

\* NewVddkParams: any identity, of two dumpers maybe the same.
Init ==
    /\ LibInit
    /\ identity \in [Dumper -> Access]
    /\ pc = [d \in Dumper |-> "idle"]
    /\ tries = [d \in Dumper |-> 0]
    /\ claim = [d \in Dumper |-> "no"]
    /\ abandoned = {}
    /\ shared = Clashes(identity)

Goto(d, next) == pc' = [pc EXCEPT ![d] = next]

-----------------------------------------------------------------------------
(* PrepareForAccess.                                                       *)

\* The caller's part: one call until the matching EndAccess.
CallPrepare(d) ==
    /\ pc[d] = "idle"
    /\ claim[d] = "no"
    /\ Goto(d, "prepare")
    /\ tries' = [tries EXCEPT ![d] = 0]
    /\ claim' = [claim EXCEPT ![d] = "calling"]
    /\ UNCHANGED <<libVars, identity, abandoned, shared>>

Prepared(d) ==
    /\ pc[d] = "prepare"
    /\ access[identity[d]] < MaxAccess
    /\ PrepareForAccess(identity[d])
    /\ Goto(d, "idle")
    /\ claim' = [claim EXCEPT ![d] = "yes"]
    /\ UNCHANGED <<identity, tries, abandoned, shared>>

\* disklib returns an error, and may have registered all the same.
NotPrepared(d) ==
    /\ pc[d] = "prepare"
    /\ PrepareFails(identity[d])
    /\ access'[identity[d]] <= MaxAccess
    /\ Goto(d, "undo")
    /\ UNCHANGED <<identity, tries, claim, abandoned, shared>>

\* Mutated form of NextTry: after the last try the error is lost.
NextTryReturnsNil(d) ==
    /\ tries' = [tries EXCEPT ![d] = @ + 1]
    /\ IF tries'[d] < PrepareTries
       THEN Goto(d, "prepare") /\ UNCHANGED claim
       ELSE Goto(d, "idle") /\ claim' = [claim EXCEPT ![d] = "yes"]

\* The end of a try that failed: another one, or the error.
NextTry(d) ==
    /\ tries' = [tries EXCEPT ![d] = @ + 1]
    /\ IF tries'[d] < PrepareTries
       THEN Goto(d, "prepare") /\ UNCHANGED claim
       ELSE Goto(d, "idle") /\ claim' = [claim EXCEPT ![d] = "no"]

\* Mutated form of UndoTry: the last try that failed is not undone.
UndoTryButTheLast(d) ==
    /\ pc[d] = "undo"
    /\ IF tries[d] + 1 < PrepareTries THEN EndAccess(identity[d]) ELSE UNCHANGED libVars
    /\ NextTry(d)
    /\ UNCHANGED <<identity, abandoned, shared>>

\* EndAccess after a failed try, its own error dropped.
UndoTry(d) ==
    /\ pc[d] = "undo"
    /\ \/ EndAccess(identity[d]) /\ UNCHANGED abandoned
       \/ abandoned' = abandoned \cup {identity[d]} /\ UNCHANGED libVars
    /\ NextTry(d)
    /\ UNCHANGED <<identity, shared>>

-----------------------------------------------------------------------------
(* EndAccess, which the caller may call at any time.                       *)

CallEnd(d) ==
    /\ pc[d] = "idle"
    /\ Goto(d, "end")
    /\ tries' = [tries EXCEPT ![d] = 0]
    /\ UNCHANGED <<libVars, identity, claim, abandoned, shared>>

Ended(d) ==
    /\ pc[d] = "end"
    /\ EndAccess(identity[d])
    /\ Goto(d, "libCleanup")
    /\ claim' = [claim EXCEPT ![d] = "no"]
    /\ UNCHANGED <<identity, tries, abandoned, shared>>

\* Mutated form of NotEnded: one try too many.
NotEndedOnceMore(d) ==
    /\ pc[d] = "end"
    /\ tries' = [tries EXCEPT ![d] = @ + 1]
    /\ Goto(d, IF tries'[d] <= EndTries THEN "end" ELSE "idle")
    /\ UNCHANGED <<libVars, identity, claim, abandoned, shared>>

NotEnded(d) ==
    /\ pc[d] = "end"
    /\ tries' = [tries EXCEPT ![d] = @ + 1]
    /\ Goto(d, IF tries'[d] < EndTries THEN "end" ELSE "idle")
    /\ UNCHANGED <<libVars, identity, claim, abandoned, shared>>

\* disklib.Cleanup may take back more of what is left under the identity; its
\* error is only logged, and its counts are lost in arguments passed by value.
LibCleanup(d) ==
    /\ pc[d] = "libCleanup"
    /\ \E n \in 0 .. access[identity[d]] : access' = [access EXCEPT ![identity[d]] = n]
    /\ Goto(d, "idle")
    /\ UNCHANGED <<conn, handle, via, twice, identity, tries, claim, abandoned, shared>>

-----------------------------------------------------------------------------
\* The program dies and starts again; a dumper has kept its identity or not.
Restart ==
    /\ ProcessExit
    /\ identity' \in [Dumper -> Access]
    /\ pc' = [d \in Dumper |-> "idle"]
    /\ tries' = [d \in Dumper |-> 0]
    /\ claim' = [d \in Dumper |-> IF identity'[d] = identity[d] THEN claim[d] ELSE "no"]
    /\ abandoned' = abandoned \cup
          {identity[d] : d \in {e \in Dumper : identity'[e] # identity[e] /\ claim[e] # "no"}}
    /\ shared' = shared \cup Clashes(identity')

Next ==
    \/ \E d \in Dumper :
          \/ CallPrepare(d) \/ Prepared(d) \/ NotPrepared(d) \/ UndoTry(d)
          \/ CallEnd(d) \/ Ended(d) \/ NotEnded(d) \/ LibCleanup(d)
    \/ Restart

Spec == Init /\ [][Next]_vars

-----------------------------------------------------------------------------
(* Types; i stays below the number of tries while a loop runs.             *)
TypeOK ==
    /\ LibTypeOK
    /\ identity \in [Dumper -> Access]
    /\ pc \in [Dumper -> {"idle", "prepare", "undo", "end", "libCleanup"}]
    /\ tries \in [Dumper -> Nat]
    /\ \A d \in Dumper :
          /\ pc[d] \in {"prepare", "undo"} => tries[d] < PrepareTries
          /\ pc[d] = "end" => tries[d] < EndTries
    /\ claim \in [Dumper -> {"no", "calling", "yes"}]
    /\ abandoned \subseteq Access
    /\ shared \subseteq Access

(* README.md: "Every PrepareForAccess call should have a matching          *)
(* EndAccess call".  However often the tries fail, and after a crash too,  *)
(* the virtual machine has no more registrations than dumpers that have    *)
(* yet to end theirs, unless an EndAccess after a failed try was refused   *)
(* or an identity was lost in a crash.  With the claim of a restarted      *)
(* dumper this is dumper.go's "EndAccess can be used to clean up when the  *)
(* program has crashed".                                                   *)
AccessMatched ==
    \A a \in Access \ abandoned :
        access[a] <= Cardinality({d \in Dumper : identity[d] = a /\ claim[d] # "no"})

(* A dumper whose PrepareForAccess returned nil has its virtual machine    *)
(* registered until its EndAccess does, refused tries of EndAccess and     *)
(* crashes included, when no other dumper has had the same identity: the   *)
(* EndAccess after another dumper's failed try would take it away.         *)
PreparedIsRegistered ==
    \A d \in Dumper :
        claim[d] = "yes" /\ identity[d] \notin shared => access[identity[d]] > 0
=============================================================================
