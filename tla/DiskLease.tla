------------------------------ MODULE DiskLease ------------------------------
(***************************************************************************)
(* What virtual_disks promises of a disk (README.md: Open "will roll back  *)
(* to initial state", Close clears "up all the resources held"), without   *)
(* the calls that do it.  A session holds its virtual machine's access, a  *)
(* connection and a disk handle, always the first depth of the three: it   *)
(* takes them in this order, and gives them back in the other one.  What   *)
(* it cannot give back when it fails to open is lost.  DiskSession         *)
(* implements it.                                                          *)
(***************************************************************************)
EXTENDS Integers

CONSTANTS Session, Access, KeyOf   \* as in DiskSession

VARIABLES
    phase,       \* of each session: "opening", "failing", "ready" or "closing"
    depth,       \* what it holds: 0 nothing, 1 access, 2 a connection, 3 a handle
    lost,        \* what it has lost
    registered   \* the sessions' registrations of each virtual machine

leaseVars == <<phase, depth, lost, registered>>

Level == <<"access", "connection", "handle">>

LeaseInit ==
    /\ phase = [s \in Session |-> "opening"]
    /\ depth = [s \in Session |-> 0]
    /\ lost = [s \in Session |-> {}]
    /\ registered = [a \in Access |-> 0]

\* The session's depth and with it, when it is about the access, registered.
Goes(s, by) ==
    /\ depth' = [depth EXCEPT ![s] = @ + by]
    /\ registered' =
          IF {depth[s], depth[s] + by} = {0, 1}
          THEN [registered EXCEPT ![KeyOf[s]] = @ + by]
          ELSE registered

Acquire(s) ==
    /\ phase[s] = "opening" /\ depth[s] < 3
    /\ Goes(s, 1)
    /\ UNCHANGED <<phase, lost>>

BeReady(s) ==
    /\ phase[s] = "opening" /\ depth[s] = 3
    /\ phase' = [phase EXCEPT ![s] = "ready"]
    /\ UNCHANGED <<depth, lost, registered>>

\* An open that fails when it has the handle already does not give it back,
\* and one that is refused the access may have been registered all the same.
GiveUp(s) ==
    /\ phase[s] = "opening"
    /\ phase' = [phase EXCEPT ![s] = "failing"]
    /\ \/ depth[s] < 3 /\ UNCHANGED <<depth, lost, registered>>
       \/ depth[s] = 3 /\ Goes(s, -1) /\ lost' = [lost EXCEPT ![s] = {"handle"}]
       \/ /\ depth[s] = 0
          /\ lost' = [lost EXCEPT ![s] = {"access"}]
          /\ registered' = [registered EXCEPT ![KeyOf[s]] = @ + 1]
          /\ UNCHANGED depth

StartClosing(s) ==
    /\ phase[s] = "ready"
    /\ phase' = [phase EXCEPT ![s] = "closing"]
    /\ UNCHANGED <<depth, lost, registered>>

Release(s) ==
    /\ phase[s] \in {"failing", "closing"} /\ depth[s] > 0
    /\ Goes(s, -1)
    /\ UNCHANGED <<phase, lost>>

\* Only a failing open goes on after something could not be released.
Lose(s) ==
    /\ phase[s] = "failing" /\ depth[s] > 0
    /\ lost' = [lost EXCEPT ![s] = @ \cup {Level[depth[s]]}]
    /\ depth' = [depth EXCEPT ![s] = @ - 1]
    /\ UNCHANGED <<phase, registered>>

LeaseNext ==
    \E s \in Session :
        \/ Acquire(s) \/ BeReady(s) \/ GiveUp(s)
        \/ StartClosing(s) \/ Release(s) \/ Lose(s)

LeaseSpec == LeaseInit /\ [][LeaseNext]_leaseVars
=============================================================================
