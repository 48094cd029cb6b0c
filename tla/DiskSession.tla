----------------------------- MODULE DiskSession -----------------------------
(***************************************************************************)
(* virtual_disks.Open and DiskConnectHandle.Close (pkg/virtual_disks/      *)
(* gvddk.go): a disk is opened in four calls to disklib, any of which may  *)
(* fail, and closed in three.  Sessions of several goroutines interleave,  *)
(* and may be on disks of one virtual machine under one identity.  Here pc *)
(* names the disklib call that comes next.                                 *)
(***************************************************************************)
EXTENDS VixDiskLib

CONSTANTS
    Session,   \* the calls of Open, each with the disk it returns
    KeyOf,     \* the virtual machine and identity of each session's params
    Closes     \* bound: how often a session calls Close on its disk

ASSUME SessionAssumption ==
    /\ KeyOf \in [Session -> Access]
    /\ Closes \in Nat

VARIABLES
    pc,        \* where each session is
    myConn,    \* the local conn of Open, then DiskConnectHandle.conn
    myDli,     \* the local dli of Open, then DiskConnectHandle.dli
    closes,    \* the calls of Close so far
    refused    \* history: the disklib calls whose failure left something behind

sessionVars == <<pc, myConn, myDli, closes, refused>>
vars == <<libVars, sessionVars>>

Init ==
    /\ LibInit
    /\ pc = [s \in Session |-> "prepare"]
    /\ myConn = [s \in Session |-> Nil]
    /\ myDli = [s \in Session |-> Nil]
    /\ closes = [s \in Session |-> 0]
    /\ refused = [s \in Session |-> {}]

Goto(s, next) == pc' = [pc EXCEPT ![s] = next]

\* A disklib call that fails, or that only asks: nothing changes but where s goes.
Moves(s, here, next) ==
    /\ pc[s] = here
    /\ Goto(s, next)
    /\ UNCHANGED <<libVars, myConn, myDli, closes, refused>>

\* The same for a call that should have released something.
Refusing(s, here, next) ==
    /\ pc[s] = here
    /\ Goto(s, next)
    /\ refused' = [refused EXCEPT ![s] = @ \cup {here}]
    /\ UNCHANGED <<libVars, myConn, myDli, closes>>

-----------------------------------------------------------------------------
(* Open: PrepareForAccess, ConnectEx, Open, GetInfo.                       *)

\* Mutated form of Prepare: EndAccess is called when it failed, too.
PrepareUndone(s) ==
    /\ pc[s] = "prepare"
    /\ \/ PrepareForAccess(KeyOf[s]) /\ Goto(s, "connect")
       \/ PrepareFails(KeyOf[s]) /\ Goto(s, "undoAccess")
    /\ UNCHANGED <<myConn, myDli, closes, refused>>

\* An error is returned at once: if the call has registered the machine all
\* the same, nobody ends that access.
Prepare(s) ==
    \/ /\ pc[s] = "prepare"
       /\ PrepareForAccess(KeyOf[s])
       /\ Goto(s, "connect")
       /\ UNCHANGED <<myConn, myDli, closes, refused>>
    \/ Moves(s, "prepare", "openFailed")
    \/ /\ pc[s] = "prepare"
       /\ PrepareForAccess(KeyOf[s])
       /\ Goto(s, "openFailed")
       /\ refused' = [refused EXCEPT ![s] = {"prepare"}]
       /\ UNCHANGED <<myConn, myDli, closes>>

\* Mutated form of ConnectEx: a connection that was never made is undone.
ConnectExUndone(s) ==
    \/ \E c \in Connection :
          /\ pc[s] = "connect"
          /\ Connect(c)
          /\ myConn' = [myConn EXCEPT ![s] = c]
          /\ Goto(s, "open")
          /\ UNCHANGED <<myDli, closes, refused>>
    \/ Moves(s, "connect", "undoConnect")

ConnectEx(s) ==
    \/ \E c \in Connection :
          /\ pc[s] = "connect"
          /\ Connect(c)
          /\ myConn' = [myConn EXCEPT ![s] = c]
          /\ Goto(s, "open")
          /\ UNCHANGED <<myDli, closes, refused>>
    \/ Moves(s, "connect", "undoAccess")

\* Mutated form of OpenDisk: a failed disklib.Open only gives back the access.
OpenDiskKeepsConnection(s) ==
    \/ \E h \in Handle :
          /\ pc[s] = "open"
          /\ Open(h, myConn[s])
          /\ myDli' = [myDli EXCEPT ![s] = h]
          /\ Goto(s, "info")
          /\ UNCHANGED <<myConn, closes, refused>>
    \/ Moves(s, "open", "undoAccess")

OpenDisk(s) ==
    \/ \E h \in Handle :
          /\ pc[s] = "open"
          /\ Open(h, myConn[s])
          /\ myDli' = [myDli EXCEPT ![s] = h]
          /\ Goto(s, "info")
          /\ UNCHANGED <<myConn, closes, refused>>
    \/ Moves(s, "open", "undoConnect")

\* When GetInfo fails the handle is not closed.
GetInfo(s) ==
    \/ Moves(s, "info", "ready")   \* info is there
    \/ Moves(s, "info", "undoConnect")

\* Mutated form of UndoConnect: it is done until it fails.
UndoConnectAgain(s) ==
    \/ /\ pc[s] = "undoConnect"
       /\ Disconnect(myConn[s])
       /\ UNCHANGED <<pc, myConn, myDli, closes, refused>>
    \/ Refusing(s, "undoConnect", "undoAccess")

\* The error paths: Disconnect and EndAccess, whose own errors are dropped.
UndoConnect(s) ==
    \/ /\ pc[s] = "undoConnect"
       /\ Disconnect(myConn[s])
       /\ Goto(s, "undoAccess")
       /\ UNCHANGED <<myConn, myDli, closes, refused>>
    \/ Refusing(s, "undoConnect", "undoAccess")

\* Mutated form of UndoAccess: the error path forgets EndAccess.
UndoAccessForgotten(s) == Moves(s, "undoAccess", "openFailed")

UndoAccess(s) ==
    \/ /\ pc[s] = "undoAccess"
       /\ EndAccess(KeyOf[s])
       /\ Goto(s, "openFailed")
       /\ UNCHANGED <<myConn, myDli, closes, refused>>
    \/ Refusing(s, "undoAccess", "openFailed")

-----------------------------------------------------------------------------
(* Close: Close, Disconnect, EndAccess; the first error ends it.           *)

\* io.Closer leaves a Close after a successful one undefined: there is none.
CallClose(s) ==
    /\ pc[s] \in {"ready", "closeFailed"}
    /\ closes[s] < Closes
    /\ closes' = [closes EXCEPT ![s] = @ + 1]
    /\ Goto(s, "close")
    /\ UNCHANGED <<libVars, myConn, myDli, refused>>

CloseDisk(s) ==
    \/ /\ pc[s] = "close"
       /\ Close(myDli[s])
       /\ Goto(s, "disconnect")
       /\ UNCHANGED <<myConn, myDli, closes, refused>>
    \/ Refusing(s, "close", "closeFailed")

\* Mutated form of CloseConnection: its error is dropped.
CloseConnectionGoesOn(s) ==
    \/ /\ pc[s] = "disconnect"
       /\ Disconnect(myConn[s])
       /\ Goto(s, "endAccess")
       /\ UNCHANGED <<myConn, myDli, closes, refused>>
    \/ Refusing(s, "disconnect", "endAccess")

CloseConnection(s) ==
    \/ /\ pc[s] = "disconnect"
       /\ Disconnect(myConn[s])
       /\ Goto(s, "endAccess")
       /\ UNCHANGED <<myConn, myDli, closes, refused>>
    \/ Refusing(s, "disconnect", "closeFailed")

CloseAccess(s) ==
    \/ /\ pc[s] = "endAccess"
       /\ EndAccess(KeyOf[s])
       /\ Goto(s, "closed")
       /\ UNCHANGED <<myConn, myDli, closes, refused>>
    \/ Refusing(s, "endAccess", "closeFailed")

Next ==
    \E s \in Session :
        \/ Prepare(s) \/ ConnectEx(s) \/ OpenDisk(s) \/ GetInfo(s)
        \/ UndoConnect(s) \/ UndoAccess(s)
        \/ CallClose(s) \/ CloseDisk(s) \/ CloseConnection(s) \/ CloseAccess(s)

Spec == Init /\ [][Next]_vars

-----------------------------------------------------------------------------
(* Properties.                                                             *)

Place == {"prepare", "connect", "open", "info", "undoConnect", "undoAccess", "openFailed",
          "ready", "close", "disconnect", "endAccess", "closed", "closeFailed"}

(* Types; what a session is about to use or to release is there.           *)
TypeOK ==
    /\ LibTypeOK
    /\ pc \in [Session -> Place]
    /\ myConn \in [Session -> Connection \cup {Nil}]
    /\ myDli \in [Session -> Handle \cup {Nil}]
    /\ closes \in [Session -> 0 .. Closes]
    /\ refused \in [Session -> SUBSET Place]
    /\ \A s \in Session :
          /\ pc[s] \in {"open", "info", "undoConnect", "ready", "close", "disconnect"} =>
                myConn[s] # Nil
          /\ pc[s] \in {"info", "ready", "close", "disconnect", "endAccess"} => myDli[s] # Nil

(* A session whose disk is open, or that made its PrepareForAccess and did *)
(* not come to EndAccess.                                                  *)
Holds(s) == pc[s] \notin {"prepare", "openFailed", "closed"}

(* An Open that failed and left the registration behind: its EndAccess was *)
(* refused, or its PrepareForAccess failed although it registered.         *)
Leaks(s) == pc[s] = "openFailed" /\ refused[s] \cap {"prepare", "undoAccess"} # {}

(* README.md: "Every PrepareForAccess call should have a matching          *)
(* EndAccess call": sessions of one virtual machine that open, fail and    *)
(* close side by side leave it registered once for each that still needs   *)
(* it, and for each Open that failed with a library call that left one.    *)
AccessMatched ==
    \A a \in Access :
        access[a] = Cardinality({s \in Session : KeyOf[s] = a /\ Holds(s)})
                    + Cardinality({s \in Session : KeyOf[s] = a /\ Leaks(s)})

(* An open handle is in use only over its live connection: a disk that     *)
(* Open returned works, whatever the sessions beside it do.                *)
ReadyDiskWorks ==
    \A s \in Session :
        pc[s] = "ready" =>
            /\ handle[myDli[s]] = "open" /\ via[myDli[s]] = myConn[s]
            /\ conn[myConn[s]] = "connected"
            /\ access[KeyOf[s]] > 0
            /\ \A r \in Session \ {s} : myDli[r] # myDli[s] /\ myConn[r] # myConn[s]

(* No connection is lost: each one that is connected belongs to a session  *)
(* that will disconnect it, or that was refused to.                        *)
ConnectionsAccounted ==
    \A c \in Connection :
        conn[c] = "connected" =>
            \E s \in Session :
                /\ myConn[s] = c
                /\ pc[s] \in {"open", "info", "undoConnect", "ready", "close",
                              "disconnect", "closeFailed"}
                   \/ "undoConnect" \in refused[s]

(* README.md, Close: "Clear up all the resources held."  When Close has    *)
(* returned nil, at the first call or at a repeated one, they are.         *)
ClosedMeansReleased ==
    \A s \in Session :
        pc[s] = "closed" =>
            handle[myDli[s]] = "closed" /\ conn[myConn[s]] = "disconnected"

(* Only a Close that is called again after it failed can release something *)
(* a second time.                                                          *)
TwiceOnlyWhenClosedAgain ==
    \A x \in twice : \E s \in Session : x \in {myConn[s], myDli[s]} /\ closes[s] > 1

-----------------------------------------------------------------------------
(* The promise, and how the state of this module shows it.                 *)

Failing(s) == pc[s] \in {"undoConnect", "undoAccess", "openFailed"}
Connected(s) == myConn[s] # Nil /\ conn[myConn[s]] = "connected"
Opened(s) == myDli[s] # Nil /\ handle[myDli[s]] = "open"

LeasePhase ==
    [s \in Session |->
        CASE pc[s] \in {"prepare", "connect", "open", "info"} -> "opening"
          [] Failing(s) -> "failing"
          [] pc[s] = "ready" -> "ready"
          [] OTHER -> "closing"]

\* A failing session goes by the step it is at, the others by what is live.
LeaseDepth ==
    [s \in Session |->
        IF ~Holds(s) THEN 0
        ELSE IF Failing(s) THEN IF pc[s] = "undoConnect" THEN 2 ELSE 1
        ELSE 1 + (IF Connected(s) THEN 1 ELSE 0) + (IF Opened(s) THEN 1 ELSE 0)]

LeaseLost ==
    [s \in Session |->
        {r \in {"access", "connection", "handle"} :
            /\ Failing(s)
            /\ r = "handle" => Opened(s)
            /\ r = "connection" => Connected(s) /\ pc[s] # "undoConnect"
            /\ r = "access" => Leaks(s)}]

Lease ==
    INSTANCE DiskLease WITH
        phase <- LeasePhase, depth <- LeaseDepth, lost <- LeaseLost, registered <- access

(* Each session's access, connection and handle are taken in order and     *)
(* given back in the opposite one, once each however often Close is called *)
(* after it failed, whatever the sessions of the same virtual machine do;  *)
(* what an open that fails does not give back is told exactly.             *)
ImplementsDiskLease == Lease!LeaseSpec

(* README.md, Open: "If failure happens in the set up stage, will roll     *)
(* back to initial state".                                                 *)
FailedOpenRollsBack ==
    \A s \in Session :
        pc[s] = "openFailed" /\ refused[s] = {} =>
            /\ myDli[s] # Nil => handle[myDli[s]] # "open"
            /\ myConn[s] # Nil => conn[myConn[s]] = "disconnected"
=============================================================================
