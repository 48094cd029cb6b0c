----------------------------- MODULE VixDiskLib -----------------------------
(***************************************************************************)
(* What pkg/disklib (gvddk_api.go over gvddk_c.c) holds on behalf of its   *)
(* callers: connections, disk handles, and the access registrations that   *)
(* PrepareForAccess makes for a virtual machine under an identity.  Each   *)
(* operator is the effect of one call that has an effect.                  *)
(*                                                                         *)
(* The library itself is outside src/.  Assumed of it: connections and     *)
(* handles are new at each call; registrations under one identity count;   *)
(* EndAccess takes one back, and does nothing when there is none.  A call  *)
(* that fails has no effect, but for PrepareForAccess, which may have      *)
(* registered the machine: dumper.go ends the access after it failed.      *)
(***************************************************************************)
EXTENDS Integers, FiniteSets

CONSTANTS
    Connection,  \* the VixDiskLibConnection values (bound: a connect needs a new one)
    Handle,      \* the VixDiskLibHandle values (bound: an open needs a new one)
    Access,      \* the virtual machine and identity of some ConnectParams
    Nil          \* no connection, no handle

ASSUME LibAssumption == Nil \notin Connection \cup Handle

VARIABLES
    conn,    \* each connection is unused, connected or disconnected
    handle,  \* each handle is unused, open or closed
    via,     \* the connection each handle was opened on
    access,  \* how many PrepareForAccess have not been matched by EndAccess
    twice    \* history: what was closed or disconnected when it already was

libVars == <<conn, handle, via, access, twice>>

LibInit ==
    /\ conn = [c \in Connection |-> "unused"]
    /\ handle = [h \in Handle |-> "unused"]
    /\ via = [h \in Handle |-> Nil]
    /\ access = [a \in Access |-> 0]
    /\ twice = {}

LibTypeOK ==
    /\ conn \in [Connection -> {"unused", "connected", "disconnected"}]
    /\ handle \in [Handle -> {"unused", "open", "closed"}]
    /\ via \in [Handle -> Connection \cup {Nil}]
    /\ access \in [Access -> Nat]
    /\ twice \subseteq Connection \cup Handle

PrepareForAccess(a) ==
    /\ access' = [access EXCEPT ![a] = @ + 1]
    /\ UNCHANGED <<conn, handle, via, twice>>

\* An error, with or without a registration.
PrepareFails(a) == UNCHANGED libVars \/ PrepareForAccess(a)

EndAccess(a) ==
    /\ access' = [access EXCEPT ![a] = IF @ > 0 THEN @ - 1 ELSE 0]
    /\ UNCHANGED <<conn, handle, via, twice>>

\* Connect and ConnectEx.
Connect(c) ==
    /\ conn[c] = "unused"
    /\ conn' = [conn EXCEPT ![c] = "connected"]
    /\ UNCHANGED <<handle, via, access, twice>>

Open(h, c) ==
    /\ handle[h] = "unused"
    /\ handle' = [handle EXCEPT ![h] = "open"]
    /\ via' = [via EXCEPT ![h] = c]
    /\ UNCHANGED <<conn, access, twice>>

Close(h) ==
    /\ handle' = [handle EXCEPT ![h] = "closed"]
    /\ twice' = IF handle[h] = "closed" THEN twice \cup {h} ELSE twice
    /\ UNCHANGED <<conn, via, access>>

Disconnect(c) ==
    /\ conn' = [conn EXCEPT ![c] = "disconnected"]
    /\ twice' = IF conn[c] = "disconnected" THEN twice \cup {c} ELSE twice
    /\ UNCHANGED <<handle, via, access>>

\* The process is gone: its connections and handles with it, the registrations
\* that the server keeps for the virtual machine not.
ProcessExit ==
    /\ conn' = [c \in Connection |-> IF conn[c] = "unused" THEN "unused" ELSE "disconnected"]
    /\ handle' = [h \in Handle |-> IF handle[h] = "unused" THEN "unused" ELSE "closed"]
    /\ UNCHANGED <<via, access, twice>>
=============================================================================
