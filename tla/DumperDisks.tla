----------------------------- MODULE DumperDisks -----------------------------
(***************************************************************************)
(* The disks of a VadpDumper (dumper/dumper.go): OpenRemoteDisk,           *)
(* ReadLocalDisk and CreateLocalDisk connect and open, Cleanup releases.   *)
(* A caller may call them in any order and again after they failed; any    *)
(* disklib call may fail; the program may die between two of them.  The    *)
(* remote and the local disk have fields of their own, and their calls     *)
(* interleave here, which includes opening one after the other, as callers *)
(* do.  pc names the disklib call that comes next on each side, and in     *)
(* Cleanup.                                                                *)
(***************************************************************************)
EXTENDS VixDiskLib

CONSTANT Mode    \* the DumpMode values of interest

ASSUME ModeAssumption == Mode \subseteq {"blocks", "backup", "clone", "restore"}

Side == {"remote", "local"}

VARIABLES
    mode,         \* VadpDumper.DumpMode
    pc,           \* the next disklib call on a side and in Cleanup, or "idle"
    local,        \* the method called on the local side, or called last
    connect,      \* the fields remoteConnect and localConnect
    disk,         \* the fields remoteHandle and localHandle
    readHandle,   \* the dli of the field readHandle
    writeHandle,  \* the dli of the field writeHandle
    refused,      \* history: what disklib would not close or disconnect
    opened,       \* history: the sides connected and not given back since
    reopened,     \* history: a side was opened again while it was in opened
    current       \* history: which of readHandle, writeHandle were set since Cleanup

fields == <<connect, disk, readHandle, writeHandle>>
history == <<refused, opened, reopened, current>>
vars == <<libVars, mode, pc, local, fields, history>>

Empty == [s \in Side |-> Nil]
Idle == [p \in Side \cup {"cleanup"} |-> "idle"]

Init ==
    /\ LibInit
    /\ mode \in Mode
    /\ pc = Idle
    /\ local = "read"
    /\ connect = Empty
    /\ disk = Empty
    /\ readHandle = Nil
    /\ writeHandle = Nil
    /\ opened = {}
    /\ reopened = FALSE
    /\ current = {}
    /\ refused = {}

Goto(p, here, next) ==
    /\ pc[p] = here
    /\ pc' = [pc EXCEPT ![p] = next]

\* A disklib call that fails to make something, or that changes nothing here.
Moves(p, here, next) ==
    /\ Goto(p, here, next)
    /\ UNCHANGED <<libVars, mode, local, fields, history>>

-----------------------------------------------------------------------------
(* OpenRemoteDisk on the remote side, ReadLocalDisk or CreateLocalDisk on  *)
(* the local one.                                                          *)

CallOpen(s) ==
    /\ pc["cleanup"] = "idle"
    /\ Goto(s, "idle", "connect")
    /\ IF s = "local" THEN local' \in {"read", "create"} ELSE UNCHANGED local
    /\ UNCHANGED <<libVars, mode, fields, history>>

\* ConnectEx or Connect; the field is set at once.
ConnectDisk(s) ==
    \/ /\ Goto(s, "connect", IF s = "local" /\ local = "create" THEN "create" ELSE "open")
       /\ \E c \in Connection :
             /\ Connect(c)
             /\ connect' = [connect EXCEPT ![s] = c]
       /\ opened' = opened \cup {s}
       /\ reopened' = (reopened \/ s \in opened)
       /\ UNCHANGED <<mode, local, disk, readHandle, writeHandle, refused, current>>
    \/ Moves(s, "connect", "idle")

\* disklib.Create makes a file, which is all there is to it.
CreateDisk(s) ==
    \/ Moves(s, "create", "open")   \* the file is there
    \/ Moves(s, "create", "idle")

\* Where an error leads: only OpenRemoteDisk has deferred calls to undo.
AfterError(s, deferred) == IF s = "remote" THEN deferred ELSE "idle"

Opens(s) ==
    /\ Goto(s, "open", "info")
    /\ \E h \in Handle :
          /\ Open(h, connect[s])
          /\ disk' = [disk EXCEPT ![s] = h]
    /\ UNCHANGED <<mode, local, connect, readHandle, writeHandle, history>>

\* Mutated form of OpenDisk: a handle that was never opened is closed.
OpenDiskClosesNone(s) == Opens(s) \/ Moves(s, "open", AfterError(s, "undoOpen"))

OpenDisk(s) == Opens(s) \/ Moves(s, "open", AfterError(s, "undoConnect"))

\* The handle to read from, or to write to, that a method provides.
Provides(s) ==
    CASE s = "local" -> IF local = "read" THEN "read" ELSE "write"
      [] s = "remote" -> IF mode = "restore" THEN "write" ELSE "read"

Provide(s) ==
    /\ IF Provides(s) = "read"
       THEN readHandle' = disk[s] /\ UNCHANGED writeHandle
       ELSE writeHandle' = disk[s] /\ UNCHANGED readHandle
    /\ current' = current \cup {Provides(s)}
    /\ UNCHANGED <<libVars, mode, local, connect, disk, refused, opened, reopened>>

\* Mutated form of GetInfo: the handle is there before its info is.
GetInfoLate(s) ==
    /\ \E next \in {"idle", AfterError(s, "undoOpen")} : Goto(s, "info", next)
    /\ Provide(s)

\* GetInfo, and the handle that the methods make of it.
GetInfo(s) ==
    \/ Goto(s, "info", "idle") /\ Provide(s)
    \/ Moves(s, "info", AfterError(s, "undoOpen"))

\* Releasing x, or being refused to; either way the code goes on.
Release(x, released) ==
    \/ released /\ UNCHANGED refused
    \/ refused' = refused \cup {x} /\ UNCHANGED libVars

\* Mutated form of UndoOpen: the deferred Close is not there.
UndoOpenMissing == Moves("remote", "undoOpen", "undoConnect")

\* OpenRemoteDisk's deferred calls, last first; the fields stay set.
UndoOpen ==
    /\ Goto("remote", "undoOpen", "undoConnect")
    /\ Release(disk["remote"], Close(disk["remote"]))
    /\ UNCHANGED <<mode, local, fields, opened, reopened, current>>

\* Mutated form of UndoConnect: the deferred Disconnect is not there.
UndoConnectMissing ==
    /\ Goto("remote", "undoConnect", "idle")
    /\ opened' = opened \ {"remote"}
    /\ UNCHANGED <<libVars, mode, local, fields, refused, reopened, current>>

UndoConnect ==
    /\ Goto("remote", "undoConnect", "idle")
    /\ Release(connect["remote"], Disconnect(connect["remote"]))
    /\ opened' = opened \ {"remote"}
    /\ UNCHANGED <<mode, local, fields, reopened, current>>

-----------------------------------------------------------------------------
(* Cleanup: remote handle, remote connection, local handle, local          *)
(* connection, whichever field is set; no field is reset.                  *)

CallCleanup ==
    /\ pc = Idle
    /\ Goto("cleanup", "idle", "closeRemote")
    /\ current' = {}
    /\ UNCHANGED <<libVars, mode, local, fields, refused, opened, reopened>>

CleanupDisk(here, side, next) ==
    /\ Goto("cleanup", here, next)
    /\ IF disk[side] # Nil
       THEN Release(disk[side], Close(disk[side]))
       ELSE UNCHANGED <<libVars, refused>>
    /\ UNCHANGED <<mode, local, fields, opened, reopened, current>>

CleanupConnection(here, side, next) ==
    /\ Goto("cleanup", here, next)
    /\ IF connect[side] # Nil
       THEN Release(connect[side], Disconnect(connect[side]))
       ELSE UNCHANGED <<libVars, refused>>
    /\ opened' = opened \ {side}
    /\ UNCHANGED <<mode, local, fields, reopened, current>>

\* Mutated form of Cleanup: each connection goes before its disk.
CleanupConnectionFirst ==
    \/ CleanupConnection("closeRemote", "remote", "disconnectRemote")
    \/ CleanupDisk("disconnectRemote", "remote", "closeLocal")
    \/ CleanupConnection("closeLocal", "local", "disconnectLocal")
    \/ CleanupDisk("disconnectLocal", "local", "idle")

Cleanup ==
    \/ CleanupDisk("closeRemote", "remote", "disconnectRemote")
    \/ CleanupConnection("disconnectRemote", "remote", "closeLocal")
    \/ CleanupDisk("closeLocal", "local", "disconnectLocal")
    \/ CleanupConnection("disconnectLocal", "local", "idle")

-----------------------------------------------------------------------------
\* The program dies; a new one has a dumper of its own.
Crash ==
    /\ ProcessExit
    /\ mode' \in Mode
    /\ pc' = Idle
    /\ local' = "read"
    /\ connect' = Empty
    /\ disk' = Empty
    /\ readHandle' = Nil
    /\ writeHandle' = Nil
    /\ opened' = {}
    /\ reopened' = FALSE
    /\ current' = {}
    /\ UNCHANGED refused

Next ==
    \/ \E s \in Side :
          CallOpen(s) \/ ConnectDisk(s) \/ CreateDisk(s) \/ OpenDisk(s) \/ GetInfo(s)
    \/ UndoOpen \/ UndoConnect
    \/ CallCleanup \/ Cleanup
    \/ Crash

Spec == Init /\ [][Next]_vars

-----------------------------------------------------------------------------
(* Properties.                                                             *)

(* Types; what the code is about to use or to release is there.            *)
TypeOK ==
    /\ LibTypeOK
    /\ mode \in Mode
    /\ pc["cleanup"] \in {"idle", "closeRemote", "disconnectRemote", "closeLocal",
                          "disconnectLocal"}
    /\ local \in {"read", "create"}
    /\ connect \in [Side -> Connection \cup {Nil}]
    /\ disk \in [Side -> Handle \cup {Nil}]
    /\ {readHandle, writeHandle} \subseteq Handle \cup {Nil}
    /\ refused \subseteq Connection \cup Handle
    /\ opened \subseteq Side
    /\ reopened \in BOOLEAN
    /\ current \subseteq {"read", "write"}
    /\ \A s \in Side :
          /\ pc[s] \in {"idle", "connect", "create", "open", "info", "undoOpen", "undoConnect"}
          /\ pc[s] # "idle" => pc["cleanup"] = "idle"
          /\ pc[s] \in {"open", "info", "undoOpen", "undoConnect"} => connect[s] # Nil
          /\ pc[s] \in {"info", "undoOpen"} => disk[s] # Nil

Live == {c \in Connection : conn[c] = "connected"} \cup {h \in Handle : handle[h] = "open"}

(* No connection and no handle is lost: what is live is in a field, where  *)
(* Cleanup finds it, or was refused when it should have gone.  A caller    *)
(* must not open a side twice without Cleanup; OpenRemoteDisk may be       *)
(* called again when it failed, as it has undone what it did.              *)
NothingOrphaned ==
    ~reopened =>
        \A x \in Live :
            \/ \E s \in Side : x \in {connect[s], disk[s]}
            \/ x \in refused

(* After Cleanup, and after an OpenRemoteDisk that failed, nothing is live  *)
(* that was not refused; whatever failed before.                           *)
IdleMeansReleased ==
    ~reopened /\ pc = Idle /\ opened = {} => Live \subseteq refused

(* No handle outlives its connection: Close comes before Disconnect in     *)
(* Cleanup and among OpenRemoteDisk's deferred calls, however they fail,   *)
(* even for sides that were opened again.                                  *)
HandleOverLiveConnection ==
    \A h \in Handle :
        handle[h] = "open" => conn[via[h]] = "connected" \/ h \in refused

(* ReadFromVmdk and WriteToVmdk only ask whether there is a handle.  Up to *)
(* the next Cleanup the handle that a successful call provided is open,    *)
(* over its connection, though other calls may fail meanwhile.             *)
UsableUntilCleanup ==
    /\ "read" \in current =>
          handle[readHandle] = "open" /\ conn[via[readHandle]] = "connected"
    /\ "write" \in current =>
          handle[writeHandle] = "open" /\ conn[via[writeHandle]] = "connected"

(* README.md, Disconnect: "Destroy the rConn. Match to Connect.", and *)
(* Open "should have a matching VixDiskLib_Close": one of each, not two.   *)
NothingReleasedTwice == twice = {}
=============================================================================
