-------------------------- MODULE DumperDisksProofs --------------------------
(* Proofs about DumperDisks, for every set of connections, handles and modes. *)
EXTENDS DumperDisks, TLAPS

USE LibAssumption, ModeAssumption

-----------------------------------------------------------------------------
(* The inductive invariant.                                                   *)

(* The places where a side has a connection that is not yet settled.          *)
AtWork == {"create", "open", "info", "undoOpen", "undoConnect"}

PcType == pc \in [Side \cup {"cleanup"} -> AtWork \cup {"idle", "connect", "closeRemote",
                     "disconnectRemote", "closeLocal", "disconnectLocal"}]

(* What the library has not given out is nowhere; a handle that was opened    *)
(* has its connection.                                                        *)
Unseen ==
    /\ \A c \in Connection :
          conn[c] = "unused" =>
             (\A s \in Side : connect[s] # c) /\ (\A h \in Handle : via[h] # c)
    /\ \A h \in Handle :
          IF handle[h] = "unused"
          THEN via[h] = Nil /\ \A s \in Side : disk[s] # h
          ELSE via[h] # Nil

(* The two sides have nothing in common.                                      *)
SidesApart ==
    \A s \in Side : \A r \in Side \ {s} :
        /\ connect[r] = connect[s] => connect[s] = Nil
        /\ disk[r] = disk[s] => disk[s] = Nil

(* Open, and nobody was refused to close it.                                  *)
Standing(h) == handle[h] = "open" /\ h \notin refused

(* No handle stands over the connection of a side.                            *)
Bare(s) == \A h \in Handle : Standing(h) => via[h] # connect[s]

(* Of the handles over a side's connection only that of the side can stand,   *)
(* and where the connection is about to be disconnected there is none.        *)
OwnHandle(s) ==
    /\ \A h \in Handle : Standing(h) /\ via[h] = connect[s] => h = disk[s]
    /\ pc[s] \in AtWork => connect[s] # Nil /\ conn[connect[s]] = "connected"
    /\ pc[s] \in {"create", "open"} => \A h \in Handle : via[h] # connect[s]
    /\ pc[s] \in {"info", "undoOpen"} =>
          disk[s] # Nil /\ handle[disk[s]] = "open" /\ via[disk[s]] = connect[s]
    /\ pc[s] = "undoConnect" => Bare(s)

(* Nothing is left of a side's handle or connection but what was refused.     *)
DiskSettled(s) == disk[s] # Nil => ~Standing(disk[s])
ConnectionSettled(s) ==
    connect[s] # Nil => conn[connect[s]] # "connected" \/ connect[s] \in refused

(* A side that is not opened, or is about to open, has nothing to lose.       *)
Settled(s) ==
    /\ pc[s] \in AtWork => s \in opened
    /\ ~reopened /\ pc[s] \in {"create", "open", "undoConnect"} => DiskSettled(s)
    /\ ~reopened /\ s \notin opened => DiskSettled(s) /\ ConnectionSettled(s)

(* Cleanup has closed a side's handle before it comes to the connection, and  *)
(* has the dumper for itself.                                                 *)
CleanupInOrder ==
    /\ pc["cleanup"] = "disconnectRemote" => Bare("remote") /\ DiskSettled("remote")
    /\ pc["cleanup"] = "disconnectLocal" => Bare("local") /\ DiskSettled("local")
    /\ pc["cleanup"] # "idle" => current = {}

(* A handle that was provided is none that is still being opened, and its     *)
(* connection none that may be undone.                                        *)
Untouched(h) ==
    /\ h # Nil /\ handle[h] = "open" /\ conn[via[h]] = "connected"
    /\ \A s \in Side :
          /\ pc[s] \in AtWork => via[h] # connect[s]
          /\ pc[s] \in {"info", "undoOpen"} => h # disk[s]

Provided ==
    /\ "read" \in current => Untouched(readHandle)
    /\ "write" \in current => Untouched(writeHandle)

DisksInv ==
    /\ TypeOK /\ PcType /\ Unseen /\ SidesApart /\ HandleOverLiveConnection
    /\ \A s \in Side : OwnHandle(s) /\ Settled(s)
    /\ CleanupInOrder /\ Provided

-----------------------------------------------------------------------------
(* Each action keeps it.                                                      *)

(* A method starts: nothing is asked of the library yet.                     *)
LEMMA CallOpenKeeps ==
    ASSUME DisksInv, NEW s \in Side, CallOpen(s)
    PROVE  DisksInv'
<1>0. /\ TypeOK /\ PcType /\ Unseen /\ SidesApart /\ HandleOverLiveConnection
      /\ \A q \in Side : OwnHandle(q) /\ Settled(q)
      /\ CleanupInOrder /\ Provided
  BY DEF DisksInv
<1> USE DEF CallOpen, Moves, Goto, libVars, fields, history,
            TypeOK, LibTypeOK, PcType, AtWork, Side
<1>1. LibTypeOK' /\ PcType'
  BY <1>0
<1>2. TypeOK'
  BY <1>0, <1>1 DEF OwnHandle
<1>3. Unseen'
  BY <1>0 DEF Unseen
<1>4. SidesApart'
  BY <1>0 DEF SidesApart, Unseen
<1>5. HandleOverLiveConnection'
  BY <1>0 DEF HandleOverLiveConnection, Unseen, OwnHandle, Bare, Standing,
         CleanupInOrder, SidesApart
<1>6. \A q \in Side : OwnHandle(q)'
  BY <1>0 DEF OwnHandle, Bare, Standing, Unseen, SidesApart, CleanupInOrder
<1>7. \A q \in Side : Settled(q)'
  BY <1>0 DEF Settled, DiskSettled, ConnectionSettled, Standing, Unseen, SidesApart,
         OwnHandle, CleanupInOrder
<1>8. CleanupInOrder'
  BY <1>0 DEF CleanupInOrder, Bare, DiskSettled, Standing, OwnHandle, SidesApart
<1>9. Provided'
  BY <1>0 DEF Provided, Untouched, Unseen, SidesApart, OwnHandle, CleanupInOrder
<1> QED
  BY <1>1, <1>2, <1>3, <1>4, <1>5, <1>6, <1>7, <1>8, <1>9 DEF DisksInv

(* The new connection was unused, so no handle and no other side has it.     *)
LEMMA ConnectDiskKeeps ==
    ASSUME DisksInv, NEW s \in Side, ConnectDisk(s)
    PROVE  DisksInv'
<1>0. /\ TypeOK /\ PcType /\ Unseen /\ SidesApart /\ HandleOverLiveConnection
      /\ \A q \in Side : OwnHandle(q) /\ Settled(q)
      /\ CleanupInOrder /\ Provided
  BY DEF DisksInv
<1> USE DEF ConnectDisk, Connect, Moves, Goto, libVars, fields, history,
            TypeOK, LibTypeOK, PcType, AtWork, Side
<1>1. LibTypeOK' /\ PcType'
  BY <1>0
<1>2. TypeOK'
  <2>1. /\ mode' \in Mode /\ local' \in {"read", "create"}
        /\ connect' \in [Side -> Connection \cup {Nil}] /\ disk' \in [Side -> Handle \cup {Nil}]
        /\ {readHandle', writeHandle'} \subseteq Handle \cup {Nil}
    BY <1>0 DEF OwnHandle
  <2>2. /\ refused' \subseteq Connection \cup Handle /\ opened' \subseteq Side
        /\ reopened' \in BOOLEAN /\ current' \subseteq {"read", "write"}
    BY <1>0
  <2>3. pc'["cleanup"] \in {"idle", "closeRemote", "disconnectRemote", "closeLocal",
                            "disconnectLocal"}
    BY <1>0
  <2>4. \A q \in Side :
           /\ pc'[q] \in {"idle", "connect", "create", "open", "info", "undoOpen", "undoConnect"}
           /\ pc'[q] # "idle" => pc'["cleanup"] = "idle"
    BY <1>0
  <2>5. \A q \in Side :
           /\ pc'[q] \in {"open", "info", "undoOpen", "undoConnect"} => connect'[q] # Nil
           /\ pc'[q] \in {"info", "undoOpen"} => disk'[q] # Nil
    BY <1>0 DEF OwnHandle
  <2> QED
    BY <1>1, <2>1, <2>2, <2>3, <2>4, <2>5
<1>3. Unseen'
  BY <1>0 DEF Unseen
<1>4. SidesApart'
  BY <1>0 DEF SidesApart, Unseen
<1>5. HandleOverLiveConnection'
  BY <1>0 DEF HandleOverLiveConnection, Unseen, OwnHandle, Bare, Standing,
         CleanupInOrder, SidesApart
<1>6. \A q \in Side : OwnHandle(q)'
  BY <1>0 DEF OwnHandle, Bare, Standing, Unseen, SidesApart, CleanupInOrder
<1>7. ASSUME NEW q \in Side PROVE Settled(q)'
  <2>1. CASE pc'[s] = "idle"
    BY <1>0, <2>1 DEF Settled, DiskSettled, ConnectionSettled, Standing
  <2>2. CASE pc'[s] # "idle" /\ q = s
    BY <1>0, <2>2 DEF Settled, DiskSettled, ConnectionSettled, Standing
  <2>3. CASE pc'[s] # "idle" /\ q # s
    <3>1. /\ pc'[q] = pc[q] /\ connect'[q] = connect[q] /\ (q \in opened' <=> q \in opened)
          /\ connect[q] # Nil /\ conn[connect[q]] # "connected" =>
                conn'[connect[q]] # "connected"
          /\ UNCHANGED <<disk, handle, refused>> /\ (reopened => reopened')
      BY <1>0, <2>3 DEF Unseen
    <3> QED
      BY ONLY <1>0, <3>1 DEF Settled, DiskSettled, ConnectionSettled, Standing
  <2> QED
    BY <2>1, <2>2, <2>3
<1>8. CleanupInOrder'
  BY <1>0 DEF CleanupInOrder, Bare, DiskSettled, Standing, OwnHandle, SidesApart
<1>9. Provided'
  BY <1>0 DEF Provided, Untouched, Unseen, SidesApart, OwnHandle, CleanupInOrder
<1> QED
  BY <1>1, <1>2, <1>3, <1>4, <1>5, <1>6, <1>7, <1>8, <1>9 DEF DisksInv

(* A file is made or not: nothing is open over the side's connection yet.    *)
LEMMA CreateDiskKeeps ==
    ASSUME DisksInv, NEW s \in Side, CreateDisk(s)
    PROVE  DisksInv'
<1>0. /\ TypeOK /\ PcType /\ Unseen /\ SidesApart /\ HandleOverLiveConnection
      /\ \A q \in Side : OwnHandle(q) /\ Settled(q)
      /\ CleanupInOrder /\ Provided
  BY DEF DisksInv
<1> USE DEF CreateDisk, AfterError, Moves, Goto, libVars, fields, history,
            TypeOK, LibTypeOK, PcType, AtWork, Side
<1>1. LibTypeOK' /\ PcType'
  BY <1>0
<1>2. TypeOK'
  <2>1. /\ mode' \in Mode /\ local' \in {"read", "create"}
        /\ connect' \in [Side -> Connection \cup {Nil}] /\ disk' \in [Side -> Handle \cup {Nil}]
        /\ {readHandle', writeHandle'} \subseteq Handle \cup {Nil}
    BY <1>0 DEF OwnHandle
  <2>2. /\ refused' \subseteq Connection \cup Handle /\ opened' \subseteq Side
        /\ reopened' \in BOOLEAN /\ current' \subseteq {"read", "write"}
    BY <1>0
  <2>3. pc'["cleanup"] \in {"idle", "closeRemote", "disconnectRemote", "closeLocal",
                            "disconnectLocal"}
    BY <1>0
  <2>4. \A q \in Side :
           /\ pc'[q] \in {"idle", "connect", "create", "open", "info", "undoOpen", "undoConnect"}
           /\ pc'[q] # "idle" => pc'["cleanup"] = "idle"
    BY <1>0
  <2>5. \A q \in Side :
           /\ pc'[q] \in {"open", "info", "undoOpen", "undoConnect"} => connect'[q] # Nil
           /\ pc'[q] \in {"info", "undoOpen"} => disk'[q] # Nil
    BY <1>0 DEF OwnHandle
  <2> QED
    BY <1>1, <2>1, <2>2, <2>3, <2>4, <2>5
<1>3. Unseen'
  BY <1>0 DEF Unseen
<1>4. SidesApart'
  BY <1>0 DEF SidesApart, Unseen
<1>5. HandleOverLiveConnection'
  BY <1>0 DEF HandleOverLiveConnection, Unseen, OwnHandle, Bare, Standing,
         CleanupInOrder, SidesApart
<1>6. \A q \in Side : OwnHandle(q)'
  BY <1>0 DEF OwnHandle, Bare, Standing, Unseen, SidesApart, CleanupInOrder
<1>7. \A q \in Side : Settled(q)'
  BY <1>0 DEF Settled, DiskSettled, ConnectionSettled, Standing, Unseen, SidesApart,
         OwnHandle, CleanupInOrder
<1>8. CleanupInOrder'
  BY <1>0 DEF CleanupInOrder, Bare, DiskSettled, Standing, OwnHandle, SidesApart
<1>9. Provided'
  BY <1>0 DEF Provided, Untouched, Unseen, SidesApart, OwnHandle, CleanupInOrder
<1> QED
  BY <1>1, <1>2, <1>3, <1>4, <1>5, <1>6, <1>7, <1>8, <1>9 DEF DisksInv

(* The new handle is the side's, and the first one over its connection.      *)
LEMMA OpenDiskKeeps ==
    ASSUME DisksInv, NEW s \in Side, OpenDisk(s)
    PROVE  DisksInv'
<1>0. /\ TypeOK /\ PcType /\ Unseen /\ SidesApart /\ HandleOverLiveConnection
      /\ \A q \in Side : OwnHandle(q) /\ Settled(q)
      /\ CleanupInOrder /\ Provided
  BY DEF DisksInv
<1> USE DEF OpenDisk, Opens, Open, AfterError, Moves, Goto, libVars, fields, history,
            TypeOK, LibTypeOK, PcType, AtWork, Side
<1>1. LibTypeOK' /\ PcType'
  BY <1>0
<1>2. TypeOK'
  <2>1. /\ mode' \in Mode /\ local' \in {"read", "create"}
        /\ connect' \in [Side -> Connection \cup {Nil}] /\ disk' \in [Side -> Handle \cup {Nil}]
        /\ {readHandle', writeHandle'} \subseteq Handle \cup {Nil}
    BY <1>0 DEF OwnHandle
  <2>2. /\ refused' \subseteq Connection \cup Handle /\ opened' \subseteq Side
        /\ reopened' \in BOOLEAN /\ current' \subseteq {"read", "write"}
    BY <1>0
  <2>3. pc'["cleanup"] \in {"idle", "closeRemote", "disconnectRemote", "closeLocal",
                            "disconnectLocal"}
    BY <1>0
  <2>4. \A q \in Side :
           /\ pc'[q] \in {"idle", "connect", "create", "open", "info", "undoOpen", "undoConnect"}
           /\ pc'[q] # "idle" => pc'["cleanup"] = "idle"
    BY <1>0
  <2>5. \A q \in Side :
           /\ pc'[q] \in {"open", "info", "undoOpen", "undoConnect"} => connect'[q] # Nil
           /\ pc'[q] \in {"info", "undoOpen"} => disk'[q] # Nil
    BY <1>0 DEF OwnHandle
  <2> QED
    BY <1>1, <2>1, <2>2, <2>3, <2>4, <2>5
<1>3. Unseen'
  BY <1>0 DEF Unseen
<1>4. SidesApart'
  BY <1>0 DEF SidesApart, Unseen
<1>5. HandleOverLiveConnection'
  BY <1>0 DEF HandleOverLiveConnection, Unseen, OwnHandle, Bare, Standing,
         CleanupInOrder, SidesApart
<1>6. \A q \in Side : OwnHandle(q)'
  BY <1>0 DEF OwnHandle, Bare, Standing, Unseen, SidesApart, CleanupInOrder
<1>7. \A q \in Side : Settled(q)'
  BY <1>0 DEF Settled, DiskSettled, ConnectionSettled, Standing, Unseen, SidesApart,
         OwnHandle, CleanupInOrder
<1>8. CleanupInOrder'
  BY <1>0 DEF CleanupInOrder, Bare, DiskSettled, Standing, OwnHandle, SidesApart
<1>9. Provided'
  BY <1>0 DEF Provided, Untouched, Unseen, SidesApart, OwnHandle, CleanupInOrder
<1> QED
  BY <1>1, <1>2, <1>3, <1>4, <1>5, <1>6, <1>7, <1>8, <1>9 DEF DisksInv

(* The handle that is provided is open over the side's live connection.      *)
LEMMA GetInfoKeeps ==
    ASSUME DisksInv, NEW s \in Side, GetInfo(s)
    PROVE  DisksInv'
<1>0. /\ TypeOK /\ PcType /\ Unseen /\ SidesApart /\ HandleOverLiveConnection
      /\ \A q \in Side : OwnHandle(q) /\ Settled(q)
      /\ CleanupInOrder /\ Provided
  BY DEF DisksInv
<1> USE DEF GetInfo, Provide, Provides, AfterError, Moves, Goto, libVars, fields, history,
            TypeOK, LibTypeOK, PcType, AtWork, Side
<1>1. LibTypeOK' /\ PcType'
  BY <1>0
<1>2. TypeOK'
  BY <1>0, <1>1 DEF OwnHandle
<1>3. Unseen'
  BY <1>0 DEF Unseen
<1>4. SidesApart'
  BY <1>0 DEF SidesApart, Unseen
<1>5. HandleOverLiveConnection'
  BY <1>0 DEF HandleOverLiveConnection, Unseen, OwnHandle, Bare, Standing,
         CleanupInOrder, SidesApart
<1>6. \A q \in Side : OwnHandle(q)'
  BY <1>0 DEF OwnHandle, Bare, Standing, Unseen, SidesApart, CleanupInOrder
<1>7. \A q \in Side : Settled(q)'
  BY <1>0 DEF Settled, DiskSettled, ConnectionSettled, Standing, Unseen, SidesApart,
         OwnHandle, CleanupInOrder
<1>8. CleanupInOrder'
  BY <1>0 DEF CleanupInOrder, Bare, DiskSettled, Standing, OwnHandle, SidesApart
<1>9. Provided'
  BY <1>0 DEF Provided, Untouched, Unseen, SidesApart, OwnHandle, CleanupInOrder
<1> QED
  BY <1>1, <1>2, <1>3, <1>4, <1>5, <1>6, <1>7, <1>8, <1>9 DEF DisksInv

(* The handle that goes was never provided.                                  *)
LEMMA UndoOpenKeeps ==
    ASSUME DisksInv, UndoOpen
    PROVE  DisksInv'
<1>0. /\ TypeOK /\ PcType /\ Unseen /\ SidesApart /\ HandleOverLiveConnection
      /\ \A q \in Side : OwnHandle(q) /\ Settled(q)
      /\ CleanupInOrder /\ Provided
  BY DEF DisksInv
<1> USE DEF UndoOpen, Release, Close, Moves, Goto, libVars, fields, history,
            TypeOK, LibTypeOK, PcType, AtWork, Side
<1>1. LibTypeOK' /\ PcType'
  BY <1>0
<1>2. TypeOK'
  BY <1>0, <1>1 DEF OwnHandle
<1>3. Unseen'
  BY <1>0 DEF Unseen
<1>4. SidesApart'
  BY <1>0 DEF SidesApart, Unseen
<1>5. HandleOverLiveConnection'
  BY <1>0 DEF HandleOverLiveConnection, Unseen, OwnHandle, Bare, Standing,
         CleanupInOrder, SidesApart
<1>6. \A q \in Side : OwnHandle(q)'
  BY <1>0 DEF OwnHandle, Bare, Standing, Unseen, SidesApart, CleanupInOrder
<1>7. \A q \in Side : Settled(q)'
  BY <1>0 DEF Settled, DiskSettled, ConnectionSettled, Standing, Unseen, SidesApart,
         OwnHandle, CleanupInOrder
<1>8. CleanupInOrder'
  BY <1>0 DEF CleanupInOrder, Bare, DiskSettled, Standing, OwnHandle, SidesApart
<1>9. Provided'
  BY <1>0 DEF Provided, Untouched, Unseen, SidesApart, OwnHandle, CleanupInOrder
<1> QED
  BY <1>1, <1>2, <1>3, <1>4, <1>5, <1>6, <1>7, <1>8, <1>9 DEF DisksInv

(* The connection that goes has no open handle any more.                     *)
LEMMA UndoConnectKeeps ==
    ASSUME DisksInv, UndoConnect
    PROVE  DisksInv'
<1>0. /\ TypeOK /\ PcType /\ Unseen /\ SidesApart /\ HandleOverLiveConnection
      /\ \A q \in Side : OwnHandle(q) /\ Settled(q)
      /\ CleanupInOrder /\ Provided
  BY DEF DisksInv
<1> USE DEF UndoConnect, Release, Disconnect, Moves, Goto, libVars, fields, history,
            TypeOK, LibTypeOK, PcType, AtWork, Side
<1>1. LibTypeOK' /\ PcType'
  BY <1>0
<1>2. TypeOK'
  BY <1>0, <1>1 DEF OwnHandle
<1>3. Unseen'
  BY <1>0 DEF Unseen
<1>4. SidesApart'
  BY <1>0 DEF SidesApart, Unseen
<1>5. HandleOverLiveConnection'
  BY <1>0 DEF HandleOverLiveConnection, Unseen, OwnHandle, Bare, Standing,
         CleanupInOrder, SidesApart
<1>6. \A q \in Side : OwnHandle(q)'
  BY <1>0 DEF OwnHandle, Bare, Standing, Unseen, SidesApart, CleanupInOrder
<1>7. \A q \in Side : Settled(q)'
  BY <1>0 DEF Settled, DiskSettled, ConnectionSettled, Standing, Unseen, SidesApart,
         OwnHandle, CleanupInOrder
<1>8. CleanupInOrder'
  BY <1>0 DEF CleanupInOrder, Bare, DiskSettled, Standing, OwnHandle, SidesApart
<1>9. Provided'
  BY <1>0 DEF Provided, Untouched, Unseen, SidesApart, OwnHandle, CleanupInOrder
<1> QED
  BY <1>1, <1>2, <1>3, <1>4, <1>5, <1>6, <1>7, <1>8, <1>9 DEF DisksInv

(* Cleanup begins when both sides are idle, and takes back what was provided.*)
LEMMA CallCleanupKeeps ==
    ASSUME DisksInv, CallCleanup
    PROVE  DisksInv'
<1>0. /\ TypeOK /\ PcType /\ Unseen /\ SidesApart /\ HandleOverLiveConnection
      /\ \A q \in Side : OwnHandle(q) /\ Settled(q)
      /\ CleanupInOrder /\ Provided
  BY DEF DisksInv
<1> USE DEF CallCleanup, Idle, Moves, Goto, libVars, fields, history,
            TypeOK, LibTypeOK, PcType, AtWork, Side
<1>1. LibTypeOK' /\ PcType'
  BY <1>0
<1>2. TypeOK'
  BY <1>0, <1>1 DEF OwnHandle
<1>3. Unseen'
  BY <1>0 DEF Unseen
<1>4. SidesApart'
  BY <1>0 DEF SidesApart, Unseen
<1>5. HandleOverLiveConnection'
  BY <1>0 DEF HandleOverLiveConnection, Unseen, OwnHandle, Bare, Standing,
         CleanupInOrder, SidesApart
<1>6. \A q \in Side : OwnHandle(q)'
  BY <1>0 DEF OwnHandle, Bare, Standing, Unseen, SidesApart, CleanupInOrder
<1>7. \A q \in Side : Settled(q)'
  BY <1>0 DEF Settled, DiskSettled, ConnectionSettled, Standing, Unseen, SidesApart,
         OwnHandle, CleanupInOrder
<1>8. CleanupInOrder'
  BY <1>0 DEF CleanupInOrder, Bare, DiskSettled, Standing, OwnHandle, SidesApart
<1>9. Provided'
  BY <1>0 DEF Provided, Untouched, Unseen, SidesApart, OwnHandle, CleanupInOrder
<1> QED
  BY <1>1, <1>2, <1>3, <1>4, <1>5, <1>6, <1>7, <1>8, <1>9 DEF DisksInv

(* Each side's handle goes, and then its connection, which has no other.     *)
LEMMA CleanupKeeps ==
    ASSUME DisksInv, Cleanup
    PROVE  DisksInv'
<1>0. /\ TypeOK /\ PcType /\ Unseen /\ SidesApart /\ HandleOverLiveConnection
      /\ \A q \in Side : OwnHandle(q) /\ Settled(q)
      /\ CleanupInOrder /\ Provided
  BY DEF DisksInv
<1> USE DEF Cleanup, CleanupDisk, CleanupConnection, Release, Close, Disconnect, Moves, Goto,
            libVars, fields, history, TypeOK, LibTypeOK, PcType, AtWork, Side
<1>1. LibTypeOK' /\ PcType'
  BY <1>0
<1>2. TypeOK'
  <2>1. /\ mode' \in Mode /\ local' \in {"read", "create"}
        /\ connect' \in [Side -> Connection \cup {Nil}] /\ disk' \in [Side -> Handle \cup {Nil}]
        /\ {readHandle', writeHandle'} \subseteq Handle \cup {Nil}
    BY <1>0 DEF OwnHandle
  <2>2. /\ refused' \subseteq Connection \cup Handle /\ opened' \subseteq Side
        /\ reopened' \in BOOLEAN /\ current' \subseteq {"read", "write"}
    <3>1. PICK q \in Side : refused' \subseteq refused \cup ({connect[q], disk[q]} \ {Nil})
      BY <1>0
    <3>2. {connect[q], disk[q]} \ {Nil} \subseteq Connection \cup Handle
      BY <1>0
    <3>3. refused' \subseteq Connection \cup Handle
      BY <1>0, <3>1, <3>2
    <3> QED
      BY <1>0, <3>3
  <2>3. pc'["cleanup"] \in {"idle", "closeRemote", "disconnectRemote", "closeLocal",
                            "disconnectLocal"}
    BY <1>0
  <2>4. \A q \in Side :
           /\ pc'[q] \in {"idle", "connect", "create", "open", "info", "undoOpen", "undoConnect"}
           /\ pc'[q] # "idle" => pc'["cleanup"] = "idle"
    BY <1>0
  <2>5. \A q \in Side :
           /\ pc'[q] \in {"open", "info", "undoOpen", "undoConnect"} => connect'[q] # Nil
           /\ pc'[q] \in {"info", "undoOpen"} => disk'[q] # Nil
    BY <1>0 DEF OwnHandle
  <2> QED
    BY <1>1, <2>1, <2>2, <2>3, <2>4, <2>5
<1>3. Unseen'
  BY <1>0 DEF Unseen
<1>4. SidesApart'
  BY <1>0 DEF SidesApart, Unseen
<1>5. HandleOverLiveConnection'
  BY <1>0 DEF HandleOverLiveConnection, Unseen, OwnHandle, Bare, Standing,
         CleanupInOrder, SidesApart
<1>6. \A q \in Side : OwnHandle(q)'
  BY <1>0 DEF OwnHandle, Bare, Standing, Unseen, SidesApart, CleanupInOrder
<1>7. \A q \in Side : Settled(q)'
  BY <1>0 DEF Settled, DiskSettled, ConnectionSettled, Standing, Unseen, SidesApart,
         OwnHandle, CleanupInOrder
<1>8. CleanupInOrder'
  <2>1. CASE CleanupDisk("closeRemote", "remote", "disconnectRemote")
    BY <1>0, <2>1 DEF CleanupInOrder, Bare, DiskSettled, Standing, OwnHandle
  <2>2. CASE CleanupConnection("disconnectRemote", "remote", "closeLocal")
    BY <1>0, <2>2 DEF CleanupInOrder
  <2>3. CASE CleanupDisk("closeLocal", "local", "disconnectLocal")
    BY <1>0, <2>3 DEF CleanupInOrder, Bare, DiskSettled, Standing, OwnHandle
  <2>4. CASE CleanupConnection("disconnectLocal", "local", "idle")
    BY <1>0, <2>4 DEF CleanupInOrder
  <2> QED
    BY <2>1, <2>2, <2>3, <2>4
<1>9. Provided'
  BY <1>0 DEF Provided, Untouched, Unseen, SidesApart, OwnHandle, CleanupInOrder
<1> QED
  BY <1>1, <1>2, <1>3, <1>4, <1>5, <1>6, <1>7, <1>8, <1>9 DEF DisksInv

(* A crash takes everything.                                                 *)
LEMMA CrashKeeps ==
    ASSUME DisksInv, Crash
    PROVE  DisksInv'
<1>0. /\ TypeOK /\ PcType /\ Unseen /\ SidesApart /\ HandleOverLiveConnection
      /\ \A q \in Side : OwnHandle(q) /\ Settled(q)
      /\ CleanupInOrder /\ Provided
  BY DEF DisksInv
<1> USE DEF Crash, ProcessExit, Idle, Empty, Moves, Goto, libVars, fields, history,
            TypeOK, LibTypeOK, PcType, AtWork, Side
<1>1. LibTypeOK' /\ PcType'
  BY <1>0
<1>2. TypeOK'
  BY <1>0, <1>1 DEF OwnHandle
<1>3. Unseen'
  BY <1>0 DEF Unseen
<1>4. SidesApart'
  BY <1>0 DEF SidesApart, Unseen
<1>5. HandleOverLiveConnection'
  BY <1>0 DEF HandleOverLiveConnection, Unseen, OwnHandle, Bare, Standing,
         CleanupInOrder, SidesApart
<1>6. \A q \in Side : OwnHandle(q)'
  BY <1>0 DEF OwnHandle, Bare, Standing, Unseen, SidesApart, CleanupInOrder
<1>7. \A q \in Side : Settled(q)'
  BY <1>0 DEF Settled, DiskSettled, ConnectionSettled, Standing, Unseen, SidesApart,
         OwnHandle, CleanupInOrder
<1>8. CleanupInOrder'
  BY <1>0 DEF CleanupInOrder, Bare, DiskSettled, Standing, OwnHandle, SidesApart
<1>9. Provided'
  BY <1>0 DEF Provided, Untouched, Unseen, SidesApart, OwnHandle, CleanupInOrder
<1> QED
  BY <1>1, <1>2, <1>3, <1>4, <1>5, <1>6, <1>7, <1>8, <1>9 DEF DisksInv

-----------------------------------------------------------------------------
(* So the invariant holds in every state.                                     *)
LEMMA DisksInvInit == Init => DisksInv
<1> SUFFICES ASSUME Init PROVE DisksInv
  OBVIOUS
<1> USE DEF Init, LibInit, Idle, Empty, Side
<1>1. TypeOK /\ PcType
  BY DEF TypeOK, LibTypeOK, PcType, AtWork
<1>2. Unseen /\ SidesApart /\ HandleOverLiveConnection
  BY DEF Unseen, SidesApart, HandleOverLiveConnection
<1>3. \A s \in Side : OwnHandle(s) /\ Settled(s)
  BY DEF OwnHandle, Standing, AtWork, Settled, DiskSettled, ConnectionSettled
<1>4. CleanupInOrder /\ Provided
  BY DEF CleanupInOrder, Provided
<1> QED
  BY <1>1, <1>2, <1>3, <1>4 DEF DisksInv

(* The invariant is kept by every step.                                       *)
LEMMA DisksInvNext == DisksInv /\ [Next]_vars => DisksInv'
<1> SUFFICES ASSUME DisksInv, [Next]_vars PROVE DisksInv'
  OBVIOUS
<1>1. CASE UNCHANGED vars
  BY <1>1 DEF vars, libVars, fields, history, DisksInv, TypeOK, LibTypeOK, PcType, Unseen,
              SidesApart, HandleOverLiveConnection, OwnHandle, Bare, Standing, Settled,
              DiskSettled, ConnectionSettled, CleanupInOrder, Provided, Untouched
<1>2. CASE Next
  BY <1>2, CallOpenKeeps, ConnectDiskKeeps, CreateDiskKeeps, OpenDiskKeeps, GetInfoKeeps,
     UndoOpenKeeps, UndoConnectKeeps, CallCleanupKeeps, CleanupKeeps, CrashKeeps DEF Next
<1> QED
  BY <1>1, <1>2

(* The invariant holds in every state.                                        *)
LEMMA AlwaysDisksInv == Spec => []DisksInv
  BY DisksInvInit, DisksInvNext, PTL DEF Spec

(* Types, and that no Nil is used or released.                                *)
THEOREM TypeCorrect == Spec => []TypeOK
<1>1. DisksInv => TypeOK
  BY DEF DisksInv
<1> QED
  BY <1>1, AlwaysDisksInv, PTL

(* No handle outlives its connection, but one that would not be closed.       *)
THEOREM ClosedBeforeDisconnected == Spec => []HandleOverLiveConnection
<1>1. DisksInv => HandleOverLiveConnection
  BY DEF DisksInv
<1> QED
  BY <1>1, AlwaysDisksInv, PTL

(* The handle that ReadFromVmdk or WriteToVmdk uses is open over a live       *)
(* connection from the call that provided it to the next Cleanup.             *)
THEOREM Usable == Spec => []UsableUntilCleanup
<1>1. DisksInv => UsableUntilCleanup
  BY DEF DisksInv, Provided, Untouched, UsableUntilCleanup
<1> QED
  BY <1>1, AlwaysDisksInv, PTL

(* What is live is in the field that Cleanup looks for it in.                 *)
Findable ==
    ~reopened =>
        /\ \A c \in Connection :
              conn[c] = "connected" => (\E s \in Side : connect[s] = c) \/ c \in refused
        /\ \A h \in Handle : Standing(h) => \E s \in Side : disk[s] = h

(* A step overwrites only a field whose value was released or refused, and    *)
(* puts what it gets into a field.                                            *)
LEMMA FindableNext == DisksInv /\ Findable /\ [Next]_vars => Findable'
<1> SUFFICES ASSUME DisksInv, Findable, [Next]_vars PROVE Findable'
  OBVIOUS
<1>0. /\ TypeOK /\ PcType /\ Unseen
      /\ \A s \in Side : Settled(s)
  BY DEF DisksInv
<1> USE DEF Findable, Standing, Goto, Moves, libVars, fields, history
<1>1. CASE UNCHANGED vars
  BY <1>1 DEF vars
<1>2. ASSUME NEW s \in Side, CallOpen(s) \/ CreateDisk(s) \/ GetInfo(s) PROVE Findable'
  BY <1>2 DEF CallOpen, CreateDisk, GetInfo, Provide
<1>3. ASSUME NEW s \in Side, ConnectDisk(s) PROVE Findable'
  <2>1. CASE pc'[s] = "idle"
    BY <1>0, <1>3, <2>1 DEF ConnectDisk, PcType, Side
  <2>2. CASE pc'[s] # "idle"   \* unless s was opened already, its old connection is settled
    <3> SUFFICES ASSUME ~reopened'
                 PROVE  /\ \A c \in Connection : conn'[c] = "connected" =>
                              (\E q \in Side : connect'[q] = c) \/ c \in refused
                        /\ UNCHANGED <<handle, refused, disk>>
      BY <1>3, <2>2 DEF ConnectDisk, Connect
    <3>1. ~reopened /\ s \notin opened /\ UNCHANGED <<handle, refused, disk>>
      BY <1>0, <1>3, <2>2 DEF ConnectDisk, Connect, PcType, Side
    <3>2. PICK c0 \in Connection : Connect(c0) /\ connect' = [connect EXCEPT ![s] = c0]
      BY <1>0, <1>3, <2>2 DEF ConnectDisk, PcType, Side
    <3>3. ConnectionSettled(s)
      BY <1>0, <3>1 DEF Settled
    <3>4. ASSUME NEW c \in Connection, conn'[c] = "connected"
          PROVE  (\E q \in Side : connect'[q] = c) \/ c \in refused
      BY <1>0, <3>1, <3>2, <3>3, <3>4 DEF Connect, ConnectionSettled, TypeOK, LibTypeOK
    <3> QED
      BY <3>1, <3>4
  <2> QED
    BY <2>1, <2>2
<1>4. ASSUME NEW s \in Side, OpenDisk(s) PROVE Findable'
  BY <1>0, <1>4 DEF OpenDisk, Opens, Open, Settled, DiskSettled, TypeOK, LibTypeOK, AtWork
<1>5. CASE UndoOpen
  BY <1>0, <1>5 DEF UndoOpen, Release, Close, TypeOK, LibTypeOK, Side
<1>6. CASE UndoConnect
  BY <1>0, <1>6 DEF UndoConnect, Release, Disconnect, TypeOK, LibTypeOK, Side
<1>7. CASE CallCleanup
  BY <1>7 DEF CallCleanup
<1>8. CASE Cleanup
  BY <1>0, <1>8 DEF Cleanup, CleanupDisk, CleanupConnection, Release, Close, Disconnect,
                    TypeOK, LibTypeOK, Side
<1>9. CASE Crash
  BY <1>9 DEF Crash, ProcessExit
<1> QED
  BY <1>1, <1>2, <1>3, <1>4, <1>5, <1>6, <1>7, <1>8, <1>9 DEF Next

(* Unless a side was opened twice, Cleanup can find all that is live.         *)
LEMMA AlwaysFindable == Spec => []Findable
<1>1. Init => Findable
  BY DEF Init, LibInit, Findable, Standing
<1> QED
  BY <1>1, FindableNext, AlwaysDisksInv, PTL DEF Spec

(* No connection and no handle is lost, whatever fails and in whatever order  *)
(* the methods are called.                                                    *)
THEOREM Unorphaned == Spec => []NothingOrphaned
<1>1. Findable => NothingOrphaned
  BY DEF Findable, Standing, NothingOrphaned, Live
<1> QED
  BY <1>1, AlwaysFindable, PTL

(* After Cleanup, and after a failed OpenRemoteDisk, nothing is live that was *)
(* not refused.                                                               *)
THEOREM Released == Spec => []IdleMeansReleased
<1>1. DisksInv /\ Findable => IdleMeansReleased
  <2> SUFFICES ASSUME DisksInv, Findable, ~reopened, opened = {}, NEW x \in Live
               PROVE  x \in refused
    BY DEF IdleMeansReleased
  <2>1. \A s \in Side : DiskSettled(s) /\ ConnectionSettled(s)
    BY DEF DisksInv, Settled
  <2>2. CASE x \in Connection /\ conn[x] = "connected"
    BY <2>1, <2>2 DEF Findable, ConnectionSettled
  <2>3. CASE x \in Handle /\ handle[x] = "open"
    BY <2>1, <2>3 DEF Findable, Standing, DiskSettled
  <2> QED
    BY <2>2, <2>3 DEF Live
<1> QED
  BY <1>1, AlwaysDisksInv, AlwaysFindable, PTL
=============================================================================
