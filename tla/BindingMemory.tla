----------------------------- MODULE BindingMemory -----------------------------
(***************************************************************************)
(* The C memory of the bindings (pkg/disklib/gvddk_api.go, gvddk_c.c).     *)
(* A binding allocates C strings for its arguments, and a parameter        *)
(* structure that points to nine of them; it calls VDDK; it copies and     *)
(* frees what VDDK allocated for it; its deferred calls free the strings,  *)
(* one call after the other, also when it panics.  Bindings share no       *)
(* memory, so one caller is enough.                                        *)
(* VDDK is outside src/: it reads its arguments during the call and keeps  *)
(* none of them.                                                           *)
(***************************************************************************)
EXTENDS FiniteSets, Sequences, SequencesExt

CONSTANT Params   \* the ConnectParams of callers: the fields that are not ""

\* The strings that prepareConnectParams makes and freeParams frees.
ParamStrings == {"vmxSpec", "serverName", "thumbPrint", "userName", "password",
                 "fcdId", "ds", "fcdssId", "cookie"}

ASSUME ParamsAssumption == Params \subseteq SUBSET ParamStrings

\* What the callers in src/ fill in; others call NewConnectParams themselves.
OpenFCD == {"serverName", "thumbPrint", "userName", "password", "fcdId", "ds", "fcdssId"}
SetRemoteConnParams == {"vmxSpec", "serverName", "thumbPrint", "userName", "password"}
SetLocalConnParams == {}

\* The other strings of each binding, in the order in which it defers freeing
\* them; InitEx without a configFile is as Init.
InitStrings == [Init |-> <<"libDir">>, InitEx |-> <<"libDir", "config">>]
AccessStrings ==
    [Connect |-> <<>>, ConnectEx |-> <<"snapRef", "modes">>, PrepareForAccess |-> <<"name">>,
     Open |-> <<"filePath">>, EndAccess |-> <<"name">>, Disconnect |-> <<>>, Exit |-> <<>>,
     Attach |-> <<>>]
DiskStrings ==
    [CheckRepair |-> <<"file">>, Cleanup |-> <<>>, Clone |-> <<"dst", "src", "cstr">>,
     Create |-> <<"pathName", "cstr">>, CreateChild |-> <<"child", "cstr">>]
FileStrings ==
    [Grow |-> <<"filePath", "cstr">>, ListTransportModes |-> <<>>, Rename |-> <<"src", "dst">>,
     SpaceNeededForClone |-> <<>>, Unlink |-> <<"delete">>, Shrink |-> <<"cstr">>,
     Defragment |-> <<"cstr">>, GetTransportMode |-> <<>>]
MetadataStrings ==
    [GetMetadataKeys |-> <<>>, WriteMetadata |-> <<"wKey">>, ReadMetadata |-> <<"readKey">>]

OtherStrings ==
    [Close |-> <<>>, Read |-> <<>>, Write |-> <<>>, GetInfo |-> <<>>,
     QueryAllocatedBlocks |-> <<>>]

Strings ==
    [n \in DOMAIN InitStrings \cup DOMAIN AccessStrings \cup DOMAIN DiskStrings
           \cup DOMAIN FileStrings \cup DOMAIN MetadataStrings \cup DOMAIN OtherStrings |->
        CASE n \in DOMAIN InitStrings -> InitStrings[n]
          [] n \in DOMAIN AccessStrings -> AccessStrings[n]
          [] n \in DOMAIN DiskStrings -> DiskStrings[n]
          [] n \in DOMAIN FileStrings -> FileStrings[n]
          [] n \in DOMAIN MetadataStrings -> MetadataStrings[n]
          [] n \in DOMAIN OtherStrings -> OtherStrings[n]]

Connecting == {"Connect", "ConnectEx", "PrepareForAccess", "EndAccess", "Cleanup"}

\* The calls a program makes of its own; DiskMetadata makes those on metadata.
Calls ==
    [name : Connecting, set : Params]
    \cup [name : DOMAIN Strings \ (Connecting \cup DOMAIN MetadataStrings), set : {{}}]

NoCall == [name |-> "none", set |-> {}]

VARIABLES
    call,       \* the binding under way
    stage,      \* "out"; "in", with its arguments made; "got", with an answer
                \* in C memory; "free", before its freeParams; "back", before
                \* its deferred calls
    live,       \* the C memory that is allocated
    deferred,   \* the deferred calls to come, each the strings that it frees
    misuse,     \* history: what was used or freed when it was not allocated
    emptied     \* history: a query was answered with an empty block list

memoryVars == <<call, stage, live, deferred, misuse, emptied>>

MemoryInit ==
    /\ call = NoCall
    /\ stage = "out"
    /\ live = {}
    /\ deferred = <<>>
    /\ misuse = {}
    /\ emptied = FALSE

Made(c) ==
    ToSet(Strings[c.name])
    \cup IF c.name \in Connecting THEN ParamStrings \cup {"cnxParams"} ELSE {}

\* freeParams: EndAccess calls it when VDDK returns, the other bindings that
\* connect defer it; nobody frees cnxParams.
Inline(c) == IF c.name = "EndAccess" THEN ParamStrings ELSE {}

FreeEach(strings) == [i \in DOMAIN strings |-> {strings[i]}]

\* Mutated form of Deferred: EndAccess defers freeParams as PrepareForAccess does.
DeferredTwice(c) ==
    CASE c.name \in {"Connect", "ConnectEx", "Cleanup"} ->
            <<ParamStrings>> \o FreeEach(Strings[c.name])
      [] c.name \in {"PrepareForAccess", "EndAccess"} ->
            FreeEach(Strings[c.name]) \o <<ParamStrings>>
      [] OTHER -> FreeEach(Strings[c.name])

Deferred(c) ==
    CASE c.name \in {"Connect", "ConnectEx", "Cleanup"} ->
            <<ParamStrings>> \o FreeEach(Strings[c.name])
      [] c.name = "PrepareForAccess" -> FreeEach(Strings[c.name]) \o <<ParamStrings>>
      [] OTHER -> FreeEach(Strings[c.name])

\* The binding makes its arguments and pushes its deferred calls.
Enter(c) ==
    /\ stage = "out"
    /\ stage' = "in"
    /\ call' = c
    /\ live' = live \cup Made(c)
    /\ deferred' = Deferred(c)
    /\ UNCHANGED <<misuse, emptied>>

\* What cnxParams points to: a first-class disk or a virtual machine, and a
\* session or a password.
Fields(set) ==
    (IF "fcdId" \in set THEN {"fcdId", "ds"} \cup (set \cap {"fcdssId"})
                        ELSE set \cap {"vmxSpec"})
    \cup (set \cap {"thumbPrint", "serverName"})
    \cup {"userName", "password"} \cup (set \cap {"cookie"})

Reads(c) ==
    ToSet(Strings[c.name])
    \cup IF c.name \in Connecting THEN {"cnxParams"} \cup Fields(c.set) ELSE {}

\* What VDDK allocates for its answer.
Answer(c) ==
    CASE c.name = "GetInfo" -> {"info"}
      [] c.name = "QueryAllocatedBlocks" -> {"blockList"}
      [] OTHER -> {}

\* VDDK is called, and fails or answers.
Library(ok) ==
    /\ stage = "in"
    /\ misuse' = misuse \cup (Reads(call) \ live)
    /\ live' = live \cup IF ok THEN Answer(call) ELSE {}
    /\ stage' = CASE ok /\ Answer(call) # {} -> "got"
                  [] Inline(call) # {} -> "free"
                  [] OTHER -> "back"
    /\ UNCHANGED <<call, deferred, emptied>>

\* The binding panics before it comes to VDDK, at &buf[0] of an empty buf.
Panic ==
    /\ stage = "in"
    /\ call.name \in {"GetMetadataKeys", "WriteMetadata", "ReadMetadata", "Read", "Write"}
    /\ stage' = "back"
    /\ UNCHANGED <<call, live, deferred, misuse, emptied>>

\* GetInfo, QueryAllocatedBlocks: the answer is copied, then freed.
CopyAndFree ==
    /\ stage = "got"
    /\ misuse' = misuse \cup (Answer(call) \ live)
    /\ live' = live \ Answer(call)
    /\ stage' = "back"
    /\ UNCHANGED <<call, deferred, emptied>>

\* Mutated form of EmptyList: GetInfo, too, returns before it has freed.
EmptyAnswer ==
    /\ stage = "got"
    /\ stage' = "back"
    /\ emptied' = (emptied \/ call.name = "QueryAllocatedBlocks")
    /\ UNCHANGED <<call, live, deferred, misuse>>

\* An empty block list is not copied, nor freed.
EmptyList ==
    /\ stage = "got"
    /\ call.name = "QueryAllocatedBlocks"
    /\ stage' = "back"
    /\ emptied' = TRUE
    /\ UNCHANGED <<call, live, deferred, misuse>>

Free(strings) ==
    /\ misuse' = misuse \cup (strings \ live)
    /\ live' = live \ strings

\* EndAccess frees its parameters, whatever VDDK said.
FreeParams ==
    /\ stage = "free"
    /\ Free(Inline(call))
    /\ stage' = "back"
    /\ UNCHANGED <<call, deferred, emptied>>

\* The binding returns, or its panic goes up: the deferred calls are run, the
\* last of them first.
RunDeferred ==
    /\ stage = "back" /\ deferred # <<>>
    /\ Free(Last(deferred))
    /\ deferred' = Front(deferred)
    /\ UNCHANGED <<call, stage, emptied>>

Leave ==
    /\ stage = "back" /\ deferred = <<>>
    /\ stage' = "out"
    /\ call' = NoCall
    /\ UNCHANGED <<live, deferred, misuse, emptied>>

MemoryStep ==
    \/ stage = "in" /\ call \in Calls /\ \E ok \in BOOLEAN : Library(ok)
    \/ CopyAndFree
    \/ EmptyList
    \/ FreeParams
    \/ RunDeferred
    \/ Leave

-----------------------------------------------------------------------------
MemoryTypeOK ==
    /\ stage \in {"out", "in", "got", "free", "back"}
    /\ call.name \in DOMAIN Strings \cup {"none"} /\ call.set \subseteq ParamStrings
    /\ stage = "out" <=> call = NoCall
    /\ deferred \in Seq(SUBSET live)
    /\ emptied \in BOOLEAN

(* VDDK never reads a string that was freed, though a parameter structure   *)
(* points to strings that others own, and no string is freed twice, neither *)
(* by two deferred calls nor by freeParams in EndAccess and a deferred one: *)
(* whichever fields are set, and whether VDDK answers, fails or is never    *)
(* called.                                                                  *)
NoMisuse == misuse = {}

(* Between calls the program holds no string of a binding and no answer of  *)
(* GetInfo, errors and panics included.  The structure that                 *)
(* VixDiskLib_AllocateConnectParams makes is freed by nobody, and an empty  *)
(* block list is what BlockListFreed is about; both may be left.            *)
NothingKept ==
    stage = "out" => live \subseteq {"cnxParams"} \cup IF emptied THEN {"blockList"} ELSE {}

(* gvddk_c.c:171 tells the caller of QueryAllocatedBlocks to "use           *)
(* BlockListCopyAndFree to copy the data to a Go slice and free the C       *)
(* memory associated with the VixDiskLibBlockList": between calls there is  *)
(* no block list.                                                           *)
BlockListFreed == stage = "out" => "blockList" \notin live
=============================================================================
