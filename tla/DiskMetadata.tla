----------------------------- MODULE DiskMetadata -----------------------------
(***************************************************************************)
(* VadpDumper.SaveMetaData (dumper/dumper.go): copies the metadata of the  *)
(* disk of readHandle to that of writeHandle, through bindings that are    *)
(* called twice for each answer, for its length and for its bytes; what    *)
(* they do with C memory is BindingMemory.  Here at names the binding that *)
(* comes next.  One variable holds every length, and it is left alone by a *)
(* length query that succeeds.  Without its handles the method does        *)
(* nothing; it is not modelled then.                                       *)
(*                                                                         *)
(* Outside src/: VDDK lists the keys in any order and ends the list with   *)
(* an empty one; it fills a buffer or refuses it as too small.  Other      *)
(* programs may write metadata of the source meanwhile; none is removed.   *)
(***************************************************************************)
EXTENDS BindingMemory, Integers, Sequences, SequencesExt

CONSTANTS
    Key, BlankKey,   \* the keys, and those that strings.TrimSpace empties
    EmptyKey,        \* ""
    Value, Size,     \* the values, and the bytes each takes with its NUL
    NoValue,         \* what a key holds that is not there
    Contents,        \* the metadata that the source may begin with
    Changes, Saves   \* bounds: writes of others, calls of SaveMetaData

ASSUME MetaAssumption ==
    /\ BlankKey \subseteq Key /\ EmptyKey \notin Key
    /\ NoValue \notin Value
    /\ Size \in [Value -> Nat \ {0}]
    /\ Contents \subseteq [Key -> Value \cup {NoValue}]
    /\ \A c \in Contents : IsFiniteSet({k \in Key : c[k] # NoValue})
    /\ {Changes, Saves} \subseteq Nat

VARIABLES
    source, target,  \* the metadata of the two disks
    at,              \* the next binding, "next" between keys, or the outcome
    requireLen,      \* SaveMetaData: requireLen
    bufLen, buf,     \* SaveMetaData: bufLen, and the value that buf holds
    keys, key,       \* SaveMetaData: the rest of keys, and key
    saves, changes,  \* bounds
    first, before,   \* history: source and target when the call began
    held,            \* history: what each key of the source has held since
    cause            \* history: what may have made the call fail

localVars == <<requireLen, bufLen, buf, keys, key>>
callVars == <<saves, first, before>>
metaVars == <<memoryVars, source, target, at, localVars, callVars, changes, held, cause>>

Outcome == {"nil", "error", "panic"}

MetaInit ==
    /\ MemoryInit
    /\ source \in Contents
    /\ target = [k \in Key |-> NoValue]
    /\ at = "idle"
    /\ requireLen = 0 /\ bufLen = 0 /\ buf = NoValue
    /\ keys = <<>> /\ key = EmptyKey
    /\ saves = 0 /\ changes = 0
    /\ first = source /\ before = target
    /\ held = [k \in Key |-> {}]
    /\ cause = {}

\* The caller calls SaveMetaData, once more when it returned an error.
Save ==
    /\ stage = "out"
    /\ at \in {"idle", "error"} /\ saves < Saves
    /\ at' = "keysLen"
    /\ requireLen' = 0
    /\ saves' = saves + 1
    /\ first' = source /\ before' = target
    /\ held' = [k \in Key |-> {source[k]}]
    /\ cause' = {}
    /\ UNCHANGED <<memoryVars, source, target, bufLen, buf, keys, key, changes>>

Binding ==
    [keysLen |-> "GetMetadataKeys", keys |-> "GetMetadataKeys",
     valueLen |-> "ReadMetadata", value |-> "ReadMetadata", write |-> "WriteMetadata"]

\* The binding that comes next is called.
CallBinding ==
    /\ at \in DOMAIN Binding
    /\ Enter([name |-> Binding[at], set |-> {}])
    /\ UNCHANGED <<source, target, at, localVars, callVars, changes, held, cause>>

\* A buffer of no length: the bindings take the address of its first byte.
NoAddress == at \in {"keys", "value"} /\ bufLen = 0

\* VDDK fails: the method returns the error.
BindingFails ==
    /\ at \in DOMAIN Binding /\ ~NoAddress
    /\ Library(FALSE)
    /\ at' = "error"
    /\ cause' = cause \cup {"refused"}
    /\ UNCHANGED <<source, target, localVars, callVars, changes, held>>

\* The room that the list of keys takes, one for a key and one for its end.
KeyRoom == Cardinality({k \in Key : source[k] # NoValue}) + 1

Need == IF at = "keysLen" \/ at = "keys" THEN KeyRoom ELSE Size[source[key]]

\* Mutated form of LengthQuery: the buffer keeps its first length.
LengthQueryOnce(next) ==
    /\ \/ /\ Library(FALSE)
          /\ requireLen' = Need
          /\ UNCHANGED cause
       \/ /\ Library(TRUE)
          /\ UNCHANGED requireLen
          /\ cause' = cause \cup {at}
    /\ bufLen' = IF bufLen = 0 THEN requireLen' ELSE bufLen
    /\ buf' = NoValue
    /\ at' = next
    /\ UNCHANGED <<source, target, keys, key, callVars, changes, held>>

\* A call with no buffer: refused as too small, with the length, or a success
\* that leaves requireLen as it was; either way a buffer is made.
LengthQuery(next) ==
    /\ \/ /\ Library(FALSE)
          /\ requireLen' = Need
          /\ UNCHANGED cause
       \/ /\ Library(TRUE)
          /\ UNCHANGED requireLen
          /\ cause' = cause \cup {at}
    /\ bufLen' = requireLen'
    /\ buf' = NoValue
    /\ at' = next
    /\ UNCHANGED <<source, target, keys, key, callVars, changes, held>>

KeysLen == at = "keysLen" /\ LengthQuery("keys")
ValueLen == at = "valueLen" /\ LengthQuery("value")

EmptyBuffer ==
    /\ NoAddress
    /\ Panic
    /\ at' = "panic"
    /\ UNCHANGED <<source, target, localVars, callVars, changes, held, cause>>

\* What was fetched has grown since its length was asked for: an error.
TooSmall ==
    /\ at \in {"keys", "value"}
    /\ 0 < bufLen /\ bufLen < Need
    /\ Library(FALSE)
    /\ at' = "error"
    /\ UNCHANGED <<source, target, localVars, callVars, changes, held, cause>>

\* The strings that end at each NUL of the buffer, the rest of it empty ones.
NullTermToStrings(list) == list \o [i \in 1 .. bufLen - Len(list) |-> EmptyKey]

Keys ==
    /\ at = "keys"
    /\ KeyRoom <= bufLen
    /\ Library(TRUE)
    /\ \E list \in SetToSeqs({k \in Key : source[k] # NoValue}) :
          keys' = NullTermToStrings(list)
    /\ at' = "next"
    /\ UNCHANGED <<source, target, requireLen, bufLen, buf, key, callVars, changes, held, cause>>

\* Mutated form of NextKey: a blank key ends the loop.
NextKeyBreaks ==
    /\ at = "next" /\ stage = "out"
    /\ IF keys = <<>> \/ Head(keys) \in BlankKey \cup {EmptyKey}
       THEN at' = "nil" /\ UNCHANGED <<keys, key>>
       ELSE key' = Head(keys) /\ keys' = Tail(keys) /\ at' = "valueLen"
    /\ UNCHANGED <<memoryVars, source, target, requireLen, bufLen, buf, callVars, changes,
                   held, cause>>

\* Mutated form of NextKey: a blank key is looked at again.
NextKeyStays ==
    /\ at = "next" /\ stage = "out"
    /\ IF keys = <<>> THEN at' = "nil" /\ UNCHANGED <<keys, key>>
       ELSE /\ key' = Head(keys)
            /\ IF key' \in BlankKey \cup {EmptyKey}
               THEN UNCHANGED <<keys, at>>
               ELSE keys' = Tail(keys) /\ at' = "valueLen"
    /\ UNCHANGED <<memoryVars, source, target, requireLen, bufLen, buf, callVars, changes,
                   held, cause>>

\* Mutated form of NextKey: only an empty key is skipped.
NextKeyBlank ==
    /\ at = "next" /\ stage = "out"
    /\ IF keys = <<>> THEN at' = "nil" /\ UNCHANGED <<keys, key>>
       ELSE /\ key' = Head(keys)
            /\ keys' = Tail(keys)
            /\ at' = IF key' = EmptyKey THEN "next" ELSE "valueLen"
    /\ UNCHANGED <<memoryVars, source, target, requireLen, bufLen, buf, callVars, changes,
                   held, cause>>

\* The head of the range over keys, which skips blank ones.
NextKey ==
    /\ at = "next" /\ stage = "out"
    /\ IF keys = <<>> THEN at' = "nil" /\ UNCHANGED <<keys, key>>
       ELSE /\ key' = Head(keys)
            /\ keys' = Tail(keys)
            /\ at' = IF key' \in BlankKey \cup {EmptyKey} THEN "next" ELSE "valueLen"
    /\ UNCHANGED <<memoryVars, source, target, requireLen, bufLen, buf, callVars, changes,
                   held, cause>>

\* Mutated form of ReadValue: a buffer too small is no error here, either.
ReadValueShort ==
    /\ at = "value" /\ bufLen > 0
    /\ Library(Need <= bufLen)
    /\ buf' = IF Need <= bufLen THEN source[key] ELSE NoValue
    /\ at' = "write"
    /\ UNCHANGED <<source, target, requireLen, bufLen, keys, key, callVars, changes, held,
                   cause>>

ReadValue ==
    /\ at = "value" /\ Need <= bufLen
    /\ Library(TRUE)
    /\ buf' = source[key]
    /\ at' = "write"
    /\ UNCHANGED <<source, target, requireLen, bufLen, keys, key, callVars, changes, held,
                   cause>>

\* WriteMetadata takes buf up to its NUL.
WriteValue ==
    /\ at = "write"
    /\ Library(TRUE)
    /\ target' = [target EXCEPT ![key] = buf]
    /\ at' = "next"
    /\ UNCHANGED <<source, localVars, callVars, changes, held, cause>>

Steps ==
    \/ CallBinding \/ BindingFails \/ KeysLen \/ EmptyBuffer \/ TooSmall
    \/ Keys \/ NextKey \/ ValueLen \/ ReadValue \/ WriteValue
    \/ MemoryStep /\ UNCHANGED <<source, target, at, localVars, callVars, changes, held, cause>>

\* Another program writes metadata of the source disk.
Change ==
    /\ at \notin Outcome \cup {"idle"} /\ changes < Changes
    /\ \E k \in Key, v \in Value :
          /\ source' = [source EXCEPT ![k] = v]
          /\ held' = [held EXCEPT ![k] = @ \cup {v}]
    /\ changes' = changes + 1
    /\ cause' = cause \cup {"changed"}
    /\ UNCHANGED <<memoryVars, target, at, localVars, callVars>>

\* Before, the program calls other bindings.
OtherBinding ==
    /\ at = "idle"
    /\ \E c \in Calls : Enter(c)
    /\ UNCHANGED <<source, target, at, localVars, callVars, changes, held, cause>>

MetaNext == Save \/ Steps \/ Change \/ OtherBinding
MetaSpec == MetaInit /\ [][MetaNext]_metaVars

-----------------------------------------------------------------------------
MetaTypeOK ==
    /\ MemoryTypeOK
    /\ {source, target, first, before} \subseteq [Key -> Value \cup {NoValue}]
    /\ at \in {"idle", "next"} \cup DOMAIN Binding \cup Outcome
    /\ requireLen \in Nat /\ bufLen \in Nat /\ buf \in Value \cup {NoValue}
    /\ keys \in Seq(Key \cup {EmptyKey}) /\ key \in Key \cup {EmptyKey}
    /\ saves \in 0 .. Saves /\ changes \in 0 .. Changes
    /\ held \in [Key -> SUBSET (Value \cup {NoValue})]
    /\ at \in {"valueLen", "value", "write"} =>
          key \in Key \ BlankKey /\ source[key] # NoValue

(* A SaveMetaData that returns nil has saved every key that the source had  *)
(* when it began, blank ones aside, with a value that the key has held      *)
(* since: whatever others write meanwhile, and after a call that failed.    *)
NilMeansSaved ==
    at = "nil" =>
        \A k \in Key \ BlankKey :
            first[k] # NoValue => target[k] \in held[k] \ {NoValue}

(* Finished or failed, SaveMetaData never puts a value under a key that has *)
(* not held it, nor a cut or an empty one, though one length and one buffer *)
(* serve all keys and both calls of a pair may meet different values.       *)
OwnValuesOnly ==
    \A k \in Key :
        target[k] # before[k] => k \notin BlankKey /\ target[k] \in held[k] \ {NoValue}

(* When VDDK refuses nothing, gives the length each time it is asked, and   *)
(* nobody changes the source, SaveMetaData returns nil; and only a list of  *)
(* keys without a length makes it panic, as later lengths find one in       *)
(* requireLen.                                                              *)
FailureHasCause ==
    /\ at = "error" => cause # {}
    /\ at = "panic" => "keysLen" \in cause

(* SaveMetaData returns, or panics, whatever keys and values it meets.      *)
SaveEnds == at = "keysLen" ~> at \in Outcome
=============================================================================
