# Virtual disks: a verification development

This directory models the Go library in this repository: byte-addressed access to VMware virtual
disks over the C library VDDK (`pkg/virtual_disks`, `pkg/disklib`), and a program layer that clones
and restores disks with it (`dumper`). The models are TLA+ modules, checked by TLC on small
instances; the invariants of the passing runs, the two refinements and the mutual exclusion behind them are proved by TLAPS
for every value of the constants.

## 1. Inventory

| Part | Code | State | Operations |
|---|---|---|---|
| Disk handle | `gvddk.go` `DiskConnectHandle` | the disk, a mutex, `info.Capacity` | `ReadAt`, `WriteAt`, `Close`, pass-through queries |
| Cursor | `gvddk.go` `DiskReaderWriter` | the offset, a second mutex | `Read`, `Write`, `Seek`, `ReadAt`, `WriteAt`, `Close` |
| Session | `gvddk.go` `Open`, `Close` | a connection, a handle, one access registration | open in four library calls, close in three |
| Bindings | `gvddk_api.go`, `gvddk_c.c` | none in Go; C memory during a call; connections, handles, registrations in VDDK | one call each |
| Dumper: access | `dumper.go` `PrepareForAccess`, `EndAccess` | the registration under a random identity | ten and thirty tries |
| Dumper: disks | `dumper.go` `OpenRemoteDisk`, `ReadLocalDisk`, `CreateLocalDisk`, `Cleanup` | six fields of `VadpDumper` | open with or without undo, release |
| Dumper: copy | `dumper.go` `QueryAllocatedBlocks`, `DumpCloneDisk` | the change list, one buffer | query in batches, copy area by area |
| Dumper: metadata | `dumper.go` `SaveMetaData` | one length and one buffer for all keys | copy of keys and values |
| Change lists, parameters, error codes, thumbprint | `cbt.go`, `gvddk_helper.go`, `gvddk_errors.go` | none | decoding, constants, one TLS connection |

How they interact. A cursor holds its own mutex while it calls `ReadAt` or `WriteAt` of its handle,
which take the handle's mutex only when the call is not sector aligned; other goroutines call the
handle directly. Sessions and dumpers share VDDK, and with it the access registrations of a virtual
machine under an identity: what one of them undoes, another may need. The dumper builds its handles
from its own connections and copies through their `ReadAt` and `WriteAt`, whose count `n` drives its
loop. For metadata it calls the bindings in pairs, first for a length and then for bytes. Every binding
makes C strings for VDDK, copies what VDDK allocates, and frees both.

What is hard:

* **concurrency**: read/modify/write of edge sectors under a mutex that aligned writes do not take;
  two nested mutexes; a shared offset;
* **partial failure**: every operation above is several library calls, any of which may fail, and a
  failed transfer of several sectors may have done some of them;
* **retries and crashes**: registrations outlive the process and are known only by an identity;
* **stale state**: a length asked for in one call and used in the next, while others write;
* **memory that Go does not collect**: freed once, on every path, and not before VDDK has read it;
* **boundaries**: the first and last part of a transfer, the end of the disk, the last chunk, the
  last try;
* **termination**: a loop that advances by a count which can be zero.

`PROJECT.json` lists each hazard at its line with the properties that would catch it.

### What makes each part correct

* *Handle*: no write undoes what another one stored, and none changes a byte outside its range;
  misaligned calls are atomic to each other; `n` claims no byte that was not moved; every call returns.
* *Cursor*: calls of all goroutines divide the disk among them, without gaps or repetition; no deadlock.
* *Session*: as many registrations as sessions that need one; a session's failure does not disturb
  another; nothing is left after a failed `Open` or a successful `Close`.
* *Dumper, access*: tries leave nothing behind; a prepared dumper is registered; a crash can be cleaned up.
* *Dumper, disks*: nothing is orphaned; handles are closed before their connections; a provided
  handle is usable until `Cleanup`.
* *Dumper, copy*: success means copied; nothing outside the areas is touched; the copy ends.
* *Dumper, metadata*: success means saved; a key never gets a value that it did not have; an error has
  a cause outside the dumper; the copy ends.
* *Bindings*: nothing freed is used or freed again; between calls nothing is left but what is known.

## 2. Modules

```
ByteStore  <--refines--  DiskHandle        <--extends--  DiskReaderWriter
                              ^                               ^
   SectorArithmetic  <-  DiskHandleProofs  <--extends--  DiskReaderWriterProofs

DiskLease  <--refines--  DiskSession
                              |
VixDiskLib  <--extends--------+--  DumperAccess, DumperDisks

BindingMemory  <--extends--  DiskMetadata  <--+--extends--  MCDumperCopy
                                DiskClone  <--+
```

The proofs about `X` are in `XProofs`, which extends it: for `DiskHandle`, `DiskReaderWriter`,
`DiskSession`, `DumperAccess`, `DumperDisks`, `DiskClone` and `DiskMetadata` (with `BindingMemory`).

**DiskHandle** (`gvddk.go` 180-316, 337-339). Each goroutine is at a place `pc` in `ReadAt` or
`WriteAt`; `startSector`, `total`, `tmpBuf` and `err` are the local variables, `k` counts the sectors
of one library call on the middle part. `Call` does the checks at the top, `Lock` takes the mutex of
a misaligned call, `Fill` reads one sector, `Fetch` and `Store` are the read and the write of the
read/modify/write of an edge sector, `Overwrite` writes one sector of the middle, `Fail` is a library
call that fails without effect, and each transfer may also fail after its effect (`Abort`). `Return`
is the return with its deferred `Unlock`. What a byte holds is represented by where it came from, the
write call and the index in its buffer, so a misplaced byte is visible. VDDK is external: one
sector is transferred atomically, several one after the other.

**ByteStore** is the promise of the handle in user terms: bytes of a call are taken or given one set
at a time, nothing else changes, and calls in `Exclusive` do not overlap.

**DiskReaderWriter** (76-149) extends it with `offset`, `rwMutex` and, per goroutine, whether it is
outside, waits for the cursor or has it. `Enter` and `Leave` enclose the inner call; `Seek` is one
step, as it does nothing but arithmetic under the mutex.

**VixDiskLib** is what VDDK keeps for its callers through the bindings: `conn`, `handle`, `via` (the
connection of a handle), `access` (registrations not ended), `twice` (what was released again).
Connections and handles are single-use values: a sequence number in all but name. A call that fails is
assumed to have no effect, but for `PrepareForAccess`, which may have registered the machine
(`PrepareFails`): the dumper ends the access after a try that failed (`dumper.go` 226-229), while `Open`
returns at once. A failed `EndAccess`, `Close` or `Disconnect` has released nothing: the dumper calls `EndAccess` again
after it failed (250-253), and nothing in the repository hints at a release in spite of an error.

**DiskSession** (50-74, 318-335): one action for each library call of `Open` and `Close`, with its
success and its failure; `pc` names the next call. `refused` remembers the failures that left something
behind: a release that was refused, or a `PrepareForAccess` that failed and registered all the same.
`Leaks` tells the sessions that left a registration in one of these ways.

**DiskLease** is the promise of a session without its calls: it holds access, connection and handle in
this order, gives them back in the opposite one, and what an open that fails does not give back is
lost, the handle always when it fails last, the access perhaps when it fails first. The refinement mapping takes the depth of a session from
what is live in the library (`LeaseDepth`), the losses likewise, and the registrations as they are.

**DumperAccess** (`dumper.go` 103-113, 212-262): several dumpers of a program. `NotPrepared` is a try
that fails with or without registering; `UndoTry` is the `EndAccess` that follows, which may fail
too; `LibCleanup` may take back anything left under the identity; `Restart` is a crash and a new
start with the same or another identity. The caller's only obligation is not to prepare twice.

**DumperDisks** (264-349, 465-550): the methods in any order and after any failure, on the remote and on
the local side in any interleaving, which includes one after the other, as callers use them; `pc` is the next
library call of each side, and of `Cleanup`, which is called only when both sides are idle. `connect` and `disk` are the fields
`remoteConnect`/`localConnect` and `remoteHandle`/`localHandle`; `readHandle` and `writeHandle` are shared, and
who sets one last wins. `opened`, `reopened` and `current` are history variables that state what a
caller may expect.

**DiskClone** (351-395, 566-609): the batches of the query, then per buffer one `Read` and one
`Write`. `ReadAt` here is what one goroutine sees of `DiskHandle`: it fills the buffer up to the end
of the disk, and `ReadCount` is what it reports, the count that `CountIsWhole` states of `DiskHandle`. VDDK's answer
to a query is external: the runs of allocated chunks of its range, in order (`Answers`).

**BindingMemory** (`gvddk_api.go`, all bindings): `Enter` makes the strings of a binding and pushes its
deferred calls, in the order of the code; `Library` is the call to VDDK, which reads the strings and what the
parameter structure points to (`Fields`, the branches of `prepareConnectParams`), `CopyAndFree` and `EmptyList` are
the two ways to take an answer, `Panic` is `&buf[0]` of an empty buffer, `FreeParams` the call that `EndAccess` makes
itself, `RunDeferred` one deferred call, the last one first, and `Leave` the return. `live` is the C memory
allocated, `misuse` what was read or freed when it was not; strings are names, not characters. A binding's C memory is
its own, so one call at a time shows all that can happen to it.

**DiskMetadata** (`dumper.go` 397-463) calls those bindings: `at` is the next one. `LengthQuery` is a
call with a pointer to `requireLen` and no buffer: VDDK refuses it as too small and tells the length, or
it succeeds and tells nothing, so the length of the query before stays. `Keys`, `ReadValue` and
`WriteValue` move bytes, `TooSmall` is a refusal because the metadata has grown, `NextKey` is the head of the loop
with its test for blank keys. `Change` is another program that writes metadata of the source. The
caller may call again after an error.

**MCDumperCopy** composes `DiskClone` and `DiskMetadata`, the two things a dumper copies; a behaviour
does one of them, as they share nothing but the handles.

## 3. Runs

| Run | Instance | Distinct states | Question |
|---|---|---|---|
| `handle` | 3 goroutines, 3 sectors of 3 bytes, 9 kinds of calls | 710 000 | what the handle's mutex protects |
| `lost_update` | 2 goroutines, 2 sectors of 2 bytes | counterexample | is every read/modify/write correct? |
| `read_count` | same | counterexample | is `n` the number of bytes read? |
| `cursor` | 3 goroutines, cursor and direct calls, 2 sectors of 2 bytes | 1.4 million | the shared offset |
| `cursor_returns` | 2 goroutines, cursor and direct calls, 3 sectors of 2 bytes, fair | 55 000 | do all calls return? refinement of `ByteStore` |
| `session` | 3 sessions, two of one machine, two calls of `Close` each | 111 000 | matching, isolation, release, refinement of `DiskLease` |
| `session_rollback` | 1 session | counterexample | does a failed `Open` roll back? |
| `dumper_access` | 2 dumpers, 3 identities, 3 and 2 tries | 625 000 | retries, crashes, collisions |
| `dumper_disks` | 3 connections, 2 handles, clone and restore, both sides interleaved | 4.7 million | orphans, order, usability |
| `dumper_twice` | 1 connection, 1 handle | counterexample | one release for each open? |
| `copy` | data: source of 3.5 chunks, queries of 2, targets of 3 sizes, 7 lists; metadata: 3 keys, 2 values, 10 sources, 1 change, 2 calls; 5 kinds of parameters | 689 000 | completeness, containment, causes of failure, C memory, termination |
| `block_list` | same | counterexample | is every block list freed? |

The five counterexamples are disagreements of the code with its documentation (`findings` in
`PROJECT.json`):

* `lost_update`: thread 1 fetches a sector for a misaligned write, thread 2 overwrites the sector
  with an aligned one, which takes no lock, and is about to return nil; thread 1 stores the old bytes. The comment in
  `gvddk.go` 256-257 promises correct behaviour "always".
* `read_count`: a read that ends inside a sector returns `n` without the last part and a nil error.
* `session_rollback`: when `GetInfo` fails, `Open` does not close the handle. The `Disconnect` that follows "invalidates
  any open file handles" (`README.md` 89-91), which softens the consequence.
* `dumper_twice`: `Cleanup` after a failed `OpenRemoteDisk` disconnects a second time.
* `block_list`: the C block list of an empty answer is not freed, though `gvddk_c.c` 171-173 tells the caller to.

The passing runs say what *does* hold next to them: `MisalignedWritesSurvive` is the part of "no lost
update" that the mutex gives (a byte that a misaligned write stored is lost at most to an aligned write of its
sector, and a stale byte can only be where an aligned write put a newer one),
`CountIsHonest` and `CountIsWhole` the part of the count that can be relied on (never too much, and
too little by less than a sector), `ConnectionsAccounted` and `AccessMatched`
the part of the rollback that is done. `NothingKept` names the two things the bindings do not free, the
structure of `VixDiskLib_AllocateConnectParams` and the empty block list of `block_list`, and shows that there is no
third. `CloneHasWholeChunks` says exactly what a clone has: the sectors after the last whole chunk are
not in it, which no document rules out. `OnlyAreasWritten` shows that old bytes of the one buffer reach the
target only past the end of the source.
`FailureHasCause` shows that the shared `requireLen` does harm only when a length query succeeds
without telling a length; then `SaveMetaData` may fail, or panic on the list of keys, but what it
has written is still right (`OwnValuesOnly`).

### Bounds, and why they are enough

* Sectors of three bytes are the smallest with a first, an inner and a last byte; three sectors the
  fewest for a call with a head, a whole sector and a tail, or two sectors in one middle part. Three
  goroutines allow one to be disturbed by two others. The run for refinement and liveness uses two bytes
  and two goroutines, as no symmetry reduction is sound there.
* `MaxOffset` is past the capacity, so reads at and after the end happen; `Seek` to further places behaves alike.
  It bounds only where `Seek` may go (`CursorAssumption` asks for no less than the capacity).
* Three sessions: two that share a registration and one beside them; `Closes = 2` gives the repeated `Close`.
* Three tries for ten and two for thirty keep a first, a middle and a last try, and a first and a last one;
  `MaxAccess = 4` is more than two dumpers can hold without a refused `EndAccess`.
* Three connections and two handles: a failed remote open, its retry and a local open.
* Three chunks and a half in queries of two: a full query, a short one and the dropped rest.

* Keys: two, so that one follows another in `requireLen`, and a blank one; values of two lengths, so that the
  kept length is too short or too long; one change by another program, between any two steps; a
  second call after an error. The two keys are alike, so the ten sources name only one of each mirrored pair.
* Parameters: those of the three callers in the repository, a session cookie, and both kinds of disk
  at once, so that every branch of `prepareConnectParams` is taken.

`CHECK_DEADLOCK FALSE` is set only for sessions, which end when `Close` was called `Closes` times.

### Fairness

`CallsReturn` and `CursorCallsReturn` assume strong fairness of taking a mutex: Go's `sync.Mutex`
queues waiters and hands the lock to one that starved. They assume weak fairness of the steps of
a call under way: VDDK calls return, with or without an error. A goroutine need never call. `CloneEnds` assumes that
the one goroutine keeps running; its premise leaves out areas that end inside a sector, for which the
loop really does not end. `SaveEnds` assumes the same of `SaveMetaData`: each key is taken from a
list that was fetched once, so changes by others, which are bounded in the run, cannot prolong it.

Each property of a passing run has a mutant in `PROJECT.json`: a changed form of one definition, as a
plausible mistake in the code would change it, that makes TLC refute the property.

## 4. Proofs

Every invariant that a passing run checks is a theorem, for any number of goroutines, sessions,
dumpers, connections and handles and any sizes, disks, lists and metadata; so are the refinements of `ByteStore`
(for calls that are `Tidy`, see below) and of `DiskLease`. `PROJECT.json` lists each theorem with its property. What follows is, for each
module, what is assumed and why the invariant of the run is not enough by itself.

**DiskHandleProofs** assumes `DiskAssumption`: a positive sector size, calls with offsets and lengths in
`Nat`, distinct special values. The facts about `\div` and `%` are lemmas of `SectorArithmetic`.

* `TypeCorrect` and `Survival` (`MisalignedWritesSurvive`): a `Store` writes back what its `Fetch` read earlier, so
  `SurvivalInv` adds `Placed`, the arithmetic of `startSector`, `total`, `k` and the place in the
  code, which puts the piece of disk being worked on inside the call's range (and every slice in its bounds);
  `Exclusion` (theorem `MutualExclusion`); and `Fresh`, that `tmpBuf` is up to date on every byte but those an aligned write has
  overtaken. Another goroutine's write keeps `Fresh` because it is either aligned, which `Fresh`
  allows for, or misaligned, which `Exclusion` forbids.
* `HonestCount` (`CountIsHonest`) needs what is done when a piece begins (`Done`: all that lies before it),
  and `WholeSectorsCounted` (`CountIsWhole`) the value of `total` when a part begins (`Whole`).
* `AtomicCalls` (`MisalignedCallsAtomic`) combines `SurvivalInv` and `CountInv`: what a call is done with lies before the
  sector it works on, so its own next step does not touch it, and others cannot without the mutex.
* `TidyLosesNothing` and `Refinement` have `Tidy` as a hypothesis: no aligned write goes to a sector
  that a misaligned write rewrites. Without it both are false: that is `lost_update`. `StoreInv`
  adds that a byte was last written by a write whose range it is in (`Written`); with `Tidy` no aligned write can then have
  overtaken `tmpBuf`, so `Store` changes only the bytes of its call, and each step maps to a step of `ByteStore` or to a stutter.

**DiskReaderWriterProofs** assumes `CursorAssumption`: the requests of cursor calls are among those of the
handle, and the bound `MaxOffset` is not below the capacity. `CursorInv` adds to the handle's
invariant who has the cursor's mutex and at which offset its call is (`Seated`), and that a refused
call moved nothing (`Refused`); `CountIsHonest` then gives that the offset advances by what was taken (theorem `Tiles`).
`CursorUsesHandle` (`CursorSpec => Spec`) carries every theorem about the handle over to goroutines that share a cursor,
as `CursorRefines` does with the refinement of `ByteStore`.

**DiskSessionProofs** assumes `SessionAssumption` and `LibAssumption` (`Nil` is no connection or handle).
`SessionInv` says what each session has at each place of `Open` and `Close` (`Held`), that no two
have anything in common (`Apart`), that the first `Close` finds everything live (`FirstClose`), and that a
registration is left behind only in an Open that has failed (`Unrefused`). `Matched` counts sessions: that only finitely many have started is part of `MatchInv`, not an
assumption. `Refinement` rests on `StepRefines`, with one case for each library call.

**DumperAccessProofs** assumes `DumperAssumption` (positive numbers of tries). `AccessInv` adds that a
clash of identities is remembered in `shared`; `Matched` needs, as above, that finitely many
dumpers have a claim, and then shows that each step adds a registration only with its claim.

**DumperDisksProofs** assumes `LibAssumption` and the four modes. `DisksInv` says which handles may
stand over the connection of a side at each place of the methods (`OwnHandle`, `Bare`, `Settled`), in
which order `Cleanup` empties the sides (`CleanupInOrder`), and that what a caller may use is untouched
(`Provided`). `Findable` is `NothingOrphaned` with the kinds of field told apart, which is what `Cleanup` relies on.

**DiskCloneProofs** assumes `CloneAssumption`: positive sizes, areas of naturals. `CloneInv` is `Shape` (types, with the
buffer's length), `Progress` (the chunks asked for and the chunks to ask for make up all of them),
`Found` (the areas so far are runs of allocated chunks below the next query, in order), `Copying` (areas before
the current one are copied, the current one up to `currOffset`, and the buffer holds what follows, beyond
`readLen` too) and `OnlyAreasWritten`. That a run of allocated chunks lies around each of them would be
an induction over chunks; it is shown from the least element of a set of naturals, for which the library has a theorem.

**DiskMetadataProofs** assumes `MetaAssumption`, with finitely many keys in any one disk's metadata, as
`GetMetadataKeys` returns them in one buffer, and `ParamsAssumption`. `MemInv` says that what a
binding has made is live until one deferred call or `freeParams` takes it, that no two of them take the same (`Disjoint`), and
that together they take all of it at each stage; it is proved of `MemNext`, all that callers do to the bindings, so it holds for others as well. `MetaInv`
adds where `requireLen` comes from (`LengthInv`: it is too small, or too large, only with a cause),
what the source has held since the call began (`SourceInv`), and which keys are saved, which are ahead and
which one is under way (`ProgressInv`).

Model-checked only:

* the liveness properties `CallsReturn`, `CursorCallsReturn`, `CloneEnds` and `SaveEnds`: the prover handles
  neither fairness nor `ENABLED`;
* the five counterexamples, which are facts about an instance;
* that `MCDumperCopy`, a composition for TLC, behaves as its two parts.

## 5. Not modelled, and why

* What VDDK does with files and disks in the pass-through bindings (`Grow`, `Rename`, `Shrink` and the
  like): only their C memory is in this repository. `createDiskInfo`, which nothing calls.
* Constants and error codes, the thumbprint, JSON decoding: no state, or pure I/O.
* The counts of `Cleanup`, passed by value: the only caller ignores them.
* `remoteDiskInfo` of another disk than `readHandle` (`QueryAllocatedBlocks` after `ReadLocalDisk`), and a
  `CreateLocalDisk` of another name than that of the parameters: what VDDK answers is not stated, and
  file names are abstracted from.
* A `Close` while other goroutines read or write: what VDDK does with a closed handle is not said
  anywhere in the repository.
* One `VadpDumper` used by several goroutines: it has no lock, and no caller does so. That the calls of its two
  sides interleave in `DumperDisks` only makes the invariants hold in more behaviours.
* The use of a handle after `Cleanup`, and what a second open of one side orphans: the caller's to avoid.
* Buffers of 2^31 bytes and more (`int32` in `ReadAt`).

## 6. Plan

Done: the models of all parts, in the order `DiskHandle`, `ByteStore`, `DiskReaderWriter`, `VixDiskLib`,
`DiskSession`, `DumperAccess`, `DumperDisks`, `DiskClone`, `BindingMemory`, `DiskMetadata`, `DiskLease`; and the proofs of
their invariants and refinements.

Next:

1. `DumperDisks`: what `Cleanup` may release twice (the positive side of `dumper_twice`), as an invariant and a theorem;
2. a theorem that `ReadCount` of `DiskClone` is `WholeCount` of `DiskHandle`, for all ranges;
3. variants for the four loops, as action properties, from which the liveness properties would follow by hand.
