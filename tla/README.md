# Specifications of the YuGuang disk and file drivers

TLA+ models of the drivers in this repository that carry its hardest logic, the
TLC runs that check them on small instances, and machine-checked proofs about
all of them. Paths below are relative to `src/`.

- [The system](#the-system)
- [Modules](#modules)
- [Block mover: request path and lifecycle](#block-mover-request-path-and-lifecycle)
- [Block mover: lookup and contents](#block-mover-lookup-and-contents)
- [Paging-path notifications](#paging-path-notifications)
- [File locater](#file-locater)
- [Relocation](#relocation)
- [Encrypted disk](#encrypted-disk)
- [File system monitor](#file-system-monitor)
- [Runs](#runs)
- [Where the code and its comments disagree](#where-the-code-and-its-comments-disagree)
- [Proofs](#proofs)
- [What is not modelled](#what-is-not-modelled)
- [Plan](#plan)

To check a run: `tlc -config MCFileLoc_shared.cfg MCFileLoc`. To check the
proofs: `tlapm BlkMover_proofs.tla`, and likewise for the other `_proofs` modules.

## The system

The repository is a family of Windows products (secure deletion, backup, file
encryption, USB locking) and the kernel drivers and libraries they share. The
products are dialogs, command lines and sequential file processing. The state
that several threads share is in the drivers under `Tech/` and in the file system
monitor of `Products/davinci`.

| Component | State | Operations | Interacts with |
|---|---|---|---|
| Block mover filter, `Tech/BlkMover` | `g_pMoverData`, setup flags and buffers, the free space list, `g_MovingGroup`, `g_FinalGroup`, per device a list, an event and a worker thread | read and write dispatch, IOCTLs (enable, set parameters, filter, protect, move, relocate, post script), the worker | applications' IRPs from above, the disk driver below, a control program by IOCTLs |
| File locater, `Tech/FileLoc` | device extension with the address buffer, its size, the partition base and the sign; per process the DLL's globals | `Init_FileLocater`, `FL_LogicSector2PhysSector`, `Free_FileLocater`; in the driver OPEN, CLOSE, COPY, SET_SIGN and the write path | the DLL in several processes, the file system above the filter |
| Encrypted disk, `Tech/YGCryDisk` | the medium (a partition and its key), the hard disk's device object, a list and a thread | open and close medium, read, write, flush | programs from above, the hard disk below |
| Raw disk access, `Tech/YGDiskRW` | as the block mover's shell | read and write of sectors | the disk driver |
| Virtual partition and volume, `Tech/VirParti`, `Tech/VFS` | a list and a worker | read, write, media control | the block mover's disk |
| File system monitor, `Products/davinci/Davinci_tech/YGFSMon` | a hash table of open file objects, lists of monitored paths, a list of modified files, a mutex for each | hooks on create, write, rename, cleanup and close; IOCTLs that set paths, fetch the oldest record and clear | every file operation; the encrypting program of `Davinci_Advanced` |
| Secure delete service, `Products/DeleteMaster` | a schedule in files | start, stop, timed runs | the file system |
| Backup, `Products/FileBackup` | backup sets | backup, restore, squeeze | the file system |
| User interfaces, `DeleteLibrary`, `USBMaster`, partition, format and CD tools | none that is shared | sequential | the Windows API |
| Cipher and compression code (`Tech/crypto51`, `Tech/Lib/Crypto`, ZLIB) | none | arithmetic, vendored | - |

What makes the drivers hard:

- *Interleaving.* An IRP is tested in its caller's thread, queued, and served by
  a worker. IOCTLs that allocate and free what both read run in the control
  program's thread, without a lock.
- *Stale tests.* A bound or a pointer tested on dispatch is used when the IRP is
  served, after other IRPs.
- *Order.* A move is a long sequence of raw reads and writes with requests of
  applications in between; sectors may be moved several times, onto themselves,
  from either end.
- *Failure.* Allocations and lower writes fail, and the code often goes on.
- *Limits.* Fixed arrays, tables read in chunks.

What makes each modelled component correct:

- the request path completes every IRP exactly once, loses no wake-up and
  touches only live memory;
- the lookup sends every sector of a request to the place where its data is, and
  nothing else moves: the programs above see an ordinary disk;
- a device below which a paging file lies is not pagable;
- the file locater returns the places of the marked sectors and keeps marks off
  the disk;
- relocation keeps every sector at one place or at two that agree, and always has
  a buffer for the table it needs;
- the encrypted disk gives back what was stored, under the key it was stored with,
  leaves other partitions alone and can be opened again;
- the monitor forgets no file that was written before it has been encrypted, and
  its lists stay lists.

## Modules

| Module | Models | Kind |
|---|---|---|
| `BlkMover` | `SYS/2000/Iomon.C`, `DevCotl.c`, lifecycle part of `SYS/Blkmover.c` | one action per step of a process |
| `BlkMover_proofs` | - | theorems about `BlkMover` |
| `BlkMoverMap` | the lookup of `SYS/Blkmover.c` | pure operators |
| `BlkMoverData` | the disk's contents under moves, over `BlkMoverMap` | one action per IRP |
| `BlkMoverData_proofs` | - | theorems about `BlkMoverData` and `BlkMoverMap`: the lookup, the copies, the refinement |
| `VirtualDisk` | what the block mover promises | abstract specification |
| `PagingPath` | the usage-notification branch of `BlkMovDispatchPnp` | one action per step of a thread |
| `PagingPath_proofs` | - | theorems about `PagingPath` |
| `FileLoc` | `FileLocL/2000/YGFLoc.c` with `DLL/2000/Fileloc.cpp` | one action per step of client and thread |
| `FileLoc_proofs` | - | theorems about `FileLoc`: the queue, the buffer and crashes |
| `FileLocAddr_proofs` | - | theorems about `FileLoc`: types, addresses and the disk; extends the other |
| `Relocate` | `DoReLocate` and the `RM...` functions of `SYS/Blkmover.c`, their IOCTLs and dispatch | one action per step of request and control program |
| `Relocate_proofs` | - | theorems about `Relocate` |
| `CryDisk` | `YGCryDisk/Cur_Ver/SYS/2000/YGCryDisk.C` | one action per step of dispatcher and thread |
| `CryDisk_proofs` | - | theorems about `CryDisk`: the queue, the references and NULL, what is stored and read |
| `FSMon` | `YGFSMon/Cur_ver/Sys/YGFSMon.c` with the encrypting thread of `Davinci_Advanced/.../YGFSMon/MainWnd.cpp` | one action per half of a critical section |
| `FSMon_proofs` | - | theorems about `FSMon` |
| `MC...` | instances | constants, plans, contents, symmetry (`MCFSMon`, `MCBlkMoverData`) |

`BlkMoverData` EXTENDS `BlkMoverMap` and instantiates `VirtualDisk`. `BlkMover`
and `BlkMoverData` describe the same driver from two sides. `BlkMover` has all of
the interleaving and none of the contents: a transfer succeeds or fails.
`BlkMoverData` has the contents and takes an IRP as one step, because a single
worker serves one IRP at a time to its end, which `BlkMover` shows. `Relocate` is
the driver's other way of moving, which excludes the first: `g_bReLocate` and the
mover's block are used by different control programs. `BlkMover` has its flag and
takes a relocated IRP as one step (`ThreadReLocate`); `Relocate` has the inside.

Operators named `...Once`, `...Swapped`, `...Forgets` and so on, with a comment
that begins "Mutant of", are variants of a definition with a plausible mistake.
No specification uses them: each shows that some property would notice.

## Block mover: request path and lifecycle

`BlkMover` follows three kinds of process.

*Dispatching threads* (`caller[r]`, one per IRP) run `BlkMovReadWrite`:
`DispatchCheck` tests `g_pMoverData`, `DispatchDeref` uses it, `Insert` and
`Signal` queue the IRP and set the event, `DispatchReLocate` tests the
relocation flags or passes the IRP down. `Layout` and `LayoutDeref` are the case of
`BlkMovDeviceControl` that any program may reach, `IOCTL_DISK_GET_DRIVE_LAYOUT`: it tests
`g_pMoverData` and uses it as the others do (what is in `g_partitionInfo` is left
out). Each step reads or writes shared state once.

*The worker* (`tpc`, `cur`) runs `Thread` and, inlined, `BlkMoverRelocateReadWrite`.
`ThreadWait` consumes the auto-reset event; `ThreadPop` takes the head of the list or
goes back to sleep; `ThreadCheck`, `ThreadDeref`, `ThreadSpace`, `ThreadPlain`,
`ThreadProtect`, `ThreadGroup` and `ThreadCompare` are the branches in the order
of the code.

*The control program* (`ctl`, `on`) issues one IOCTL at a time. `Enable`,
`EnableAlloc` and `EnableInit` are `EnableOrDisable(TRUE)`; the seven steps from
`Disable` to `DisableBufNull` are `EnableOrDisable(FALSE)` in its order of
assignments and frees; `FilterOff` and `PostScript` free too. `SetParam` and `FilterOn` take a step
for every global they assign that others read. `FilterOff` asks nothing but whether there is a
block, as the code: `FilterOffFree` frees whatever `g_pCompInitBuf` refers to, so a filter that
is switched off twice, or was never on, is a bug check or goes unnoticed. `CtlSubmit` queues
an IOCTL, or answers it at once when `IoAllocateMdl` finds no pool.

Freed and uninitialised memory. `data` is `none`, `uninit`, `live` or `freed`. A field
of a block that is not live reads as anything (`Reads`), a NULL pointer crashes,
and following a pointer found in freed memory may crash (`ThreadGroup`,
`ThreadProtect`, `ThreadSpace`). A crash stops the system, so these runs do not
check deadlock.

`g_pCompInitBuf` is never set to NULL: after `FilterOff` it goes on referring to
freed pool, for as long as the driver runs. What keeps it from being used is that every
use of it is behind `bInitSec`. `StalePoolOutOfReach` says so: whenever that flag can be read and is on, the
buffer is there, in whatever order filter, enabling and disabling are called; the
other pointers refer to freed pool only inside the call that frees it.

`raced` is history: the processes that tested a pointer before a lifecycle call
ran. `CrashNeedsLifecycleRace` says that with memory to spare nothing else makes an I/O
path fail, which is what the pointer tests are there for, and that the control program
stops the system only by switching off a filter whose buffer is not there. That the race itself is
possible is visible in the model: the driver has no lock against it.

Fairness in `FairSpec`: the worker is a system thread at raised priority, the
dispatching threads and the control program run on, and the lower driver completes what it
accepts. Nothing is assumed about new requests or new IOCTLs. `QueuedIsAnswered`
excludes a device whose worker was not created, since `BlkMovAddDevice` ignores the
result of `CreateThread`.

## Block mover: lookup and contents

`BlkMoverMap` is the lookup as operators over small integers. A request becomes a sequence
of transfers `[lba, at, len]` in the order the driver issues them.
`SearchFromSysGroup` cuts it at the system groups, `SearchFromGroup` at the data
groups recorded so far (sorted by `AddToFinalGroup`), and `MovedGroup` at the window of the
group that is being moved. The loops over tables and array (`Walking`, `Collecting`, `Cutting`)
are functions of how many entries have been passed, so that proofs can speak of every stage.
`g_FinalGroup` is an argument and a result, since it survives from call to call.

`BlkMoverData` adds the disk, the requests of applications (`Read`, `Write`, `Refuse`)
and the control program: it switches on write protection, copies the system groups
chunk by chunk, in any order (`ReadSys`, `YgWrite`; `copied` is what is done), then starts one
data group after another (`MovingGroup`) and copies each (`ReadGroup`, `YgWrite`). The control program's source is
not in the repository, so its order of calls is taken from what the driver's flags
and comments require. One condition on it is named: `Legal` is the plan of moves: a group is where its
record says, its target holds no other sector in use, and sectors are moved as a group or not at all.

Applications may write at any time, also between the raw read of a chunk (`Iomon.C:1080`) and its
raw write (`Iomon.C:1100`). The driver has nothing against it: the worker serves such a write at the
source, and the chunk that was read earlier replaces it at the target. The write is lost. `Copying` are the
sectors this can happen to, those read and not yet written, and `stale` is history: what the buffer has of a
sector that was written meanwhile (`Overtaken`). `CopiesInStep` and the promise of `VirtualDisk` let such a
sector fall back to that, and no other.

The lookup does not find every sector on any plan and any disk. `Orderly` says on which it does, and
each of its conditions is needed:

- `Failing = {{}}`, tables can be read: with `{{}, {"data"}}` a failed read of the table (`Blkmover.c:771`, `682`)
  ends the search with `break`, and the request is served unmapped and reported as
  success; `Implements` is false;
- each table fits one read of `ChunkRecords` (16 384 records in the code): in a longer one the second chunk is
  misnumbered (`Blkmover.c:684`, `773`: the page index is multiplied as if it counted
  chunks) and `LookupFinds` is false;
- `Leftover` is empty, as the loader clears `g_FinalGroup`: after a sector was moved
  twice, `nCurPos` (`Blkmover.c:788`) counts one entry more than there are, so
  that a stale one of an earlier move in the same boot may be used and `LookupFinds` is false. Within one move the
  entries that are left are harmless, which is `Fits` in the proofs;
- no group is moved from its front: the run `front` shows what happens;
- no group goes to where a system group was: the run `stray`.

The instances `tables` and `contents` are orderly, which TLC checks as an assumption of `MCBlkMoverData`.
`DataAssumption` has what concerns the sizes: groups lie on the disk, system groups apart and in order, and
there are no more moves than entries in `g_FinalGroup`.

`VirtualDisk` is the promise: sectors keep what was last written to them, whoever
moves them, except that a write to a sector which is just being copied may come undone. Its step `Move` is the
only one that changes a sector without a request, and only one with something in `stale`, which only a write
to a sector being copied puts there and any later write takes away. The refinement mapping is
`content[x] = disk[Where(x)]`, where `Where` is the current address of a sector, and `copying <- Copying`.
`Implements` checks initial states, every request as a step of the disk and every step of the move as a
stutter or a `Move`.

## Paging-path notifications

`PagingPath` is the part of `BlkMovDispatchPnp` that keeps `DO_POWER_PAGABLE` in step
with the paging files below the device. Each notifying thread waits on
`PagingPathCountEvent`, adjusts the flag, calls the lower driver, adjusts count and
flag, and sets the event. The event is created as a `NotificationEvent` that is
signalled; no call clears it. `overlapped` remembers whether two threads were ever past
the wait together, and `PagableUnlessOverlapped` says that the flag is right if not.
Fairness: a notification that was delivered runs on, and the lower driver answers.
`YGDiskRW.c` has the same code.

## File locater

A program learns where a file's sectors lie on the disk by writing sectors with a
sign, an index and a pattern into it. The filter notes the disk address of each in a
buffer and drops it; the program then asks for the buffer. In `FileLoc` a file is a
few writes (`Runs`) whose entries are `Plain` or the index in the buffer.

Client actions are the DLL's calls: `Init_FileLocater` (OPEN is queued), `SetSign` (takes
effect in the caller, at once), `ReadWrite` (the file system writes a run: queued if
`bInited`, else passed down), `CopyData` and `Free_FileLocater` (tested in the caller,
then queued). `ClearBuffer` and `ClearRest` are the inline reset of CLOSE when there
is nothing to free, which runs beside the thread. Thread actions are `Take`,
`ServeWrite`, `ServeUnmapped`, `OpenFree`, `OpenAlloc`, `OpenInit`, `ServeClose` and `ServeCopy`.
`ServeUnmapped` is a write for which `MmGetSystemAddressForMdlSafe` returns NULL: the thread follows it.

The format of a marked sector is abstracted to whether `IsOurLockSector` accepts it
and to its sign; the sign matters because each process starts at 1 and the device has
one. `alone[c]` is history: no other program was on the volume since `c` began.
`LocatedRight` and `MarksStayOff` are about a program that is alone; with two the
protocol has no owner and both are false. `CrashNeedsSharing` says the thread
frees or dereferences NULL only then, or when memory was short: a failed allocation, or a write that
could not be mapped. `noBuffer` is history too. Free and copy results are not looked at by the DLL, and the model's client goes on as it does.

Fairness: the thread runs while there is work, and a program inside a query goes on with it.

## Relocation

Relocation copies groups of sectors to targets behind all of them, in order. Until
the last copy every write goes to both places and reads go to the old one; when
`g_dwRePointer` reaches `g_dwMaxSec` all requests are mapped. The groups' tables
are on disk, one per *region*, and at most `MAX_DATA_REGION_LOADED` of them are in
memory: a region without a buffer takes that of the region loaded first.

`holds[r]` is the table in region `r`'s buffer (0 without a buffer), `lru` the list the
buffers are taken from. `Groups` are all groups in order and `Ends` where each region ends among
them; `Regions` are the tables they make on disk. Actions of the control
program are the IOCTLs (`RMInit`, `RMExit`, `RMSetGroup`, `Enable...` and `Disable...` in as
many steps as they have assignments, `YgRead`, `YgWrite`). A request of the application
goes through `Submit` and either `Lower` or the worker's `Check`, `RangeTest`,
`PointerTest`, `FirstGroup`, `Group`, `NextGroup`, `Final`, in the order of `DoReLocate`.

The control program is not in the repository. That it sets all regions before it
enables relocation, copies the groups in order and does not disable it after the last
copy is assumed. What the code does in corners that the properties excuse:

- A request that starts behind the last region and inside the range finds no group; the
  driver reports success without any transfer (`Blkmover.c:503`).
- When a table cannot be read the buffer still has another region's, the region counts as
  loaded, and nothing corrects it (`spoiled`).
- A second `IOCTL_RM_BLKMOV_INIT` empties the list while regions keep their buffers
  (`again`); the next region that needs one then follows NULL.
- `DISABLE` clears flag and range one by one. A request that passed the flag test may
  meet `g_dwRePointer = g_dwMaxSec = 0`, which looks like the end of all copying.
- A write that was passed down before relocation was enabled, and one that is served
  between the two halves of a copy, may be missed by the copy, and a failure of one part of
  a request is forgotten when a later part succeeds.

Only safety is checked: no property needs fairness.

## Encrypted disk

`CryDisk` is a device whose sectors are those of a partition of the hard disk, decrypted
with the key of the open medium. `TestMedia`, `Insert` (which tests the bounds first) and `Signal` run in
the caller's thread, per IRP; `Wait`, `Take` and the `Serve...`, `OpenMedia`, `CheckAndInit`
and `CloseMedia` actions are the thread. Opening and closing are queued behind the tests
that depend on them. `stale` is history: the requests that were on their way when
a medium was opened or closed; `contended` says that two requests to open or close were on
their way at once, in which case the second OPEN overwrites the reference that the first
has taken.

The cipher is abstract: a sector is stored with the key it was encrypted with, and another
key gives junk that never has the mark of a first sector. The first sector is not abstract,
since the driver changes it: on a write of a boot sector `ToDisk` puts the disk's mark,
type and checksum in place of the signature, on a read `FromDisk` puts the signature back,
and `Recognised` is the test on opening, which looks at the mark and at the type, the highest bits of the
signature (`Types`), and not at the rest of it. A first sector without the signature is written
as it is, and the partition cannot be opened any more; `OpensAgain` excuses it. Programs are assumed to
store no sector that carries the mark itself.

`KeepsData` is stated for the whole hard disk: sectors of other partitions, or outside all
of them, hold what they held. `unsure` collects the sectors nothing is promised of: writes
tested for another medium, and writes that failed and were reported as done
(`YGCryDisk.C:951`). `ReadsBack` compares a read with what was stored as `FromDisk` shows it: a first
sector that a program stored with the disk's own type and checksum comes back as a boot sector.

`ServeUnmapped` is a transfer for which `MmGetSystemAddressForMdlSafe` returns NULL; `crash` tells it from a
device object that is NULL, which is what `CrashNeedsStaleTest` is about. `FlushMedia` flushes nothing: with a medium
it leaves `STATUS_PENDING` in the IRP it completes, without one it puts `STATUS_DEVICE_NOT_READY` there.

Fairness: the thread is not starved, and a caller goes on with its request. Nothing is
assumed about new requests. `Answered` is per IRP.

## File system monitor

The monitor gives each open file object the name it was opened under, marks the entry when
the file is written, and on cleanup or close moves the entry's mark into a list of modified
files that the encrypting program fetches, oldest first. All lists are changed with their
mutex taken by `ExAcquireResourceSharedLite`, which keeps nobody out. Each section is
therefore two steps in `FSMon`: up to the last pointer read, and the writes (`LogHash` and
`Push`, `Find` and `Unlink`, `AddConvertRecord` and `Append`, `GetOldestRecord` and `Pop`). A walk
along a list is one step.

Names. `YGFSMonGetFullPath` looks an object's name up and otherwise makes one. For an object opened by
an absolute name that is the file's. For one opened by a relative name it is made of the objects it
is relative to, nearest first, without separators and without the object's own name (`YGFSMon.c:5383-5401`):
the name of the directory, of another file or of nothing. There is none when it gets too long or a part of it is missing, or
has been freed by the file system when it is asked for. `Paths` has, for each file, every name that may be made of
an object opened by it, `Nil` included; an object gets one of them when it is created. A write through an object that goes by another name
is entered under that name, so nothing is entered for the file itself, and such files are
excused. When the name is that of a directory, the program encrypts the directory, which does no harm to the
properties. The targets of renames are taken as full paths.

Abstractions: one chain of the hash table; the lists of monitored paths are filled or
empty (`listed`), with each file's match in `Node`; whether the calling process is excluded
is chosen with each call (`excl`); `YGFSMonHookDone` is part of the step of the file system
below it; the pools are as large as `Cells` and `Records`. The driver is loaded with files
already open, and it is stopped, or started with its lists filled.

`overlapped` is history: a list was written inside another thread's section. The
constraint `NotOverlapped` stops there, because memory is corrupt from then on and nothing is
claimed. What the run shows is that these races are the *only* way to corrupt a list. The
remaining hazards need no race of sections: two threads that miss the same object's name
and both add an entry (`duplicated`), a rename between the entry of its target and its
completion, a record that is merged with a later entry. `dirty` are the files whose
encrypted copy is older than a write the monitor saw; `ModifiedIsTracked` says that each is
in somebody's hands: an entry or a record says MODIFIED, or a fast write, which reaches the file first,
is on its way to the entry, or the program has fetched it. `Fetch` takes a record out and `Encrypt` ends its encryption;
a write between the two makes an entry of its own. `excused` are the files for which the code cannot keep this: those of calls on a handle that is
cleaned up or renamed meanwhile (`Rivals`); those written through a handle that goes by another name, because it was opened by a relative one or the file
was renamed since; modified files renamed without the monitor seeing it, by an excluded process or while it is stopped, under
their new name; those whose name was not to be had or whose record was not allocated; those that were fetched and not
encrypted, for whatever reason (`ThreadEncryptFile` ignores the result and leaves out files that are gone and names that
end in `.chy` or `.ary`); and all at a CLEAR. `Rivals` names the file the handle was opened by, as the
entry does. The file's own name does not do: renames through other handles can lead it away from
that name during both calls and back to it. It takes more handles and calls than the run has, and was found by
the proof of `Tracks`.

## Runs

| Run | Instance | Shows |
|---|---|---|
| `ioctls` | 1 IRP, the lifecycle IOCTLs and the queued ones; 0.9 million states | `TypeOK`, `IrpAccounting`, `WakeupNotLost`, `StalePoolOutOfReach`, `CrashNeedsLifecycleRace`, `UninitNeverQueues` |
| `live` | 1 IRP, queued IOCTLs, relocation on and off, allocations may fail; 0.5 million states | `QueuedIsAnswered` |
| `tables` | 7 sectors, 1 system group, every legal pair of back-to-front moves of 1 or 2 sectors | `TypeOK`, `LookupFinds`, `NoStrayTransfer` |
| `contents` | 6 sectors with 2 contents, a group that overlaps its target and is moved twice, writes at any time; 41 thousand states | `CopiesInStep`, `Implements` |
| `overlap` | 2 threads, 3 paging files | `TypeOK`, `PagableUnlessOverlapped`, `NotificationAnswered` |
| `shared` | 2 programs, 1 query each, allocations and writes may fail; 0.4 million states | `TypeOK`, `LocatedRight`, `PlainWritten`, `CrashNeedsSharing`, `MarksStayOff`, `QueryEnds` |
| `relocate` | 3 regions of which 2 have room, 2 requests, memory and disk may fail; 0.8 million states | `TypeOK`, `CacheSound`, `CrashNeedsSecondInit`, `KeepsContent`, `ReadsBack` |
| `queue` | 2 IRPs, 4 requests, 2 partitions on 3 sectors, one also opened for another cipher, disk and memory that may fail; 0.6 million states | `TypeOK`, `CrashNeedsStaleTest`, `ReferencesBalanced`, `KeepsData`, `OpensAgain`, `ReadsBack`, `Answered` |
| `hooks` | 2 threads, 2 file objects, 2 files, absolute and relative names, 3 calls, up to the first race; 1.3 million states | `TypeOK`, `MemorySafe`, `NoEntryOutlivesItsObject`, `ModifiedIsTracked`, `OneRecordPerFile` |
| `front`, `stray`, `synchronized` | see the next section | a property that does not hold |

Bounds, and why they are enough:

- *IRPs.* The races of `BlkMover` are between one IRP, the worker and the control
  program; a second one is needed only to have two on the list, which `ioctls` has with
  the IRP of an IOCTL. The theorems hold for every number. One sector suffices: an extent meets the range or does
  not.
- *Sectors and groups.* A request of three sectors can start before, in and after
  a group and can straddle a system group; two moves contain a move that follows another, one
  that goes onto its own place, and one of the same sectors again. `MaxChunk = 2` gives a
  window that grows by one and by two.
- *Contents.* `contents` uses two values so that a sector read from a wrong place is seen;
  `tables` needs one value, since it is about addresses. The two values are symmetric: no action
  tells them apart.
- *Paging files.* Three make a count that is 0, 1 and more than 1.
- *Queries.* One query per program between its Init and its Free; the next Init starts from
  what the last one left, with the address buffer of the query before. The files have
  unmarked sectors in front of and behind a marked one, and two marked ones in another order
  than their numbers. `PlainWritten` is about the unmarked sectors behind the last marked one:
  the status of a write is that of its last part.
- *Regions.* Three with room for two is the least at which a buffer is reused. The instance has a
  gap between groups, a sector in front of the range and one behind the last group; its groups have one
  sector each, longer ones are left to the theorems. Two
  requests make a write and the read that finds it; `MaxCalls = 3` allows initialising
  twice and enabling. One transfer of a request fails.
- *Media.* Two partitions, one of them also passed with the type of another cipher: a request tested for one medium can be served with the
  other, and an opening can fail. The partitions have different lengths, so that bounds tested for one
  do not fit the other. One first sector that is written looks like the disk's own but for the mark. Two IRPs can be two opens, or a transfer behind a close. Four requests are open, write,
  close and open.
- *Calls of the monitor.* Two threads and three calls contain each pair of calls on one object and one
  call after it; files are open when the driver is loaded, so that no call is spent on opening
  them. In the instance those go by their own names (`InstanceInit`) and the ones that are created later by any
  (`MCPaths`); the theorems are about both. Two cells and two records make the pools run out.
- `CHECK_DEADLOCK FALSE` is set where a crash ends the behaviour.

## Where the code and its comments disagree

Three runs check one property each that a comment or a test in the code states,
and TLC finds the behaviour of the code that contradicts it.

- `front` (`Blkmover.c:860`): `Blkmover.c:4-6` promises "original to current location
  lookup". For a group moved front first the whole target counts as moved
  (`dwMovedSize = g_MovingGroup.dwSize`), and the first lookup after the group is started
  goes to sectors that nothing was written to.
- `stray` (`Blkmover.c:694`): in front of a system group the data groups are searched
  with the length of the whole rest of the request, `dwEndSec-dwCurPos`, instead of the
  `dwSecs` in front. In TLC's trace the group at 2 goes to 1, where the system group was, and nothing of it
  has been moved yet; the request is for sectors 0 and 1. The piece that is searched is `[0,2)` instead of
  `[0,1)` and so meets the target at 1; `ReadWriteFromMovedGroup` (`Blkmover.c:885-889`) then transfers all of it shifted by the
  distance of the move, as `[lba 1, at 0, len 2]`. Sector 0 is misdirected to sector 1, and the system sector to sector 2,
  where application sector 2 still is. The search advances by `dwSecs`, so `[lba 5, at 1, len 1]` follows and puts the system sector
  right, not sector 0: a read returns wrong data for it, and a write leaves it as it was and destroys sector 2.
- `synchronized` (`Iomon.C:1157`): "must synchronize paging path notifications"
  (`Iomon.h:37`) and "set the event so the next one can occur" (`Iomon.C:384`), but the
  event is created signalled as a `NotificationEvent` and stays so.

One more has no run of its own: the caller of `AddToFinalGroup` is prepared for a full array,
`if(!AddToFinalGroup(FinalGroup,nCurPos)) return STATUS_PENDING;` (`Blkmover.c:785-786`), but
the function always returns TRUE and shifts entries past the end of `g_FinalGroup[32]`
(`Blkmover.c:1146`). `BlkMoverData` takes no more moves than the array has entries (`MaxGroups <= Slots`).

## Proofs

Eight modules hold theorems about the seven state machines, each for every value of its constants under the
named assumptions of the model. Four about `BlkMoverData` have `Orderly` as a hypothesis.

| Module | Theorem | Property |
|---|---|---|
| `BlkMover_proofs` | `TypeCorrect` | `[]TypeOK` |
| | `OnePlace` | `[]IrpAccounting` |
| | `NoLostWakeup` | `[]WakeupNotLost` |
| | `FreedOutOfReach` | `[]StalePoolOutOfReach` |
| | `CrashOnlyByRace` | `[]CrashNeedsLifecycleRace` |
| | `UninitHarmless` | `UninitNeverQueues` |
| `BlkMoverData_proofs` | `Typed` | `[]TypeOK` |
| | `Finds` | `[]LookupFinds`, if `Orderly` |
| | `NoneStray` | `[]NoStrayTransfer`, if `Orderly` |
| | `CopiesKept` | `[]CopiesInStep`, if `Orderly` |
| | `Refines` | `Implements`, if `Orderly` |
| `PagingPath_proofs` | `TypeCorrect` | `[]TypeOK` |
| | `FlagAgrees` | `[]PagableUnlessOverlapped` |
| `FileLoc_proofs` | `NullOnlyShared` | `[]CrashNeedsSharing` |
| `FileLocAddr_proofs` | `TypeCorrect` | `[]TypeOK` |
| | `LocatesRight` | `[]LocatedRight` |
| | `MarksNeverWritten` | `MarksStayOff` |
| | `PlainReachesDisk` | `[]PlainWritten` |
| `Relocate_proofs` | `BuffersSound` | `[]CacheSound` |
| | `BufferToReuse` | `[]CrashNeedsSecondInit` |
| | `TypeCorrect` | `[]TypeOK` |
| | `ContentKept` | `[]KeepsContent` |
| | `ReadsStored` | `[]ReadsBack` |
| `CryDisk_proofs` | `TypeCorrect` | `[]TypeOK` |
| | `NullOnlyStale` | `[]CrashNeedsStaleTest` |
| | `HeldWithMedium` | `[]ReferencesBalanced` |
| | `KeepsStored` | `[]KeepsData` |
| | `OpensWithKey` | `[]OpensAgain` |
| | `ReadsStored` | `ReadsBack` |
| `FSMon_proofs` | `Typed` | `[]TypeOK` |
| | `Safe` | `[]MemorySafe` |
| | `OneRecord` | `[]OneRecordPerFile` |
| | `NoEntryOutlives` | `[]NoEntryOutlivesItsObject` |
| | `Tracks` | `[]ModifiedIsTracked` |

*Block mover.* For every finite or infinite set of IRPs and sectors, every subset of `Ioctls`
and both values of `AllocMayFail`. None but `TypeOK` and `WakeupNotLost` is inductive. The
strengthening is in conjuncts, each with its own step lemma:

- `IrpInv` is `TypeOK`, `IrpAccounting` and `IrpPlace`. `IrpPlace` ties where an IRP is to
  the program counter of the process that holds it (a thread at `insert` holds an IRP
  in dispatch, not on the list); without it `Insert` could queue an IRP twice.
  `AppendOnce` and `TailOnce` carry "no entry twice" over the two operations on the list.
- `PoolInv` adds to `StalePoolOutOfReach` that the filter flag is off while its
  pattern buffer is being freed, and that between allocating the buffer and setting the flag the buffer is there.
- `CrashInv` has two more parts. `SetUpInv` says that what the control program has
  set up it has set up completely: a working or protected mover has its group buffer, an enabled one its
  block. `TestedInv` says that outside the lifecycle calls what a process tested is
  still there, unless the process is in `raced`. `OvertakeAll` shows that a
  lifecycle step puts every process past its test there.
- `UninitInv` keeps the range empty from `Enable` until the block is cleared.

The frame lemmas `ControlFrame` and `ThreadFrame` state once what the actions of a
process leave alone.

*Lookup and contents.* For every disk, tables, plan, size of chunk and request, and any contents. What a search returns is a
sequence of transfers, and two descriptions of it do the work: `Bounded` (all within the request's buffer) and `Exactly(out, lo,
hi, place)` (each place in the buffer is reached, and every transfer that reaches it comes from the address `place` gives).
`ExactlyBoth` puts two such pieces together. From there, loop by loop:

- `MovedExactly`: the window of the moved group. It is as long as the whole group and so reaches past its end, which does
  no harm to a group that is moved from its end.
- `CollectLists`: after the table has been gone through, each group that meets the request and was not moved
  again later (`Newest`) is among the first `n` entries, with its last final address and earlier groups only in front of
  it. The difficulty is `nCurPos`, which counts a group once for every move: `n` may name entries that an earlier call left. `Fits` is what keeps these harmless: every
  entry, of whatever call, is free or has the place and size of a recorded group. Groups are apart, so that only the first
  entry that overlaps a sector counts, and that is the one just written (`AddKeeps`, `AddLists`).
- `SearchFinds`, by `CutPlaces`: what has been passed is exactly at `DataHome`, and all groups still to come are in the rest of
  the array (`Passed`, `StillToCome`).
- `SearchWalks`: in front of a system group the rest of the request is searched, which is too much, so `Exactly` is lost. What is left
  is `Found`, about the last transfer of each sector, and `Near`: a transfer goes to a sector's address now or, for a system
  sector, to where it was, and `HomeInv` keeps that place free of everyone else.

The loops are functions by recursion over a finite index, and what they compute is shown by induction over that index (`Numbers`,
from well-foundedness).

`TypeInv` has the mover (`w` is the last record), the groups (each on the disk, and any two apart or at the same place) and the
chunk (which sectors it is of). `HomeInv`: no two sectors are at one place, nobody is where the system's sectors
were, and nobody else where the group being moved goes, which is upwards if it overlaps its target.
A step that counts sectors as moved (`WriteHomes`) and one that starts a group (`MovingHomes`) keep it, by `Legal`. With `Fits(final)`
these are `Inv`, from which `Finds` and `NoneStray` follow.

For the contents `Fresh` says that the chunk has for each of its sectors what the sector holds now, or what `stale` says of it, which is what a
write of an application during the copy leaves.
`WriteFinds` and `ReadFinds` say what a request does at the current addresses, with the last transfer of each sector deciding. Under
write protection the plain transfers come first and the relocated ones repeat them (`BothWrite`), which keeps `CopiesInStep`.
`StepImplements` maps a request to the step of `VirtualDisk` and the rest to stutters or to its `Move`; `ChunkKeeps` and `MovingKeeps` are the two
that change where sectors are.

*Paging path.* For every finite set of threads. The bounds of the count are not inductive: `Room`
adds the notifications under way, so that the count stays in range whatever becomes of them.
`FlagInv` says what the flag is while the one thread past the wait has set it and not yet
counted; lemmas separate what threads do inside from what they do at the door.

*File locater.* For any number of programs, any files and any size of the buffer. `QueueInv`: every IRP on the
list or with the thread has its program waiting for it, and no two are the same request.
From it follows that a program that is alone has the only IRP there is, and `AloneInv` says what
then holds of the device: from the end of its OPEN to its CLOSE there is a live buffer of full size.

`FileLocAssumption` says what files are: the writes of all files are apart on the volume, and a file's marked sectors
are numbered from 0 on, each once, below `Num`. `FileLocAddr_proofs` goes on from there. `KeptUnmarked` shows that the
loop's runs are together the sectors that are not marked, wherever the marked ones are; it needs greatest and least
elements of sets of numbers (`Largest`, `Smallest`). `MessageInv`: what is queued carries the sign its program uses now.
`SizeInv`: for a program that is alone the device has its full size even if there is no buffer, so that every marked
sector is recognised; from it follows `MarksStayOff`. `AddrInv`: with a buffer, the address of each marked sector whose write was
served is noted, and later ones do not replace it, since no two have a number in common; COPY then returns them all.
`WriteInv` is `PlainWritten` during the whole query; a write of another program or another part of the file keeps it, since
the areas do not meet. It needs no program to be alone.

*Relocation.* For any groups, any division of them into regions, any requests and any number of buffers. `ListInv` keeps the list free of
repetitions and on regions that have a buffer, `BufferInv` counts: the regions with a buffer are as many as
`Least(set, MaxLoaded)`, and until the second INIT the list names them all. A region
without a buffer therefore finds the list non-empty. That a search returns a region that has been set
needs the least element of a set of numbers (`Smallest`), which comes from well-foundedness.

`RelocateAssumption` says that groups lie in order and apart and their targets behind all of them, the last one's up to
`g_dwMaxSec`, that regions divide them, and that requests lie in front of the targets; `Places` draws from it that no two
sectors share a place. The contents rest on `Whole`. `FlagInv`: only the last copy puts the pointer to the maximum, except
when both are 0. `RequestInv`: a request on the walk is a write that went to its own place as well, and then groups are
still to be copied, or all are copied, or it was taken for one after the last copy and all of its sectors are bad. `DataInv`: outside the request of the
worker, a sector's own place is up to date until the last copy, its target from its copy on, and what was read of the group
being copied until it is written. None of this is enough for a request in the middle of the
walk, of which other parts have been transferred already, so `PassedInv` says that the groups before the current entry
end in front of what is left: what lies in front of the entry's group is then in no group (`FrontOutside`). `WriteInv` and `ReadInv` say
the same of the sectors left behind. A step of the walk is split by `Pieces` into the part in front and the part inside
the group, for every place where a request can begin, end or have a gap; `FoundRegion` and `AllPassed` are the steps
from one region to the next. A table that could not be read (`spoiled`) ends all claims about contents, but not the types.

*Encrypted disk.* For every set of IRPs, media, requests and sectors. `PlaceInv`: an IRP is on
the queue once or with the thread, and the thread is at the step its request asks for. `DataInv`: what is on
the disk are sectors. `MediaInv`: while at most one request to open or close is on its way,
device, flag and references agree, and a pending request that is not stale was tested for the medium
as it is.

`CryDiskAssumption` says that partitions are apart, that with the key and the type of a partition only its own parameters are passed
where it starts, and that programs store no sector with the disk's own mark `Y`, which would make any sector look like
a first one. `LayoutInv`, again while at most one request to open or close is on
its way: an open medium is a partition the disk is formatted for, with the checksum that is remembered, and what waits in
time lies inside it. It needs that the mark is found in first sectors only, which is one of its conjuncts and what
the assumption about stored sectors is for. `SureInv` says of each sector nothing has spoilt that it has its partition's
key, shows what was stored, and as a first sector has mark and checksum whenever what was stored was a boot sector.
The three properties follow from the two.

*File system monitor.* For any numbers of threads, objects, files, entries and records, and any calls. The model's walks are
functions defined by recursion, so the lists come first: `IsList(n, s, ...)` says that `s` enumerates a list's `n`
different nodes in order, `WalkList` that a walk visits them and then nothing, `StopsOnce` that a search stops at the first
node it looks for, `ListPush`, `ListAppend` and `ListRemove` what the three writes make of a list. Induction is over sets
of numbers (`Numbers`, from well-foundedness). `FSMonAssumption` says that the two pools have no node in common, being two
lookaside lists, and that threads, cells and records are finitely many.

`TypeInv` has what a thread holds in each part of a call and that nothing else happens to an object during a create or a close
of it. `MemInv` says that until the first write inside another thread's section both lists are lists: `Place` puts every
allocated cell in the table or into the hands of one thread, and says that what a thread has read (the head, an entry and the
one before it) is still so; `Room` says the same of records, of the end of the list and of the agent, and that no two
records of the list are of one file. `MemorySafe` and `OneRecordPerFile` follow; neither is inductive, since a thread
is safe only because what it read before is still true.

`TableInv` goes on from there, until two threads name an object at once. An object may have several entries: a rename puts
in one for its target without looking for another, and takes out the first one it finds, not its own. So `Counted` counts: an object
has one entry, and one more at most for each of its renames that is between the two. A close or a create has its object for
itself (`Alone`), so that only one entry is left to it, and takes that out (`LastOut`); this is why `NoEntryOutlivesItsObject`
holds although an object is cleaned up, closed and created again between steps of other threads.

`Tracking` follows a modified file from call to entry to record, for every file that is not excused. `Made` and `Says`: an entry says what
its object was opened by, or is the first entry of a rename on its way. `Written`: a write finds the entry it has made
or found, and by the time it goes down that entry says MODIFIED. `Renamed`: the entry a rename marks is the one of its target. Both
rest on `Takes` (only some calls take entries out) and on `Lone`, that such a call and any other on its object have excused their files.
Nothing is said of objects that go by a name of no file or of an excused one (`Known`), whatever names `Paths` allows.
`Marked` then says where the modification is: in an entry that is not in a record yet, in a record, with a fast
write, or with the encrypting program (`Fetched`), which either encrypts it or excuses the file. `Cleared` says that a CLEAR on its way has excused everything.

Only model-checked:

- liveness (`QueuedIsAnswered`, `NotificationAnswered`, `QueryEnds`, `Answered`), which is
  out of the prover's reach;
- nothing else that a passing run checks.

## What is not modelled

- Failing transfers in `BlkMoverData`, other than the table reads above, and a failed second write
  under write protection.
- `AddToProtectGroup`, `AsyncReadWriteSec`, `DeleteThread`, `RemoveDevice` of the block mover: nothing
  calls them in the 2000 build, or only unloading does.
- What is in `g_partitionInfo`, which only `IOCTL_DISK_GET_DRIVE_LAYOUT` returns.
- The shape of the free space list (`SetFreeSpaceList` drops a node that has the start of the last one),
  the shark IOCTLs and SET_DATA, several control programs at once.
- The format of marked sectors in the file locater, and its opening of volumes.
- `IOCTL_YGCRYDISK_ADD_COUNT`, queries that change nothing and the cipher of the encrypted disk.
- The monitor's attaching to volumes, fast I/O other than writes, more than one chain, relative names of
  rename targets, what the encrypting program does with a directory,
  and everything after the first race of two sections.
- Unloading of the drivers, and power and plug-and-play other than the paging path.
- The Windows 9x builds: the same algorithms in another driver model.
- The virtual partition and volume: the queue and thread of `CryDisk` before another
  device, with no protocol of their own.
- Relocation and moves by the control programs at once: neither control program is here.
- User interfaces and command lines, which are pure input and output; ciphers and
  compression, which are vendored arithmetic out of a model checker's reach; partition,
  format and CD tools, which read and write on-disk structures in one thread; the backup and
  secure delete programs, which process files one after another.

The modules cover a small share of the repository's lines for that last reason: most of them
are dialogs, several copies of the same cipher library, generated resources, and
copies of the drivers for other systems and products. The drivers modelled here are
where threads share state.

## Plan

Done: the block mover's request path, lookup and contents, paging path and relocation; the file
locater; the encrypted disk; the file system monitor; theorems about all of these, the block mover's
implementation of `VirtualDisk` included. Left, most important first:

1. The write-protect groups and the 9x request path; the virtual partition.
2. The secure delete service's schedule; the order of an incremental restore.
