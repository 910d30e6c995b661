---------------------------- MODULE BlkMoverData ----------------------------
(***************************************************************************)
(* The block mover with what the sectors hold.  The control program moves  *)
(* the system groups under write protection, then one data group after the *)
(* other, with raw reads and writes of chunks; the worker serves the reads *)
(* and writes of the applications in between, one IRP at a time, at the    *)
(* addresses BlkMoverMap computes.                                         *)
(*                                                                         *)
(* The control program is not part of the driver's sources: its actions    *)
(* are the IOCTLs the driver serves, in the order the driver's flags       *)
(* require.  The driver reads its two tables from the disk; here the data  *)
(* table grows by the group that is started, since a record the mover has  *)
(* not been told of is never looked at.                                    *)
(***************************************************************************)
EXTENDS BlkMoverMap

CONSTANTS
  Size,        \* sectors of the disk
  Free,        \* g_FreeSpaceList: the free groups [start, size]
  Sys,         \* the system groups
  Groups,      \* the data groups that may be moved
  MaxGroups,   \* bound: how many are
  MaxChunk,    \* bound: sectors in a transfer of the control program
  MaxRequest,  \* bound: sectors in a request of an application
  Contents,    \* what a sector may hold
  Failing,     \* the table reads that may fail: sets of "sys" and "data"
  Leftover     \* what an earlier move in the same boot left in g_FinalGroup

Disk == 0 .. Size - 1
App  == {x \in Disk : \A f \in Free : x \notin Span(f.start, f.size)}

Requests == {q \in [start : Disk, size : 1..MaxRequest] : q.start + q.size <= Size}

Group == [s : Disk, size : Nat \ {0}, front : BOOLEAN, t : Disk, orig : Disk]
Entry == [orig : Disk, size : 0..Size, final : Disk]

ASSUME DataAssumption ==
  /\ Size \in Nat \ {0} /\ MaxGroups \in Nat /\ MaxChunk \in Nat \ {0} /\ MaxRequest \in Nat \ {0}
  /\ Failing \subseteq SUBSET {"sys", "data"}
  /\ Free \subseteq [start : Disk, size : Nat \ {0}] /\ Groups \subseteq Group
  \* g_FinalGroup has an entry for every group.
  /\ Leftover \in [1..Slots -> Entry] /\ MaxGroups <= Slots
  \* System groups are in order, lie in the applications' sectors and go to free ones.
  /\ Sys \in Seq([s : Disk, size : Nat \ {0}, t : Disk])
  /\ \A k \in DOMAIN Sys : Span(Sys[k].s, Sys[k].size) \subseteq App
                           /\ Span(Sys[k].t, Sys[k].size) \subseteq Disk \ App
  /\ \A k, l \in DOMAIN Sys : k < l => Sys[k].s + Sys[k].size <= Sys[l].s
                                       /\ ~Meets(Sys[k].t, Sys[k].size, Sys[l].t, Sys[l].size)

VARIABLES
  disk,    \* what every sector of the device holds
  phase,   \* plain, protect (g_bEnableProtect) or working (bWorking)
  copied,  \* the control program: the system sectors already copied
  data,    \* the data table up to g_dwMovedRecNum
  w,       \* g_MovingGroup and g_dwMovedRecNum
  chunk,   \* the control program's buffer between IOCTL_YG_READ and IOCTL_YG_WRITE
  final,   \* g_FinalGroup
  reply,   \* the answer to the last request of an application
  stale    \* history: what the copy of a sector holds that was written while it was copied

vars == <<disk, phase, copied, data, w, chunk, final, reply, stale>>

NoChunk == [src |-> 0, dst |-> 0, len |-> 0, buf |-> <<>>]

-----------------------------------------------------------------------------
(* Where a sector of an application is.                                    *)

InSys(x) == \E k \in DOMAIN Sys : x \in Span(Sys[k].s, Sys[k].size)
Target(x) == LET k == CHOOSE k \in DOMAIN Sys : x \in Span(Sys[k].s, Sys[k].size)
             IN x - Sys[k].s + Sys[k].t
Moves(x) == {j \in DOMAIN data : x \in Span(data[j].orig, data[j].size)}

\* Sector i of the group being moved has been written to its target.
Arrived(i) == IF w.front THEN i < w.done ELSE i >= w.size - w.done

Home(x) ==
  IF InSys(x) THEN Target(x)
  ELSE IF Moves(x) = {} THEN x
  ELSE LET j == Max(Moves(x))
           i == x - data[j].orig
       IN IF j = Len(data) /\ ~Arrived(i) THEN data[j].s + i ELSE data[j].t + i

Where(x) == IF phase = "working" THEN Home(x) ELSE x

\* The sectors that are read for a chunk and not yet written to its target.
Copying == {x \in App : Where(x) \in Span(chunk.src, chunk.len)}

-----------------------------------------------------------------------------
(* The worker: BlkMoverRelocateReadWrite on behalf of applications.        *)

\* Linear transfers when the request is not to be relocated.
ReadWriteFromGroup(q, reloc, failed) ==
  IF reloc
  THEN SearchFromSysGroup(w, IF "sys" \in failed THEN <<>> ELSE Sys,
                          IF "data" \in failed THEN <<>> ELSE data, final, q.start, q.size)
  ELSE [out |-> Piece(q.start, q.start + q.size, -q.start, 0), g |-> final]

\* Mutant of Transfers: under write protection a write goes to the source only.
TransfersOnce(op, q, failed) == ReadWriteFromGroup(q, phase = "working", failed)

\* Under write protection a write goes to the source and to the target.
Transfers(op, q, failed) ==
  LET Both(plain, moved) == [moved EXCEPT !.out = plain.out \o moved.out]
  IN IF phase = "protect" /\ op = "WRITE"
     THEN Both(ReadWriteFromGroup(q, FALSE, failed), ReadWriteFromGroup(q, TRUE, failed))
     ELSE ReadWriteFromGroup(q, phase = "working", failed)

Offsets(q) == 0 .. q.size - 1

Refused == [op |-> "refused"]
Written == [op |-> "written"]

Refuse(q) ==
  /\ IsRWToFreeSpace(Free, q.start, q.size)
  /\ reply' = Refused
  /\ UNCHANGED <<disk, phase, copied, data, w, chunk, final, stale>>

Read(q) ==
  /\ ~IsRWToFreeSpace(Free, q.start, q.size)
  /\ \E tr \in {Transfers("READ", q, failed) : failed \in Failing} :
       /\ reply' = [op |-> "read", start |-> q.start, buf |-> Reading(disk, q.size, tr.out)]
       /\ final' = tr.g
  /\ UNCHANGED <<disk, phase, copied, data, w, chunk, stale>>

\* After a write of q: the buffer of the control program still has the old data
\* of the sectors being copied; any other sector of q is the same everywhere.
Overtaken(q) ==
  [x \in App |-> IF x \notin Span(q.start, q.size) THEN stale[x]
                 ELSE IF x \in Copying THEN {chunk.buf[Where(x) - chunk.src]}
                 ELSE {}]

Write(q) ==
  /\ ~IsRWToFreeSpace(Free, q.start, q.size)
  /\ stale' = Overtaken(q)
  /\ \E tr \in {Transfers("WRITE", q, failed) : failed \in Failing} :
       /\ \E b \in [Offsets(q) -> Contents] : disk' = Writing(disk, b, tr.out)
       /\ final' = tr.g
  /\ reply' = Written
  /\ UNCHANGED <<phase, copied, data, w, chunk>>

-----------------------------------------------------------------------------
(* The control program.                                                    *)

\* IOCTL_YG_BLOCK_MOVER_ENABLE_WRITE_PROTECT
EnableWriteProtect ==
  /\ phase = "plain"
  /\ phase' = "protect"
  /\ UNCHANGED <<disk, copied, data, w, chunk, final, reply, stale>>

\* IOCTL_YG_READ with neither relocation nor any check
YgRead(src, dst, n) ==
  /\ chunk = NoChunk
  /\ chunk' = [src |-> src, dst |-> dst, len |-> n, buf |-> [i \in 0..n-1 |-> disk[src + i]]]
  /\ UNCHANGED <<disk, phase, copied, data, w, final, reply, stale>>

\* Some sectors of one system group, from sector i of it on, in any order.
ReadSys(k, i, n) ==
  /\ phase = "protect"
  /\ i + n <= Sys[k].size
  /\ Span(Sys[k].s + i, n) \cap copied = {}
  /\ YgRead(Sys[k].s + i, Sys[k].t + i, n)

\* The next sectors of the current data group: from its start if it is moved
\* front first, else from its end.
ReadGroup(n) ==
  /\ phase = "working"
  /\ w.done + n <= w.size
  /\ LET i == IF w.front THEN w.done ELSE w.size - w.done - n
     IN YgRead(w.s + i, w.t + i, n)

\* Mutant of YgWrite: one sector more than was written counts as moved.
YgWriteCountsMore ==
  /\ chunk # NoChunk
  /\ disk' = Writing(disk, chunk.buf, <<[lba |-> chunk.dst, at |-> 0, len |-> chunk.len]>>)
  /\ IF phase = "protect"
     THEN copied' = copied \cup Span(chunk.src, chunk.len) /\ UNCHANGED w
     ELSE w' = [w EXCEPT !.done = @ + chunk.len + 1] /\ UNCHANGED copied
  /\ chunk' = NoChunk
  /\ UNCHANGED <<phase, data, final, reply, stale>>

\* IOCTL_YG_WRITE; only a chunk of a data group, bSys = FALSE, counts as moved.
YgWrite ==
  /\ chunk # NoChunk
  /\ disk' = Writing(disk, chunk.buf, <<[lba |-> chunk.dst, at |-> 0, len |-> chunk.len]>>)
  /\ IF phase = "protect"
     THEN copied' = copied \cup Span(chunk.src, chunk.len) /\ UNCHANGED w
     ELSE w' = [w EXCEPT !.done = @ + chunk.len] /\ UNCHANGED copied
  /\ chunk' = NoChunk
  /\ UNCHANGED <<phase, data, final, reply, stale>>

\* What the driver relies on: the group is where its record says, its target
\* holds no other sector of an application, it is moved from the side its target
\* is on if the two overlap, and it was moved before as a whole or not at all.
Legal(r) ==
  LET own == Span(r.orig, r.size)
  IN /\ own \subseteq App /\ Span(r.t, r.size) \subseteq Disk
     /\ \A x \in own : ~InSys(x) /\ Home(x) = r.s + x - r.orig
     /\ \A x \in App \ own : Home(x) \notin Span(r.t, r.size)
     /\ Meets(r.s, r.size, r.t, r.size) => r.front = (r.t < r.s)
     /\ \A j \in DOMAIN data : Meets(r.orig, r.size, data[j].orig, data[j].size)
                                 => r.orig = data[j].orig /\ r.size = data[j].size

\* IOCTL_YG_BLOCK_MOVING_GROUP_CURRENT, once what came before is written
MovingGroup(r) ==
  /\ chunk = NoChunk
  /\ \/ phase = "protect" /\ \A x \in App : InSys(x) => x \in copied
     \/ phase = "working" /\ w.done = w.size
  /\ Len(data) < MaxGroups
  /\ Legal(r)
  /\ data' = Append(data, r)
  /\ w' = [num |-> Len(data) + 1, front |-> r.front, s |-> r.s, t |-> r.t, size |-> r.size, done |-> 0]
  /\ phase' = "working"
  /\ UNCHANGED <<disk, copied, chunk, final, reply, stale>>

-----------------------------------------------------------------------------
Init ==
  /\ disk \in [Disk -> Contents]
  /\ phase = "plain" /\ copied = {}
  /\ data = <<>> /\ w = NoGroup
  /\ chunk = NoChunk
  /\ final = Leftover
  /\ reply = Refused
  /\ stale = [x \in App |-> {}]

Application == \E q \in Requests : Refuse(q) \/ Read(q) \/ Write(q)

Control ==
  \/ EnableWriteProtect
  \/ \E n \in 1..MaxChunk : \/ \E k \in DOMAIN Sys : \E i \in 0..Sys[k].size-1 : ReadSys(k, i, n)
                           \/ ReadGroup(n)
  \/ YgWrite
  \/ \E r \in Groups : MovingGroup(r)

Next == Application \/ Control

Spec == Init /\ [][Next]_vars

-----------------------------------------------------------------------------
(* Properties.                                                             *)

\* The globals of the mover hold what the driver's types say.
TypeOK ==
  /\ disk \in [Disk -> Contents]
  /\ phase \in {"plain", "protect", "working"}
  /\ copied \subseteq App
  /\ data \in Seq(Groups) /\ w.num = Len(data) /\ w.done \in 0..w.size
  /\ \A i \in DOMAIN chunk.buf : chunk.src + i \in Disk /\ chunk.dst + i \in Disk
  /\ final \in [1..Slots -> Entry]
  /\ stale \in [App -> SUBSET Contents]

\* What the plan of the control program and the tables have to be for a lookup to
\* find every sector: the tables can be read, each in one chunk, g_FinalGroup is
\* empty when the mover starts, no group is moved from its front, and none goes to
\* where the system's sectors were.
Orderly ==
  /\ Failing = {{}}
  /\ Leftover = [k \in 1..Slots |-> FreeSlot]
  /\ Len(Sys) <= ChunkRecords /\ MaxGroups <= ChunkRecords
  /\ \A r \in Groups : /\ ~r.front
                       /\ \A k \in DOMAIN Sys : ~Meets(r.t, r.size, Sys[k].s, Sys[k].size)

\* The transfers of a lookup, for the requests that are not refused.
Lookups == {[q |-> q, out |-> SearchFromSysGroup(w, Sys, data, final, q.start, q.size).out] :
              q \in {r \in Requests : ~IsRWToFreeSpace(Free, r.start, r.size)}}

\* "original to current location lookup" (head of Blkmover.c): the last transfer
\* of every sector of a request is at the sector's current address, whatever
\* earlier requests left in g_FinalGroup.
LookupFinds ==
  phase = "working" =>
    \A l \in Lookups : \A i \in Offsets(l.q) :
      LET here == {k \in DOMAIN l.out : i \in Span(l.out[k].at, l.out[k].len)}
      IN here # {} /\ LET p == l.out[Max(here)] IN p.lba + i - p.at = Where(l.q.start + i)

\* No transfer of a request touches the current address of a sector that the
\* request does not name.
NoStrayTransfer ==
  phase = "working" =>
    \A l \in Lookups :
      \A x \in App \ Span(l.q.start, l.q.size), k \in DOMAIN l.out :
        Where(x) \notin Span(l.out[k].lba, l.out[k].len)

\* Until the mover takes over the targets, the target of a system sector copied
\* so far holds what its source holds, unless the sector was last written between
\* the read and the write of its chunk: then the target may hold what was read.
CopiesInStep ==
  phase = "protect" => \A x \in copied : disk[Target(x)] \in {disk[x]} \cup stale[x]

\* The applications see a disk whose sectors keep what was written to them; only
\* a write to a sector that is being copied may come undone.
VD == INSTANCE VirtualDisk WITH content <- [x \in App |-> disk[Where(x)]], copying <- Copying
Implements == VD!Spec

=============================================================================
