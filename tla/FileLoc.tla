------------------------------- MODULE FileLoc -------------------------------
(***************************************************************************)
(* The file locater: a program writes marked sectors into its own file,    *)
(* and the YGFLoc filter below the file system notes where on the disk     *)
(* each of them arrives and keeps it from being written.  Writes and       *)
(* buffer IOCTLs are queued to the thread of the filter device; SET_SIGN,  *)
(* the tests of the dispatch routine and a CLOSE that finds nothing to     *)
(* free are carried out by the caller, beside the thread.                  *)
(*                                                                         *)
(* The client half is Fileloc.cpp: Init_FileLocater, then any number of    *)
(* FL_LogicSector2PhysSector, then Free_FileLocater.  Each process has its *)
(* own copy of the DLL's globals and they share the filter device.         *)
(***************************************************************************)
EXTENDS Integers, SequencesExt

CONSTANTS
  Clients,      \* processes that use the DLL on one volume
  Num,          \* SECTORS_OF_CACHE, the entries of the address buffer
  Base,         \* the sector the partition starts at
  Runs,         \* per client: the writes its file becomes, [at, entries]
  Size,         \* sectors of the volume
  MaxQueries,   \* bound: queries of a client between its Init and its Free
  AllocMayFail, \* whether memory may be short: no pool, no mapping of an MDL
  LowerMayFail  \* whether the device below may fail a write

Plain == -1     \* an entry of a write that is no marked sector
Junk  == -2     \* an address nobody has stored

\* The marked sectors of a client's file: write, place in it.
Marks(c) == {m \in (DOMAIN Runs[c]) \X (1..Size) :
               LET e == Runs[c][m[1]].entries IN m[2] \in DOMAIN e /\ e[m[2]] # Plain}
Index(c, m)  == Runs[c][m[1]].entries[m[2]]
Sector(c, m) == Runs[c][m[1]].at + m[2] - 1
Area(c, r)   == Runs[c][r].at .. Runs[c][r].at + Len(Runs[c][r].entries) - 1

\* No two writes meet, and a file's marked sectors are numbered from 0 on.
ASSUME FileLocAssumption ==
  /\ Num \in Nat \ {0} /\ Base \in Nat \ {0} /\ Size \in Nat \ {0} /\ MaxQueries \in Nat \ {0}
  /\ AllocMayFail \in BOOLEAN /\ LowerMayFail \in BOOLEAN
  /\ \A c \in Clients :
       /\ Runs[c] \in Seq([at : Nat, entries : Seq({Plain} \cup 0..Num-1)])
       /\ \A r \in DOMAIN Runs[c] : Runs[c][r].at + Len(Runs[c][r].entries) <= Size
       /\ \A m, n \in Marks(c) : Index(c, m) = Index(c, n) => m = n
       /\ {Index(c, m) : m \in Marks(c)} = 0 .. Cardinality(Marks(c)) - 1
       /\ \A d \in Clients : \A r \in DOMAIN Runs[c], q \in DOMAIN Runs[d] :
            c # d \/ r # q => Area(c, r) \cap Area(d, q) = {}

VARIABLES
  bInited, buf, addr, num, base, sign,  \* the device extension; buf is null, live or freed
  queue, tpc, cur,                      \* pListHead, the thread and the IRP it serves
  disk,                                 \* what a sector was last written with: old, data or mark
  cpc,                                  \* per client: where its call is
  dwLockSign,                           \* per client: the sign it used last
  run,                                  \* per client and write: todo, queued, ok, fail
  got,                                  \* per client: the addresses it was given
  crash,                                \* the system has stopped
  alone,                                \* history, per client: no other was in since its Init
  noBuffer                              \* history: memory has been short

device  == <<bInited, buf, addr, num, base, sign>>
thread  == <<queue, tpc, cur>>
client  == <<cpc, dwLockSign, run, got, alone>>
vars    == <<device, thread, disk, client, crash, noBuffer>>

NoIrp   == [op |-> "none"]
Waiting == {"opening", "copying", "closing", "clearing", "cleared"}

Init ==
  /\ bInited = FALSE /\ buf = "null" /\ num = 0
  /\ addr = [k \in 0..Num-1 |-> Junk] /\ base = 0 /\ sign = 0
  /\ queue = <<>> /\ tpc = "idle" /\ cur = NoIrp
  /\ disk = [x \in 0..Size-1 |-> "old"]
  /\ cpc = [c \in Clients |-> "off"]
  /\ dwLockSign = [c \in Clients |-> 0]
  /\ run = [c \in Clients |-> [r \in DOMAIN Runs[c] |-> "ok"]]
  /\ got = [c \in Clients |-> [k \in 0..Num-1 |-> Junk]]
  /\ crash = FALSE
  /\ alone = [c \in Clients |-> FALSE]
  /\ noBuffer = FALSE

Enqueue(i) == queue' = Append(queue, i)
At(c, l)   == cpc' = [cpc EXCEPT ![c] = l]

-----------------------------------------------------------------------------
(* The client, and the part of the driver that runs in its context.        *)

\* Init_FileLocater: IOCTL_YGFLOC_OPEN_BUFFER is queued without a test.
Init_FileLocater(c) ==
  /\ cpc[c] = "off"
  /\ At(c, "opening")
  /\ Enqueue([op |-> "OPEN", who |-> c])
  /\ dwLockSign' = [dwLockSign EXCEPT ![c] = 1]
  /\ alone' = [d \in Clients |-> d = c /\ \A e \in Clients \ {c} : cpc[e] = "off"]
  /\ UNCHANGED <<device, tpc, cur, disk, run, got, crash, noBuffer>>

\* FL_LogicSector2PhysSector begins: IOCTL_YGFLOC_SET_SIGN takes effect at once.
SetSign(c) ==
  /\ cpc[c] \in {"ready", "located"}
  /\ dwLockSign[c] <= MaxQueries
  /\ sign' = dwLockSign[c] + 1
  /\ dwLockSign' = [dwLockSign EXCEPT ![c] = @ + 1]
  /\ run' = [run EXCEPT ![c] = [r \in DOMAIN Runs[c] |-> "todo"]]
  /\ got' = [got EXCEPT ![c] = [k \in 0..Num-1 |-> Junk]]
  /\ At(c, "writing")
  /\ UNCHANGED <<bInited, buf, addr, num, base, thread, disk, crash, alone, noBuffer>>

\* The file system writes a run of the file: YGFLocReadWrite queues it if a
\* buffer was opened, else everything goes to the disk, marked sectors too.
ReadWrite(c, r) ==
  /\ cpc[c] = "writing" /\ run[c][r] = "todo"
  /\ LET e == Runs[c][r].entries
         at == Runs[c][r].at
         written == [x \in DOMAIN disk |->
                       IF x - at + 1 \notin DOMAIN e THEN disk[x]
                       ELSE IF e[x - at + 1] = Plain THEN "data" ELSE "mark"]
     IN IF bInited
        THEN /\ Enqueue([op |-> "WRITE", who |-> c, run |-> r, sign |-> dwLockSign[c]])
             /\ run' = [run EXCEPT ![c][r] = "queued"]
             /\ UNCHANGED disk
        ELSE /\ \/ disk' = written /\ run' = [run EXCEPT ![c][r] = "ok"]
                \/ LowerMayFail /\ run' = [run EXCEPT ![c][r] = "fail"] /\ UNCHANGED disk
             /\ UNCHANGED queue
  /\ UNCHANGED <<device, tpc, cur, cpc, dwLockSign, got, crash, alone, noBuffer>>

\* FlushFileBuffers has returned; IOCTL_YGFLOC_COPY_DATA is tested here and
\* carried out by the thread.  The caller does not look at what it returns.
CopyData(c) ==
  /\ cpc[c] = "writing" /\ \A r \in DOMAIN Runs[c] : run[c][r] \in {"ok", "fail"}
  /\ LET count == Cardinality(Marks(c))
     IN IF buf = "null" \/ num = 0 \/ count > num
        THEN At(c, "located") /\ UNCHANGED queue
        ELSE At(c, "copying") /\ Enqueue([op |-> "COPY", who |-> c, count |-> count])
  /\ UNCHANGED <<device, tpc, cur, disk, dwLockSign, run, got, crash, alone, noBuffer>>

\* Free_FileLocater: IOCTL_YGFLOC_CLOSE_BUFFER is queued if there is something
\* to free; if not, the caller resets the extension, ...
Free_FileLocater(c) ==
  /\ cpc[c] \in {"ready", "located"}
  /\ IF ~bInited \/ buf = "null" \/ num = 0
     THEN At(c, "clearing") /\ UNCHANGED queue
     ELSE At(c, "closing") /\ Enqueue([op |-> "CLOSE", who |-> c])
  /\ UNCHANGED <<device, tpc, cur, disk, dwLockSign, run, got, crash, alone, noBuffer>>

\* ... first the buffer, ...
ClearBuffer(c) ==
  /\ cpc[c] = "clearing"
  /\ buf' = "null"
  /\ At(c, "cleared")
  /\ UNCHANGED <<bInited, addr, num, base, sign, thread, disk, dwLockSign, run, got, crash, alone, noBuffer>>

\* ... then the rest, beside a thread that may be opening one.
ClearRest(c) ==
  /\ cpc[c] = "cleared"
  /\ num' = 0 /\ base' = 0 /\ bInited' = FALSE
  /\ At(c, "off")
  /\ UNCHANGED <<buf, addr, sign, thread, disk, dwLockSign, run, got, crash, alone, noBuffer>>

-----------------------------------------------------------------------------
(* Thread.                                                                 *)

Take ==
  /\ tpc = "idle" /\ queue # <<>>
  /\ cur' = Head(queue) /\ queue' = Tail(queue)
  /\ tpc' = Head(queue).op
  /\ UNCHANGED <<device, disk, client, crash, noBuffer>>

Finish == tpc' = "idle" /\ cur' = NoIrp

Crash ==
  /\ crash' = TRUE
  /\ UNCHANGED <<device, thread, disk, client, noBuffer>>

\* IsOurLockSector
Marked(e) == e # Plain /\ e < num

Stops(e)  == {i \in DOMAIN e : Marked(e[i])}

\* Where the run that ends before sector i begins: behind the last marked one.
Begin(e, i) == 1 + Max({0} \cup {k \in Stops(e) : k < i})

\* Mutant of Kept: the count of sectors is not reset after a part is written.
KeptNoReset(e) ==
  UNION {i - Cardinality({k \in DOMAIN e \ Stops(e) : k < i}) .. i - 1 : i \in Stops(e) \cup {Len(e) + 1}}

\* Mutant of Kept: what follows the last marked sector is not written.
KeptNoTail(e) == UNION {Begin(e, i) .. i - 1 : i \in Stops(e)}

\* The sectors of a write that are passed down, in runs that end before a
\* marked one or at the end.
Kept(e) == UNION {Begin(e, i) .. i - 1 : i \in Stops(e) \cup {Len(e) + 1}}

\* The runs are written one after the other; the status of the last one stands.
\* A failed run is one of the kept sectors that follow each other.
Parts(e) == {s \in SUBSET Kept(e) : \E a, b \in Kept(e) :
               s = a..b /\ a - 1 \notin Kept(e) /\ b + 1 \notin Kept(e)}

\* MmGetSystemAddressForMdlSafe finds no room to map a write; the NULL it returns
\* is followed at the first sector.
ServeUnmapped ==
  /\ tpc = "WRITE" /\ AllocMayFail
  /\ Runs[cur.who][cur.run].entries # <<>>
  /\ crash' = TRUE /\ noBuffer' = TRUE
  /\ UNCHANGED <<device, thread, disk, client>>

\* IRP_MJ_WRITE: marked sectors are noted if the sign is theirs, the others passed down.
ServeWrite ==
  /\ tpc = "WRITE"
  /\ LET e == Runs[cur.who][cur.run].entries
         at == Runs[cur.who][cur.run].at
         noted == {i \in DOMAIN e : Marked(e[i]) /\ cur.sign = sign}
     IN IF noted # {} /\ buf # "live"
        THEN Crash
        ELSE /\ addr' = [k \in DOMAIN addr |->
                           IF \E i \in noted : e[i] = k
                           THEN base + at + Max({i \in noted : e[i] = k}) - 1 ELSE addr[k]]
             /\ \E lost \in SUBSET Parts(e) :
                  /\ ~LowerMayFail => lost = {}
                  /\ disk' = [x \in DOMAIN disk |->
                       LET i == x - at + 1
                       IN IF i \notin Kept(e) \/ (\E s \in lost : i \in s) THEN disk[x]
                          ELSE IF e[i] = Plain THEN "data" ELSE "mark"]
                  /\ run' = [run EXCEPT ![cur.who][cur.run] =
                       IF \E s \in lost : Max(Kept(e)) \in s THEN "fail" ELSE "ok"]
             /\ Finish
             /\ UNCHANGED <<bInited, buf, num, base, sign, queue, cpc, dwLockSign, got, crash, alone, noBuffer>>

\* Mutant of OpenFree: the size is one more than the buffer's.
OpenFreeOneMore ==
  /\ tpc = "OPEN"
  /\ LET frees == bInited /\ buf # "null" /\ num # 0
     IN IF frees /\ buf = "freed"
        THEN Crash
        ELSE /\ buf' = IF frees THEN "freed" ELSE buf
             /\ num' = Num + 1
             /\ tpc' = "alloc"
             /\ UNCHANGED <<bInited, addr, base, sign, queue, cur, disk, client, crash, noBuffer>>

\* IOCTL_YGFLOC_OPEN_BUFFER: the old buffer is freed and the size set, ...
OpenFree ==
  /\ tpc = "OPEN"
  /\ LET frees == bInited /\ buf # "null" /\ num # 0
     IN IF frees /\ buf = "freed"
        THEN Crash
        ELSE /\ buf' = IF frees THEN "freed" ELSE buf
             /\ num' = Num
             /\ tpc' = "alloc"
             /\ UNCHANGED <<bInited, addr, base, sign, queue, cur, disk, client, crash, noBuffer>>

\* ... the new one is taken, whether or not there is memory for it, ...
OpenAlloc ==
  /\ tpc = "alloc"
  /\ \/ buf' = "live" /\ UNCHANGED noBuffer
     \/ AllocMayFail /\ buf' = "null" /\ noBuffer' = TRUE
  /\ addr' = [k \in DOMAIN addr |-> Junk]
  /\ tpc' = "base"
  /\ UNCHANGED <<bInited, num, base, sign, queue, cur, disk, client, crash>>

\* Mutant of OpenInit: the address base is left over.
OpenInitNoBase ==
  /\ tpc = "base"
  /\ bInited' = TRUE
  /\ At(cur.who, "ready") /\ Finish
  /\ UNCHANGED <<buf, addr, num, base, sign, queue, disk, dwLockSign, run, got, crash, alone, noBuffer>>

\* ... and the device starts to queue writes.
OpenInit ==
  /\ tpc = "base"
  /\ base' = Base /\ bInited' = TRUE
  /\ At(cur.who, "ready") /\ Finish
  /\ UNCHANGED <<buf, addr, num, sign, queue, disk, dwLockSign, run, got, crash, alone, noBuffer>>

\* Mutant of ServeClose: the buffer is freed and nothing is reset.
ServeCloseKeeps ==
  /\ tpc = "CLOSE"
  /\ IF buf # "live"
     THEN Crash
     ELSE /\ buf' = "freed"
          /\ At(cur.who, "off") /\ Finish
          /\ UNCHANGED <<num, base, bInited, addr, sign, queue, disk, dwLockSign, run, got, crash, alone, noBuffer>>

\* Mutant of ServeClose: the IRP is not completed.
ServeCloseForgets ==
  /\ tpc = "CLOSE"
  /\ buf' = "null" /\ num' = 0 /\ base' = 0 /\ bInited' = FALSE
  /\ Finish
  /\ UNCHANGED <<addr, sign, queue, disk, client, crash, noBuffer>>

\* IOCTL_YGFLOC_CLOSE_BUFFER: the buffer is freed without a second test.
ServeClose ==
  /\ tpc = "CLOSE"
  /\ IF buf # "live"
     THEN Crash
     ELSE /\ buf' = "null" /\ num' = 0 /\ base' = 0 /\ bInited' = FALSE
          /\ At(cur.who, "off") /\ Finish
          /\ UNCHANGED <<addr, sign, queue, disk, dwLockSign, run, got, crash, alone, noBuffer>>

\* IOCTL_YGFLOC_COPY_DATA: the bounds tested on dispatch are not tested again.
ServeCopy ==
  /\ tpc = "COPY"
  /\ IF buf # "live"
     THEN Crash
     ELSE /\ got' = [got EXCEPT ![cur.who] = [k \in DOMAIN addr |-> IF k < cur.count THEN addr[k] ELSE @[k]]]
          /\ At(cur.who, "located") /\ Finish
          /\ UNCHANGED <<device, queue, disk, dwLockSign, run, crash, alone, noBuffer>>

-----------------------------------------------------------------------------
Client(c) ==
  \/ Init_FileLocater(c)
  \/ SetSign(c)
  \/ \E r \in DOMAIN Runs[c] : ReadWrite(c, r)
  \/ CopyData(c)
  \/ Free_FileLocater(c)
  \/ ClearBuffer(c)
  \/ ClearRest(c)

Thread == Take \/ ServeUnmapped \/ ServeWrite \/ OpenFree \/ OpenAlloc \/ OpenInit \/ ServeClose \/ ServeCopy

Next == ~crash /\ (Thread \/ \E c \in Clients : Client(c))

\* The thread runs while there is work; a program inside a query goes on with it.
Fairness ==
  /\ WF_vars(~crash /\ Thread)
  /\ \A c \in Clients :
       WF_vars(~crash /\ (\/ \E r \in DOMAIN Runs[c] : ReadWrite(c, r)
                          \/ CopyData(c) \/ ClearBuffer(c) \/ ClearRest(c)))

Spec == Init /\ [][Next]_vars /\ Fairness

-----------------------------------------------------------------------------
\* The device extension, the thread and the programs are in states the types of
\* the driver and the DLL allow; what is queued was sent by some program.
TypeOK ==
  /\ bInited \in BOOLEAN /\ buf \in {"null", "live", "freed"} /\ num \in {0, Num}
  /\ addr \in [0..Num-1 -> {Junk} \cup 0..Base+Size-1] /\ base \in {0, Base}
  /\ sign \in 0..MaxQueries+1
  /\ \A i \in DOMAIN queue : queue[i].op \in {"WRITE", "OPEN", "CLOSE", "COPY"} /\ queue[i].who \in Clients
  /\ tpc \in {"idle", "WRITE", "OPEN", "alloc", "base", "CLOSE", "COPY"}
  /\ disk \in [0..Size-1 -> {"old", "data", "mark"}]
  /\ cpc \in [Clients -> Waiting \cup {"off", "ready", "writing", "located"}]
  /\ crash \in BOOLEAN /\ noBuffer \in BOOLEAN

\* A program that has the volume to itself is given the sectors its file is on
\* (FL_LogicSector2PhysSector).
LocatedRight ==
  \A c \in Clients : cpc[c] = "located" /\ alone[c] /\ ~noBuffer =>
    \A m \in Marks(c) : got[c][Index(c, m)] = Base + Sector(c, m)

\* The marked sectors of a program that has the volume to itself never reach the
\* disk, where they would replace the contents of its file (Thread, IRP_MJ_WRITE).
MarksStayOff ==
  [][\A c \in Clients : alone[c] =>
       \A m \in Marks(c) : disk'[Sector(c, m)] = "mark" => disk[Sector(c, m)] = "mark"]_vars

\* A write that is reported as done has put the unmarked sectors behind its last
\* marked one on the disk: the status of its last part stands for all (Thread).
PlainWritten ==
  \A c \in Clients : cpc[c] \in {"copying", "located"} =>
    \A r \in DOMAIN Runs[c] : run[c][r] = "ok" =>
      LET e == Runs[c][r].entries
      IN \A i \in DOMAIN e : (\A j \in i..Len(e) : e[j] = Plain) => disk[Runs[c][r].at + i - 1] = "data"

\* The thread dereferences or frees NULL only while two programs are on the
\* volume or when memory is short: the buffer could not be allocated, or a write
\* could not be mapped (Thread).
CrashNeedsSharing == crash => noBuffer \/ \A c \in Clients : ~alone[c]

\* An IOCTL that was queued is answered, and a query comes to its end.
QueryEnds == \A c \in Clients :
  cpc[c] \in Waiting \cup {"writing"} ~> (crash \/ cpc[c] \in {"off", "ready", "located"})

=============================================================================
