------------------------------ MODULE BlkMover ------------------------------
(***************************************************************************)
(* The block mover disk filter of the Windows 2000 build: who may touch    *)
(* the mover's data, and when.  Read and write IRPs are dispatched by      *)
(* arbitrary threads (BlkMovReadWrite), queued to one worker (Thread) while*)
(* a move is set up, and passed down otherwise.  A control program issues  *)
(* IOCTLs, most of them carried out in its own thread with no lock, while  *)
(* the dispatchers and the worker run.  What the sectors hold is left to   *)
(* BlkMoverData; here a lower read or write just succeeds or fails.        *)
(*                                                                         *)
(* A step is a stretch of code that reads or writes shared state once:     *)
(* each test of g_pMoverData and each use of it are separate steps, and so *)
(* are the assignments an IOCTL makes to globals that others read.         *)
(* A pointer to freed or not yet initialised pool reads as anything; the   *)
(* fields of a block that is gone are kept FALSE.                          *)
(***************************************************************************)
EXTENDS Sequences, FiniteSets

CONSTANTS
  Irps,          \* read and write IRPs, each recycled once it is answered
  CtlIrp,        \* the IRP of the control program's queued IOCTLs
  Worker,        \* the thread of the filter device
  Sectors,       \* the sectors requests name
  NoIrp,         \* no IRP, no process
  AllocMayFail,  \* whether ExAllocatePool may return NULL
  Ioctls         \* what the control program uses besides setting up and disabling

ASSUME BlkMoverAssumption ==
  /\ CtlIrp \notin Irps /\ Worker \notin Irps /\ NoIrp \notin Irps
  /\ CtlIrp # Worker /\ NoIrp # Worker /\ NoIrp # CtlIrp
  /\ AllocMayFail \in BOOLEAN
  /\ Ioctls \subseteq {"FREE_SPACE", "PROTECT", "FILTER", "RELOCATE", "POST_SCRIPT", "QUEUED"}

VARIABLES
  hasPtr,         \* g_pMoverData # NULL
  data,           \* the block behind it: none, uninit, live or freed
  bWorking,       \* g_pMoverData->bWorking
  bInitSec,       \* g_pMoverData->bInitSec
  bEnableProtect, \* g_bEnableProtect
  orig,           \* the sectors of [g_dwOrig1st, g_dwOrigLast)
  freeList,       \* the sectors of g_FreeSpaceList
  listFreed,      \* its nodes are freed, the head not yet NULL
  groupBuf,       \* g_SecGroupBuf.pGroupsBuff: null, live or freed
  compBuf,        \* g_pCompInitBuf: null, live or freed
  bReLocate,      \* g_bReLocate
  bInitMover,     \* deviceExtension->bInitMover
  req,            \* per IRP: what it asks
  irp,            \* per IRP: where it is
  caller,         \* per read or write IRP: its dispatching thread
  queue,          \* list_head, oldest first
  event,          \* request_event, reset by the wait it satisfies
  terminate,      \* terminate_thread
  tpc, cur,       \* the worker: where it is, the IRP it serves
  ctl, on,        \* the control program: where it is, how far it has set up
  crash,          \* the process whose dereference stopped the system
  raced           \* history: processes overtaken by a lifecycle call

mover   == <<hasPtr, data, bWorking, bInitSec>>
setup   == <<bEnableProtect, orig, freeList, listFreed, groupBuf, compBuf>>
reloc   == <<bReLocate, bInitMover>>
irps    == <<req, irp, queue>>
worker  == <<terminate, tpc, cur>>
control == <<ctl, on>>
vars    == <<mover, setup, reloc, irps, caller, event, worker, control, crash, raced>>

All     == Irps \cup {CtlIrp}
Extents == (SUBSET Sectors) \ {{}}
Codes   == {"YG_MAPPED", "YG_RAW", "MOVING_GROUP", "GET_MOVED", "FLUSH", "UNKNOWN"}
Requests == [op : {"READ", "WRITE"}, ext : SUBSET Sectors, code : Codes \cup {"RW", "LAYOUT"}]

Idle == [op |-> "READ", ext |-> {}, code |-> "RW"]

\* IOCTL_DISK_GET_DRIVE_LAYOUT, which any program may issue.
Layout == [op |-> "READ", ext |-> {}, code |-> "LAYOUT"]

\* The worker is past its test of g_pMoverData and has not finished the IRP.
InUse == {"deref", "space", "plain", "protect", "group", "cmp"}

\* The control program is inside a call that replaces or frees pool.
Lifecycle == {"en_alloc", "en_init", "sp_last", "sp_protect", "sp_buf", "sp_alloc",
              "dis_protect", "dis_free", "dis_bufs", "dis_list", "dis_listnull", "dis_null",
              "dis_bufnull", "post_null", "ff_free"}

\* It is switching the init sector filter on, which frees nothing.
FilterSetUp == {"fo_sec", "fo_1st", "fo_last"}

Init ==
  /\ hasPtr = FALSE /\ data = "none" /\ bWorking = FALSE /\ bInitSec = FALSE
  /\ bEnableProtect = FALSE /\ orig = {} /\ freeList = {} /\ listFreed = FALSE
  /\ groupBuf = "null" /\ compBuf = "null"
  /\ bReLocate = FALSE /\ bInitMover = FALSE
  /\ req = [r \in All |-> Idle]
  /\ irp = [r \in All |-> "idle"]
  /\ caller = [r \in Irps |-> "idle"]
  /\ queue = <<>>
  \* BlkMovAddDevice ignores what CreateThread returns: no thread was created,
  \* or it was and has already been told to stop, or it runs.
  /\ \/ tpc = "none" /\ terminate = FALSE /\ event = FALSE
     \/ tpc = "wait" /\ terminate \in BOOLEAN /\ event = terminate
  /\ cur = NoIrp
  /\ ctl = "idle" /\ on = "off"
  /\ crash = NoIrp /\ raced = {}

-----------------------------------------------------------------------------
(* Reading through g_pMoverData.                                           *)

\* What a field that holds v in a live block may read as.
Reads(v) == IF data = "live" THEN {v} ELSE BOOLEAN

Crash(p) ==
  /\ crash' = p
  /\ UNCHANGED <<mover, setup, reloc, irps, caller, event, worker, control, raced>>

-----------------------------------------------------------------------------
(* BlkMovReadWrite, run by the thread that issues IRP r, and the case of   *)
(* BlkMovDeviceControl that reads the mover on behalf of any program.      *)

Submit(r) ==
  /\ caller[r] = "idle"
  /\ \/ \E op \in {"READ", "WRITE"}, ext \in Extents :
          req' = [req EXCEPT ![r] = [op |-> op, ext |-> ext, code |-> "RW"]]
     \/ req' = [req EXCEPT ![r] = Layout]
  /\ irp' = [irp EXCEPT ![r] = "dispatch"]
  /\ caller' = [caller EXCEPT ![r] = "check"]
  /\ raced' = raced \ {r}
  /\ UNCHANGED <<mover, setup, reloc, queue, event, worker, control, crash>>

Goto(r, pc) ==
  /\ caller' = [caller EXCEPT ![r] = pc]
  /\ UNCHANGED <<mover, setup, reloc, irps, event, worker, control, crash, raced>>

\* if(g_pMoverData), in both routines
DispatchCheck(r) ==
  /\ caller[r] = "check"
  /\ Goto(r, IF hasPtr THEN "deref" ELSE "reloc")

\* g_pMoverData->DeviceObject == DeviceObject && the request meets the range
DispatchDeref(r) ==
  /\ caller[r] = "deref" /\ req[r].code = "RW"
  /\ IF hasPtr
     THEN \E mine \in Reads(TRUE) :
            Goto(r, IF mine /\ req[r].ext \cap orig # {} THEN "insert" ELSE "reloc")
     ELSE Crash(r)

\* g_pMoverData->bWorking: the layout that SET_DATA read before the move is
\* the answer; without one, or after a new layout was set, the disk is asked.
LayoutDeref(r) ==
  /\ caller[r] = "deref" /\ req[r].code = "LAYOUT"
  /\ IF hasPtr
     THEN \/ /\ TRUE \in Reads(bWorking)
             /\ irp' = [irp EXCEPT ![r] = "ok"]
             /\ caller' = [caller EXCEPT ![r] = "wait"]
             /\ UNCHANGED <<mover, setup, reloc, req, queue, event, worker, control, crash, raced>>
          \/ Goto(r, "reloc")
     ELSE Crash(r)

\* if(g_bReLocate && deviceExtension->bInitMover) for a read or write, else to
\* the lower driver
DispatchReLocate(r) ==
  /\ caller[r] = "reloc"
  /\ IF bReLocate /\ bInitMover /\ req[r].code = "RW"
     THEN Goto(r, "insert")
     ELSE /\ irp' = [irp EXCEPT ![r] = "lower"]
          /\ caller' = [caller EXCEPT ![r] = "wait"]
          /\ UNCHANGED <<mover, setup, reloc, req, queue, event, worker, control, crash, raced>>

\* Mutant of Insert: the return after queueing is missing, so that the IRP is
\* passed down as well.
InsertNoReturn(r) ==
  /\ caller[r] = "insert"
  /\ queue' = Append(queue, r)
  /\ irp' = [irp EXCEPT ![r] = "queued"]
  /\ caller' = [caller EXCEPT ![r] = "reloc"]
  /\ UNCHANGED <<mover, setup, reloc, req, event, worker, control, crash, raced>>

\* Mutant of Insert: the list entry is taken from the IRP being served.
InsertOther(r) ==
  /\ caller[r] = "insert"
  /\ queue' = Append(queue, cur)
  /\ irp' = [irp EXCEPT ![r] = "queued"]
  /\ caller' = [caller EXCEPT ![r] = "signal"]
  /\ UNCHANGED <<mover, setup, reloc, req, event, worker, control, crash, raced>>

\* ExInterlockedInsertTailList
Insert(r) ==
  /\ caller[r] = "insert"
  /\ queue' = Append(queue, r)
  /\ irp' = [irp EXCEPT ![r] = "queued"]
  /\ caller' = [caller EXCEPT ![r] = "signal"]
  /\ UNCHANGED <<mover, setup, reloc, req, event, worker, control, crash, raced>>

\* KeSetEvent
Signal(r) ==
  /\ caller[r] = "signal"
  /\ event' = TRUE
  /\ caller' = [caller EXCEPT ![r] = "wait"]
  /\ UNCHANGED <<mover, setup, reloc, irps, worker, control, crash, raced>>

\* The lower driver completes an IRP that was passed down.
LowerComplete(r) ==
  /\ irp[r] = "lower"
  /\ \E st \in {"ok", "fail"} : irp' = [irp EXCEPT ![r] = st]
  /\ UNCHANGED <<mover, setup, reloc, req, queue, caller, event, worker, control, crash, raced>>

\* The issuing thread takes the answer and may reuse the IRP.
Reap(r) ==
  /\ caller[r] = "wait"
  /\ irp[r] \in {"ok", "fail"}
  /\ irp' = [irp EXCEPT ![r] = "idle"]
  /\ req' = [req EXCEPT ![r] = Idle]
  /\ caller' = [caller EXCEPT ![r] = "idle"]
  /\ UNCHANGED <<mover, setup, reloc, queue, event, worker, control, crash, raced>>

-----------------------------------------------------------------------------
(* Thread and BlkMoverRelocateReadWrite.                                   *)

\* The device extension's event wakes the worker, which may have to stop.
ThreadWait ==
  /\ tpc = "wait" /\ event
  /\ event' = FALSE
  /\ tpc' = IF terminate THEN "exit" ELSE "drain"
  /\ UNCHANGED <<mover, setup, reloc, irps, caller, terminate, cur, control, crash, raced>>

Mapped(r) == req[r].code \in {"RW", "YG_MAPPED"}

\* while(request = ExInterlockedRemoveHeadList(...))
ThreadPop ==
  /\ tpc = "drain"
  /\ IF queue = <<>>
     THEN /\ tpc' = "wait"
          /\ UNCHANGED <<irps, cur>>
     ELSE /\ cur' = Head(queue)
          /\ queue' = Tail(queue)
          /\ irp' = [irp EXCEPT ![Head(queue)] = "exec"]
          /\ tpc' = IF Mapped(Head(queue)) THEN "reloc" ELSE "ioctl"
          /\ UNCHANGED req
  /\ raced' = raced \ {Worker}
  /\ UNCHANGED <<mover, setup, reloc, caller, event, terminate, control, crash>>

\* Mutant of Complete: one IRP per wake-up, an if in place of the while.
CompleteOnce(st) ==
  /\ irp' = [irp EXCEPT ![cur] = IF req[cur].code \in {"YG_MAPPED", "YG_RAW"} THEN "ok" ELSE st]
  /\ cur' = NoIrp
  /\ tpc' = "wait"
  /\ UNCHANGED <<mover, setup, reloc, req, queue, caller, event, terminate, control, crash, raced>>

\* IoCompleteRequest.  IOCTL_YG_READ and IOCTL_YG_WRITE report success
\* whatever the transfer did.
Complete(st) ==
  /\ irp' = [irp EXCEPT ![cur] = IF req[cur].code \in {"YG_MAPPED", "YG_RAW"} THEN "ok" ELSE st]
  /\ cur' = NoIrp
  /\ tpc' = "drain"
  /\ UNCHANGED <<mover, setup, reloc, req, queue, caller, event, terminate, control, crash, raced>>

Transfer == \E st \in {"ok", "fail"} : Complete(st)

ThreadGoto(pc) ==
  /\ tpc' = pc
  /\ UNCHANGED <<mover, setup, reloc, irps, caller, event, terminate, cur, control, crash, raced>>

\* if(g_bReLocate) status = DoReLocate(...)
ThreadReLocate ==
  /\ tpc = "reloc"
  /\ IF bReLocate THEN Transfer ELSE ThreadGoto("check")

\* Mutant of ThreadCheck: an IRP that finds no mover is not completed.
ThreadCheckForgets ==
  /\ tpc = "check"
  /\ ThreadGoto(IF hasPtr THEN "deref" ELSE "drain")

\* Mutant of ThreadCheck: no test of the pointer.
ThreadCheckNone == tpc = "check" /\ ThreadGoto("deref")

\* if(g_pMoverData), else STATUS_ACCESS_VIOLATION
ThreadCheck ==
  /\ tpc = "check"
  /\ IF hasPtr THEN ThreadGoto("deref") ELSE Complete("fail")

\* bWorking, then bInitSec on a write
ThreadDeref ==
  /\ tpc = "deref"
  /\ IF hasPtr
     THEN \E working \in Reads(bWorking), initSec \in Reads(bInitSec) :
            ThreadGoto(IF working THEN "space"
                       ELSE IF initSec /\ req[cur].op = "WRITE" THEN "cmp" ELSE "plain")
     ELSE Crash(Worker)

\* What IsRWToFreeSpace may answer.
RWToFreeSpace ==
  IF listFreed THEN BOOLEAN ELSE {req[cur].ext \cap freeList # {}}

\* A working mover: free space is refused, the rest goes through the groups.
ThreadSpace ==
  /\ tpc = "space"
  /\ \/ \E hit \in RWToFreeSpace : IF hit THEN Complete("fail") ELSE ThreadGoto("group")
     \/ listFreed /\ Crash(Worker)

\* A mover set up but not working: the same test, then the write protect flag.
ThreadPlain ==
  /\ tpc = "plain"
  /\ \/ \E hit \in RWToFreeSpace :
          IF hit THEN Complete("fail")
          ELSE IF bEnableProtect THEN ThreadGoto("protect") ELSE Transfer
     \/ listFreed /\ Crash(Worker)

\* ReadWriteFromGroup(..., FALSE, g_pMoverData); a write that succeeded is
\* repeated through the groups.
ThreadProtect ==
  /\ tpc = "protect"
  /\ \/ /\ hasPtr
        /\ IF req[cur].op = "WRITE"
           THEN Complete("fail") \/ ThreadGoto("group")
           ELSE Transfer
     \/ (~hasPtr \/ data # "live") /\ Crash(Worker)

\* ReadWriteFromGroup(..., TRUE, g_pMoverData) reads the tables into g_SecGroupBuf.
ThreadGroup ==
  /\ tpc = "group"
  /\ \/ hasPtr /\ Transfer
     \/ (~hasPtr \/ data # "live" \/ groupBuf # "live") /\ Crash(Worker)

\* A write of nothing but the init pattern is swallowed, any other goes down.
ThreadCompare ==
  /\ tpc = "cmp"
  /\ \/ compBuf # "null" /\ (Complete("ok") \/ Transfer)
     \/ compBuf # "live" /\ Crash(Worker)

\* IOCTL_YG_BLOCK_MOVING_GROUP_CURRENT starts the move of a group.
ThreadMovingGroup ==
  IF hasPtr
  THEN /\ bWorking' = TRUE
       /\ irp' = [irp EXCEPT ![cur] = "ok"]
       /\ cur' = NoIrp
       /\ tpc' = "drain"
       /\ UNCHANGED <<hasPtr, data, bInitSec, setup, reloc, req, queue, caller, event,
                      terminate, control, crash, raced>>
  ELSE Crash(Worker)

\* The IOCTLs the worker carries out itself.
ThreadIoctl ==
  /\ tpc = "ioctl"
  /\ \/ req[cur].code = "YG_RAW" /\ Transfer
     \/ req[cur].code = "FLUSH" /\ (IF hasPtr THEN Transfer ELSE Crash(Worker))
     \/ req[cur].code = "GET_MOVED" /\ Complete("ok")
     \/ req[cur].code = "MOVING_GROUP" /\ ThreadMovingGroup
     \/ req[cur].code = "UNKNOWN" /\ Complete("fail")

Thread ==
  \/ ThreadWait \/ ThreadPop \/ ThreadReLocate \/ ThreadCheck \/ ThreadDeref
  \/ ThreadSpace \/ ThreadPlain \/ ThreadProtect \/ ThreadGroup \/ ThreadCompare
  \/ ThreadIoctl

-----------------------------------------------------------------------------
(* BlkMovDeviceControl.  One control program, one IOCTL at a time: it      *)
(* enables the mover, sets its parameters, and uses the rest in between.   *)

\* Processes that tested a pointer this call replaces or frees.
Overtaken == {r \in Irps : caller[r] = "deref"} \cup (IF tpc \in InUse THEN {Worker} ELSE {})

Overtake == raced' = raced \cup Overtaken

\* Mutant of Enable: the range keeps its old value.
EnableKeepsRange ==
  /\ ctl = "idle" /\ on = "off"
  /\ ctl' = "en_alloc"
  /\ Overtake
  /\ UNCHANGED <<mover, setup, reloc, irps, caller, event, worker, on, crash>>

\* EnableOrDisable(TRUE): the range is emptied first, then the block
\* allocated, then cleared.  A failed allocation is reported as success.
Enable ==
  /\ ctl = "idle" /\ on = "off"
  /\ orig' = {}
  /\ ctl' = "en_alloc"
  /\ Overtake
  /\ UNCHANGED <<mover, bEnableProtect, freeList, listFreed, groupBuf, compBuf, reloc,
                 irps, caller, event, worker, on, crash>>

EnableAlloc ==
  /\ ctl = "en_alloc"
  /\ \/ hasPtr' = TRUE /\ data' = "uninit" /\ ctl' = "en_init" /\ UNCHANGED on
     \/ AllocMayFail /\ hasPtr' = FALSE /\ data' = "none" /\ ctl' = "idle" /\ on' = "enabled"
  /\ Overtake
  /\ UNCHANGED <<bWorking, bInitSec, setup, reloc, irps, caller, event, worker, crash>>

EnableInit ==
  /\ ctl = "en_init"
  /\ data' = "live" /\ bWorking' = FALSE /\ bInitSec' = FALSE
  /\ ctl' = "idle" /\ on' = "enabled"
  /\ Overtake
  /\ UNCHANGED <<hasPtr, setup, reloc, irps, caller, event, worker, crash>>

\* SetMoverPara: the globals, then the pool.  FALSE, which is
\* STATUS_SUCCESS, is returned when the first allocation fails.
SetParam ==
  /\ ctl = "idle" /\ on = "enabled"
  /\ orig' \in SUBSET Sectors      \* from the new g_dwOrig1st to the old g_dwOrigLast
  /\ ctl' = "sp_last"
  /\ Overtake
  /\ UNCHANGED <<mover, bEnableProtect, freeList, listFreed, groupBuf, compBuf, reloc,
                 irps, caller, event, worker, on, crash>>

SetParamLast ==
  /\ ctl = "sp_last"
  /\ orig' \in Extents
  /\ ctl' = "sp_protect"
  /\ Overtake
  /\ UNCHANGED <<mover, bEnableProtect, freeList, listFreed, groupBuf, compBuf, reloc,
                 irps, caller, event, worker, on, crash>>

SetParamProtect ==
  /\ ctl = "sp_protect"
  /\ bEnableProtect' = FALSE
  /\ ctl' = "sp_buf"
  /\ Overtake
  /\ UNCHANGED <<mover, orig, freeList, listFreed, groupBuf, compBuf, reloc,
                 irps, caller, event, worker, on, crash>>

\* memset(&g_SecGroupBuf,0,...)
SetParamBuf ==
  /\ ctl = "sp_buf"
  /\ groupBuf' = "null"
  /\ ctl' = "sp_alloc"
  /\ Overtake
  /\ UNCHANGED <<mover, bEnableProtect, orig, freeList, listFreed, compBuf, reloc,
                 irps, caller, event, worker, on, crash>>

SetParamAlloc ==
  /\ ctl = "sp_alloc"
  /\ groupBuf' \in {"live"} \cup (IF AllocMayFail THEN {"null"} ELSE {})
  /\ ctl' = "idle" /\ on' = "ready"
  /\ Overtake
  /\ UNCHANGED <<mover, bEnableProtect, orig, freeList, listFreed, compBuf, reloc,
                 irps, caller, event, worker, crash>>

\* SetFreeSpaceList adds a group, unless there is no pool for its node.
SetFreeSpace ==
  /\ "FREE_SPACE" \in Ioctls
  /\ ctl = "idle" /\ on = "ready"
  /\ \E ext \in Extents : freeList' = freeList \cup ext
  /\ UNCHANGED <<mover, bEnableProtect, orig, listFreed, groupBuf, compBuf, reloc,
                 irps, caller, event, worker, control, crash, raced>>

EnableWriteProtect ==
  /\ "PROTECT" \in Ioctls
  /\ ctl = "idle" /\ on = "ready"
  /\ bEnableProtect' = TRUE
  /\ UNCHANGED <<mover, orig, freeList, listFreed, groupBuf, compBuf, reloc,
                 irps, caller, event, worker, control, crash, raced>>

\* The init sector filter is switched on even when its pattern buffer could
\* not be allocated; a buffer it had before is forgotten.
FilterOn ==
  /\ "FILTER" \in Ioctls
  /\ ctl = "idle" /\ on # "off"
  /\ compBuf' \in {"live"} \cup (IF AllocMayFail THEN {"null"} ELSE {})
  /\ ctl' = "fo_sec"
  /\ UNCHANGED <<mover, bEnableProtect, orig, freeList, listFreed, groupBuf,
                 reloc, irps, caller, event, worker, on, crash, raced>>

FilterOnSec ==
  /\ ctl = "fo_sec"
  /\ IF hasPtr
     THEN /\ bInitSec' = TRUE
          /\ ctl' = "fo_1st"
          /\ UNCHANGED <<hasPtr, data, bWorking, setup,
                         reloc, irps, caller, event, worker, on, crash, raced>>
     ELSE Crash(CtlIrp)

FilterOn1st ==
  /\ ctl = "fo_1st"
  /\ orig' \in SUBSET Sectors      \* from the new g_dwOrig1st to the old g_dwOrigLast
  /\ ctl' = "fo_last"
  /\ UNCHANGED <<mover, bEnableProtect, freeList, listFreed, groupBuf, compBuf,
                 reloc, irps, caller, event, worker, on, crash, raced>>

FilterOnLast ==
  /\ ctl = "fo_last"
  /\ orig' \in Extents
  /\ ctl' = "idle"
  /\ UNCHANGED <<mover, bEnableProtect, freeList, listFreed, groupBuf, compBuf,
                 reloc, irps, caller, event, worker, on, crash, raced>>

\* Mutant of FilterOff: the flag stays set.
FilterOffKeepsFlag ==
  /\ "FILTER" \in Ioctls
  /\ ctl = "idle" /\ on # "off"
  /\ ctl' = "ff_free"
  /\ Overtake
  /\ UNCHANGED <<mover, setup, reloc, irps, caller, event, worker, on, crash>>

\* Nothing asks whether the filter is on.
FilterOff ==
  /\ "FILTER" \in Ioctls
  /\ ctl = "idle" /\ on # "off"
  /\ IF hasPtr
     THEN /\ bInitSec' = FALSE
          /\ ctl' = "ff_free"
          /\ Overtake
          /\ UNCHANGED <<hasPtr, data, bWorking, setup, reloc, irps, caller, event, worker,
                         on, crash>>
     ELSE Crash(CtlIrp)

\* ExFreePool(g_pCompInitBuf); the pointer keeps its value, so that switching
\* the filter off once more frees the same address, or NULL: a bug check, or
\* the pool of whoever was given that address since.
FilterOffFree ==
  /\ ctl = "ff_free"
  /\ \/ /\ compBuf # "null"
        /\ compBuf' = "freed"
        /\ ctl' = "idle"
        /\ Overtake
        /\ UNCHANGED <<mover, bEnableProtect, orig, freeList, listFreed, groupBuf, reloc,
                       irps, caller, event, worker, on, crash>>
     \/ compBuf # "live" /\ Crash(CtlIrp)

\* IOCTL_RM_BLKMOV_INIT and IOCTL_RM_ENABLE_DISABLE_RELOCATE
RMInit ==
  /\ "RELOCATE" \in Ioctls
  /\ ctl = "idle"
  /\ bInitMover' = ~bInitMover
  /\ UNCHANGED <<mover, setup, bReLocate, irps, caller, event, worker, control, crash, raced>>

RMReLocate ==
  /\ "RELOCATE" \in Ioctls
  /\ ctl = "idle"
  /\ bReLocate' = ~bReLocate
  /\ UNCHANGED <<mover, setup, bInitMover, irps, caller, event, worker, control, crash, raced>>

\* EnableOrDisable(FALSE), one step for each thing it clears or frees, in the
\* order of the code: flags, the block, the pools, the list, the pointers.
Disable ==
  /\ ctl = "idle" /\ on # "off"
  /\ IF hasPtr
     THEN /\ bWorking' = FALSE
          /\ ctl' = "dis_protect"
          /\ Overtake
          /\ UNCHANGED <<hasPtr, data, bInitSec, setup, reloc, irps, caller, event, worker,
                         on, crash>>
     ELSE Crash(CtlIrp)

DisableProtect ==
  /\ ctl = "dis_protect"
  /\ bEnableProtect' = FALSE
  /\ ctl' = "dis_free"
  /\ Overtake
  /\ UNCHANGED <<mover, orig, freeList, listFreed, groupBuf, compBuf, reloc, irps, caller,
                 event, worker, on, crash>>

\* A step of Disable that changes nothing but what the caller names.
DisableStep(from, to) ==
  /\ ctl = from /\ ctl' = to
  /\ on' = IF to = "idle" THEN "off" ELSE on
  /\ Overtake
  /\ UNCHANGED <<bEnableProtect, orig, compBuf, reloc, irps, caller, event, worker, crash>>

DisableFree ==
  /\ DisableStep("dis_free", "dis_bufs")
  /\ data' = "freed" /\ bWorking' = FALSE /\ bInitSec' = FALSE
  /\ UNCHANGED <<hasPtr, freeList, listFreed, groupBuf>>

DisableBufs ==
  /\ DisableStep("dis_bufs", "dis_list")
  /\ groupBuf' = IF groupBuf = "live" THEN "freed" ELSE groupBuf
  /\ UNCHANGED <<bWorking, bInitSec, hasPtr, data, freeList, listFreed>>

DelFreeSpaceList ==
  /\ DisableStep("dis_list", "dis_listnull")
  /\ listFreed' = (freeList # {})
  /\ UNCHANGED <<bWorking, bInitSec, hasPtr, data, freeList, groupBuf>>

DelFreeSpaceListHead ==
  /\ DisableStep("dis_listnull", "dis_null")
  /\ freeList' = {} /\ listFreed' = FALSE
  /\ UNCHANGED <<bWorking, bInitSec, hasPtr, data, groupBuf>>

\* Mutant of DisableNull: g_pMoverData keeps its value.
DisableKeepsPtr ==
  /\ DisableStep("dis_null", "dis_bufnull")
  /\ UNCHANGED <<bWorking, bInitSec, hasPtr, data, freeList, listFreed, groupBuf>>

DisableNull ==
  /\ DisableStep("dis_null", "dis_bufnull")
  /\ hasPtr' = FALSE /\ data' = "none"
  /\ UNCHANGED <<bWorking, bInitSec, freeList, listFreed, groupBuf>>

DisableBufNull ==
  /\ DisableStep("dis_bufnull", "idle")
  /\ groupBuf' = "null"
  /\ UNCHANGED <<bWorking, bInitSec, hasPtr, data, freeList, listFreed>>

\* PostScript frees the block, then clears the pointer, and nothing else.
PostScript ==
  /\ "POST_SCRIPT" \in Ioctls
  /\ ctl = "idle" /\ on # "off" /\ hasPtr
  /\ data' = "freed" /\ bWorking' = FALSE /\ bInitSec' = FALSE
  /\ ctl' = "post_null"
  /\ Overtake
  /\ UNCHANGED <<hasPtr, setup, reloc, irps, caller, event, worker, on, crash>>

PostScriptNull ==
  /\ ctl = "post_null"
  /\ hasPtr' = FALSE /\ data' = "none"
  /\ ctl' = "idle" /\ on' = "off"
  /\ Overtake
  /\ UNCHANGED <<bWorking, bInitSec, setup, reloc, irps, caller, event, worker, crash>>

\* An IOCTL left to the worker: the control program waits for its answer.  A
\* read or write for which IoAllocateMdl finds no pool is answered at once.
CtlSubmit ==
  /\ "QUEUED" \in Ioctls
  /\ ctl = "idle" /\ on = "ready"
  /\ \E code \in Codes, op \in {"READ", "WRITE"}, ext \in Extents :
       /\ code \notin {"YG_MAPPED"} => op = "READ" /\ ext = Sectors
       /\ req' = [req EXCEPT ![CtlIrp] = [op |-> op, ext |-> ext, code |-> code]]
       /\ \/ irp' = [irp EXCEPT ![CtlIrp] = "dispatch"] /\ ctl' = "insert"
          \/ /\ AllocMayFail /\ code \in {"YG_MAPPED", "YG_RAW"}
             /\ irp' = [irp EXCEPT ![CtlIrp] = "fail"] /\ ctl' = "await"
  /\ UNCHANGED <<mover, setup, reloc, queue, caller, event, worker, on, crash, raced>>

CtlInsert ==
  /\ ctl = "insert"
  /\ queue' = Append(queue, CtlIrp)
  /\ irp' = [irp EXCEPT ![CtlIrp] = "queued"]
  /\ ctl' = "signal"
  /\ UNCHANGED <<mover, setup, reloc, req, caller, event, worker, on, crash, raced>>

CtlSignal ==
  /\ ctl = "signal"
  /\ event' = TRUE
  /\ ctl' = "await"
  /\ UNCHANGED <<mover, setup, reloc, irps, caller, worker, on, crash, raced>>

CtlReap ==
  /\ ctl = "await"
  /\ irp[CtlIrp] \in {"ok", "fail"}
  /\ irp' = [irp EXCEPT ![CtlIrp] = "idle"]
  /\ req' = [req EXCEPT ![CtlIrp] = Idle]
  /\ ctl' = "idle"
  /\ UNCHANGED <<mover, setup, reloc, queue, caller, event, worker, on, crash, raced>>

Control ==
  \/ Enable \/ EnableAlloc \/ EnableInit
  \/ SetParam \/ SetParamLast \/ SetParamProtect \/ SetParamBuf \/ SetParamAlloc
  \/ SetFreeSpace \/ EnableWriteProtect
  \/ FilterOn \/ FilterOnSec \/ FilterOn1st \/ FilterOnLast \/ FilterOff \/ FilterOffFree
  \/ RMInit \/ RMReLocate
  \/ Disable \/ DisableProtect \/ DisableFree \/ DisableBufs \/ DelFreeSpaceList \/ DelFreeSpaceListHead
  \/ DisableNull \/ DisableBufNull \/ PostScript \/ PostScriptNull
  \/ CtlSubmit \/ CtlInsert \/ CtlSignal \/ CtlReap

Dispatch(r) ==
  \/ DispatchCheck(r) \/ DispatchDeref(r) \/ LayoutDeref(r) \/ DispatchReLocate(r) \/ Insert(r) \/ Signal(r)

Next ==
  /\ crash = NoIrp
  /\ \/ \E r \in Irps : Submit(r) \/ Dispatch(r) \/ LowerComplete(r) \/ Reap(r)
     \/ Thread
     \/ Control

Spec == Init /\ [][Next]_vars

-----------------------------------------------------------------------------
(* Properties.                                                             *)

\* The driver's globals, its list and the processes hold what their types and
\* program texts allow; no entry but one of its own IRPs is on the list.
TypeOK ==
  /\ hasPtr \in BOOLEAN /\ data \in {"none", "uninit", "live", "freed"}
  /\ bWorking \in BOOLEAN /\ bInitSec \in BOOLEAN /\ bEnableProtect \in BOOLEAN
  /\ orig \in SUBSET Sectors /\ freeList \in SUBSET Sectors /\ listFreed \in BOOLEAN
  /\ groupBuf \in {"null", "live", "freed"} /\ compBuf \in {"null", "live", "freed"}
  /\ bReLocate \in BOOLEAN /\ bInitMover \in BOOLEAN
  /\ req \in [All -> Requests]
  /\ irp \in [All -> {"idle", "dispatch", "queued", "exec", "lower", "ok", "fail"}]
  /\ caller \in [Irps -> {"idle", "check", "deref", "reloc", "insert", "signal", "wait"}]
  /\ queue \in Seq(All)
  /\ event \in BOOLEAN /\ terminate \in BOOLEAN
  /\ tpc \in {"none", "exit", "wait", "drain", "reloc", "check", "ioctl"} \cup InUse
  /\ cur \in All \cup {NoIrp}
  /\ ctl \in Lifecycle \cup FilterSetUp \cup {"idle", "insert", "signal", "await"}
  /\ on \in {"off", "enabled", "ready"}
  /\ crash \in Irps \cup {CtlIrp, Worker, NoIrp}
  /\ raced \in SUBSET (Irps \cup {Worker})

\* Every IRP is in one place: queued once, or with the worker, or with its
\* caller, the lower driver or the answer - never two of them, so none is
\* completed twice (BlkMovReadWrite and BlkMovDeviceControl return as soon as
\* they queue; Thread removes what it serves).
IrpAccounting ==
  /\ \A i, j \in DOMAIN queue : queue[i] = queue[j] => i = j
  /\ \A r \in All : irp[r] = "queued" <=> \E i \in DOMAIN queue : queue[i] = r
  /\ \A r \in All : irp[r] = "exec" <=> cur = r

\* A queued IRP never waits for a sleeping worker with no wake-up under way:
\* the event is set, or the thread that queued is about to set it.
WakeupNotLost ==
  tpc = "wait" /\ queue # <<>> =>
    event \/ ctl = "signal" \/ \E r \in Irps : caller[r] = "signal"

\* A pointer to pool that is gone cannot be followed by a process that starts
\* after the call that freed it.  g_pMoverData, g_SecGroupBuf and
\* g_FreeSpaceList refer to such pool only inside that call.  g_pCompInitBuf is
\* never cleared and goes on referring to it; every use of it is behind
\* bInitSec, and whenever that flag can be read and is on the buffer is there
\* (or could never be allocated): FilterOn allocates before it sets the flag
\* and FilterOff clears the flag before it frees, in whatever order the two,
\* EnableOrDisable and PostScript are called.
StalePoolOutOfReach ==
  /\ hasPtr /\ data # "live" =>
       ctl \in {"en_init", "dis_bufs", "dis_list", "dis_listnull", "dis_null", "post_null"}
  /\ groupBuf = "freed" => ctl \in {"dis_list", "dis_listnull", "dis_null", "dis_bufnull"}
  /\ listFreed => ctl = "dis_listnull"
  /\ data = "live" /\ bInitSec => compBuf = "live" \/ (compBuf = "null" /\ AllocMayFail)

\* With memory to spare, the tests of g_pMoverData suffice: an I/O path stops
\* the system only if a lifecycle call ran between its test and its use.  The
\* control program stops it only by switching off a filter whose buffer is not
\* there: one it never switched on, or has switched off before.
CrashNeedsLifecycleRace ==
  \/ AllocMayFail
  \/ crash = NoIrp
  \/ crash \in raced
  \/ crash # CtlIrp /\ ctl \in Lifecycle
  \/ crash = CtlIrp /\ ctl = "ff_free" /\ compBuf # "live"

\* A block that EnableOrDisable has not cleared yet is never the reason to
\* queue a request: the range it emptied beforehand decides.
UninitNeverQueues ==
  [][\A r \in Irps : caller[r] = "deref" /\ caller'[r] = "insert" => data # "uninit"]_vars

-----------------------------------------------------------------------------
\* The worker is a system thread and the dispatching threads run on; the
\* lower driver completes what it accepts.
Fairness ==
  /\ WF_vars(crash = NoIrp /\ Thread)
  /\ WF_vars(crash = NoIrp /\ (CtlInsert \/ CtlSignal))
  /\ \A r \in Irps : /\ WF_vars(crash = NoIrp /\ Dispatch(r))
                     /\ WF_vars(crash = NoIrp /\ LowerComplete(r))

FairSpec == Spec /\ Fairness

\* Every queued IRP is answered, unless the system stopped or the device never
\* got its worker (BlkMovAddDevice ignores the status of CreateThread).
QueuedIsAnswered ==
  \A r \in All :
    irp[r] = "queued" ~> \/ irp[r] \in {"ok", "fail"}
                         \/ crash # NoIrp \/ terminate \/ tpc = "none"

=============================================================================
