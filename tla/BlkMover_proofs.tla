--------------------------- MODULE BlkMover_proofs ---------------------------
(* Theorems about BlkMover, for every set of IRPs and sectors.             *)
EXTENDS BlkMover, Integers, TLAPS

-----------------------------------------------------------------------------
(* Type correctness.                                                       *)

LEMMA TypeInit == Init => TypeOK
<1> SUFFICES ASSUME Init PROVE TypeOK
  OBVIOUS
<1>1. Idle \in Requests
  BY DEF Idle, Requests
<1>2. queue \in Seq(All)
  BY DEF Init
<1>3. /\ req \in [All -> Requests]
      /\ irp \in [All -> {"idle", "dispatch", "queued", "exec", "lower", "ok", "fail"}]
      /\ caller \in [Irps -> {"idle", "check", "deref", "reloc", "insert", "signal", "wait"}]
  BY <1>1 DEF Init
<1>4. terminate \in BOOLEAN /\ event \in BOOLEAN
  BY DEF Init
<1> QED BY <1>2, <1>3, <1>4 DEF Init, TypeOK

LEMMA TypeNext == TypeOK /\ [Next]_vars => TypeOK'
<1> SUFFICES ASSUME TypeOK, [Next]_vars PROVE TypeOK'
  OBVIOUS
<1> USE BlkMoverAssumption DEF TypeOK, All, mover, setup, reloc, irps, worker, control
<1>1. ASSUME NEW r \in Irps, Submit(r) PROVE TypeOK'
  <2>1. Layout \in Requests
    BY DEF Layout, Requests
  <2>2. req' \in [All -> Requests]
    <3>1. ASSUME NEW op \in {"READ", "WRITE"}, NEW ext \in Extents
          PROVE  [op |-> op, ext |-> ext, code |-> "RW"] \in Requests
      BY DEF Requests, Extents
    <3>2. \E q \in Requests : req' = [req EXCEPT ![r] = q]
      BY <1>1, <2>1, <3>1 DEF Submit
    <3> QED BY <3>2
  <2> QED BY <1>1, <2>2 DEF Submit
<1>2. ASSUME NEW r \in Irps, Dispatch(r) PROVE TypeOK'
  <2>a. ASSUME NEW pc \in {"deref", "reloc", "insert"}, Goto(r, pc) PROVE TypeOK'
    BY <2>a DEF Goto
  <2>b. ASSUME Crash(r) PROVE TypeOK'
    BY <2>b DEF Crash
  <2>1. CASE DispatchCheck(r) BY <2>1, <2>a DEF DispatchCheck
  <2>2. CASE DispatchDeref(r) BY <2>2, <2>a, <2>b DEF DispatchDeref
  <2>3. CASE DispatchReLocate(r) BY <2>3, <2>a DEF DispatchReLocate
  <2>4. CASE Insert(r) BY <2>4 DEF Insert, All
  <2>5. CASE Signal(r) BY <2>5 DEF Signal
  <2>6. CASE LayoutDeref(r)
    <3>1. ASSUME irp' = [irp EXCEPT ![r] = "ok"], caller' = [caller EXCEPT ![r] = "wait"],
                 UNCHANGED <<mover, setup, reloc, req, queue, event, worker, control, crash, raced>>
          PROVE  TypeOK'
      BY <3>1
    <3> QED BY <2>6, <3>1, <2>a, <2>b DEF LayoutDeref
  <2> QED BY <1>2, <2>1, <2>2, <2>3, <2>4, <2>5, <2>6 DEF Dispatch
<1>3. ASSUME NEW r \in Irps, LowerComplete(r) PROVE TypeOK'
  BY <1>3 DEF LowerComplete
<1>4. ASSUME NEW r \in Irps, Reap(r) PROVE TypeOK'
  BY <1>4 DEF Reap, Idle, Requests
<1>5. ASSUME Thread PROVE TypeOK'
  <2>1. ASSUME NEW st \in {"ok", "fail"}, Complete(st) PROVE TypeOK'
    <3>1. irp' \in [All -> {"idle", "dispatch", "queued", "exec", "lower", "ok", "fail"}]
      BY <2>1 DEF Complete
    <3> QED BY <2>1, <3>1 DEF Complete
  <2>2. ASSUME NEW pc \in {"check", "deref", "space", "plain", "protect", "group", "cmp"},
               ThreadGoto(pc)
        PROVE TypeOK'
    BY <2>2 DEF ThreadGoto, InUse
  <2>3. ASSUME Crash(Worker) PROVE TypeOK'
    BY <2>3 DEF Crash
  <2>4. CASE ThreadWait
    <3>1. event' \in BOOLEAN
      BY <2>4 DEF ThreadWait
    <3> QED BY <2>4, <3>1 DEF ThreadWait
  <2>5. CASE ThreadPop
    <3>1. CASE queue = <<>> BY <2>5, <3>1 DEF ThreadPop
    <3>2. CASE queue # <<>>
      <4>1. Head(queue) \in All /\ Tail(queue) \in Seq(All)
        BY <3>2
      <4>2. irp' \in [All -> {"idle", "dispatch", "queued", "exec", "lower", "ok", "fail"}]
        BY <2>5, <3>2 DEF ThreadPop
      <4> QED BY <2>5, <3>2, <4>1, <4>2 DEF ThreadPop
    <3> QED BY <3>1, <3>2
  <2>6. CASE ThreadReLocate BY <2>1, <2>2, <2>6 DEF ThreadReLocate, Transfer
  <2>7. CASE ThreadCheck BY <2>1, <2>2, <2>7 DEF ThreadCheck
  <2>8. CASE ThreadDeref BY <2>2, <2>3, <2>8 DEF ThreadDeref
  <2>9. CASE ThreadSpace BY <2>1, <2>2, <2>3, <2>9 DEF ThreadSpace
  <2>10. CASE ThreadPlain BY <2>1, <2>2, <2>3, <2>10 DEF ThreadPlain, Transfer
  <2>11. CASE ThreadProtect BY <2>1, <2>2, <2>3, <2>11 DEF ThreadProtect, Transfer
  <2>12. CASE ThreadGroup BY <2>1, <2>3, <2>12 DEF ThreadGroup, Transfer
  <2>13. CASE ThreadCompare BY <2>1, <2>3, <2>13 DEF ThreadCompare, Transfer
  <2>14. CASE ThreadIoctl
    <3>1. ASSUME ThreadMovingGroup PROVE TypeOK'
      <4>1. CASE hasPtr
        <5>1. irp' \in [All -> {"idle", "dispatch", "queued", "exec", "lower", "ok", "fail"}]
          BY <3>1, <4>1 DEF ThreadMovingGroup
        <5> QED BY <3>1, <4>1, <5>1 DEF ThreadMovingGroup
      <4> QED BY <2>3, <3>1, <4>1 DEF ThreadMovingGroup
    <3> QED BY <2>1, <2>3, <2>14, <3>1 DEF ThreadIoctl, Transfer
  <2> QED BY <1>5, <2>4, <2>5, <2>6, <2>7, <2>8, <2>9, <2>10, <2>11, <2>12, <2>13, <2>14
          DEF Thread
<1>6. ASSUME Control PROVE TypeOK'
  <2>a. Overtake => raced' \in SUBSET (Irps \cup {Worker})
    BY DEF Overtake, Overtaken
  <2> USE <2>a DEF Lifecycle, FilterSetUp, DisableStep, Extents
  <2>1. CASE Enable BY <2>1 DEF Enable
  <2>2. CASE EnableAlloc
    <3>1. hasPtr' \in BOOLEAN
      BY <2>2 DEF EnableAlloc
    <3> QED BY <2>2, <3>1 DEF EnableAlloc
  <2>3. CASE EnableInit
    <3>1. bWorking' \in BOOLEAN
      BY <2>3 DEF EnableInit
    <3>2. bInitSec' \in BOOLEAN
      BY <2>3 DEF EnableInit
    <3> QED BY <2>3, <3>1, <3>2 DEF EnableInit
  <2>4. CASE SetParam \/ SetParamLast \/ SetParamProtect \/ SetParamBuf
    <3>1. bEnableProtect' \in BOOLEAN
      BY <2>4 DEF SetParam, SetParamLast, SetParamProtect, SetParamBuf
    <3> QED BY <2>4, <3>1 DEF SetParam, SetParamLast, SetParamProtect, SetParamBuf
  <2>5. CASE SetParamAlloc BY <2>5 DEF SetParamAlloc
  <2>6. CASE SetFreeSpace BY <2>6 DEF SetFreeSpace
  <2>7. CASE EnableWriteProtect BY <2>7 DEF EnableWriteProtect
  <2>8. CASE FilterOn \/ FilterOnSec \/ FilterOn1st \/ FilterOnLast
    <3>1. bInitSec' \in BOOLEAN
      BY <2>8 DEF FilterOn, FilterOnSec, FilterOn1st, FilterOnLast, Crash
    <3> QED BY <2>8, <3>1 DEF FilterOn, FilterOnSec, FilterOn1st, FilterOnLast, Crash
  <2>9. CASE FilterOff \/ FilterOffFree
    <3>1. bInitSec' \in BOOLEAN
      BY <2>9 DEF FilterOff, FilterOffFree, Crash
    <3> QED BY <2>9, <3>1 DEF FilterOff, FilterOffFree, Crash
  <2>10. CASE RMInit \/ RMReLocate
    <3>1. bInitMover' \in BOOLEAN
      BY <2>10 DEF RMInit, RMReLocate
    <3>2. bReLocate' \in BOOLEAN
      BY <2>10 DEF RMInit, RMReLocate
    <3> QED BY <2>10, <3>1, <3>2 DEF RMInit, RMReLocate
  <2>11. CASE Disable \/ DisableProtect
    <3>1. bWorking' \in BOOLEAN
      BY <2>11 DEF Disable, DisableProtect, Crash
    <3>2. bEnableProtect' \in BOOLEAN
      BY <2>11 DEF Disable, DisableProtect, Crash
    <3> QED BY <2>11, <3>1, <3>2 DEF Disable, DisableProtect, Crash
  <2>12. CASE DisableFree
    <3>1. bWorking' \in BOOLEAN
      BY <2>12 DEF DisableFree
    <3>2. bInitSec' \in BOOLEAN
      BY <2>12 DEF DisableFree
    <3> QED BY <2>12, <3>1, <3>2 DEF DisableFree
  <2>13. CASE DisableBufs BY <2>13 DEF DisableBufs
  <2>14. CASE DelFreeSpaceList \/ DelFreeSpaceListHead
    <3>1. listFreed' \in BOOLEAN
      BY <2>14 DEF DelFreeSpaceList, DelFreeSpaceListHead
    <3> QED BY <2>14, <3>1 DEF DelFreeSpaceList, DelFreeSpaceListHead
  <2>15. CASE DisableNull \/ DisableBufNull
    <3>1. hasPtr' \in BOOLEAN
      BY <2>15 DEF DisableNull, DisableBufNull
    <3> QED BY <2>15, <3>1 DEF DisableNull, DisableBufNull
  <2>16. CASE PostScript \/ PostScriptNull
    <3>1. hasPtr' \in BOOLEAN
      BY <2>16 DEF PostScript, PostScriptNull
    <3>2. bWorking' \in BOOLEAN
      BY <2>16 DEF PostScript, PostScriptNull
    <3>3. bInitSec' \in BOOLEAN
      BY <2>16 DEF PostScript, PostScriptNull
    <3> QED BY <2>16, <3>1, <3>2, <3>3 DEF PostScript, PostScriptNull
  <2>17. CASE CtlSubmit
    <3>1. irp' \in [All -> {"idle", "dispatch", "queued", "exec", "lower", "ok", "fail"}]
      BY <2>17 DEF CtlSubmit
    <3>2. req' \in [All -> Requests]
      BY <2>17 DEF CtlSubmit, Requests, Codes
    <3> QED BY <2>17, <3>1, <3>2 DEF CtlSubmit
  <2>18. CASE CtlInsert BY <2>18 DEF CtlInsert, All
  <2>19. CASE CtlSignal BY <2>19 DEF CtlSignal
  <2>20. CASE CtlReap BY <2>20 DEF CtlReap, Idle, Requests
  <2> QED BY <1>6, <2>1, <2>2, <2>3, <2>4, <2>5, <2>6, <2>7, <2>8, <2>9, <2>10, <2>11, <2>12,
             <2>13, <2>14, <2>15, <2>16, <2>17, <2>18, <2>19, <2>20 DEF Control
<1>7. CASE UNCHANGED vars
  BY <1>7 DEF vars
<1> QED BY <1>1, <1>2, <1>3, <1>4, <1>5, <1>6, <1>7 DEF Next

\* Every variable keeps its type (the states of IRPs, threads and pool).
THEOREM TypeCorrect == Spec => []TypeOK
  BY TypeInit, TypeNext, PTL DEF Spec

-----------------------------------------------------------------------------
(* The invariants behind the theorems below.                               *)

Serving == {"reloc", "check", "ioctl"} \cup InUse

\* Where an IRP is follows from where its caller is, and the worker holds an
\* IRP exactly while it serves one.
IrpPlace ==
  /\ \A r \in Irps : caller[r] \in {"check", "deref", "reloc", "insert"} => irp[r] = "dispatch"
  /\ \A r \in Irps : caller[r] = "idle" => irp[r] = "idle"
  /\ \A r \in Irps : req[r].code \in {"RW", "LAYOUT"}
  /\ \A r \in Irps : irp[r] \in {"queued", "exec"} \/ caller[r] = "insert" => req[r].code = "RW"
  /\ \A r \in Irps : req[r].code = "LAYOUT" => req[r].ext = {}
  /\ ctl = "insert" => irp[CtlIrp] = "dispatch"
  /\ ctl \in Lifecycle \cup FilterSetUp \cup {"idle"} => irp[CtlIrp] = "idle"
  /\ tpc \in Serving <=> cur # NoIrp
  /\ tpc = "ioctl" => ~Mapped(cur)

IrpInv == TypeOK /\ IrpPlace /\ IrpAccounting

\* The flag goes off before the buffer and on after it.
PoolInv ==
  /\ ctl = "ff_free" => ~bInitSec
  /\ ctl \in {"fo_sec"} => compBuf = "live" \/ (compBuf = "null" /\ AllocMayFail)
  /\ StalePoolOutOfReach

SettingUp == {"sp_last", "sp_protect", "sp_buf", "sp_alloc"}

Disabling == {"dis_protect", "dis_free", "dis_bufs", "dis_list", "dis_listnull", "dis_null", "dis_bufnull"}

\* What the control program has set up, it has set up completely.
SetUpInv ==
  /\ (on # "off" /\ ctl # "dis_bufnull") \/ ctl = "en_init" => hasPtr
  /\ ctl \in {"insert", "signal", "await"} => on = "ready"
  /\ ctl \in SettingUp => on = "enabled"
  /\ ctl \in FilterSetUp => on # "off"
  /\ ctl \in Disabling \cup {"post_null"} => ~bWorking
  /\ ctl \in Disabling \ {"dis_protect"} => ~bEnableProtect
  /\ bWorking => on = "ready"
  /\ ctl \in {"sp_buf", "sp_alloc"} => ~bEnableProtect
  /\ bWorking \/ bEnableProtect \/ (on = "ready" /\ ctl \notin Disabling \ {"dis_protect"}) => groupBuf = "live"

\* What a process has tested still holds when nothing overtook it.
TestedInv ==
  ctl \notin Lifecycle =>
    /\ \A r \in Irps : caller[r] = "deref" /\ r \notin raced => hasPtr
    /\ tpc \in InUse /\ Worker \notin raced => hasPtr
    /\ tpc \in {"space", "protect", "group"} /\ Worker \notin raced => groupBuf = "live"
    /\ tpc = "cmp" /\ Worker \notin raced => compBuf = "live"

CrashInv ==
  AllocMayFail \/ (SetUpInv /\ TestedInv /\ CrashNeedsLifecycleRace)

IInv == IrpInv /\ PoolInv /\ WakeupNotLost /\ CrashInv

-----------------------------------------------------------------------------
(* What groups of actions leave alone.                                     *)

Quiet == Lifecycle \cup FilterSetUp \cup {"idle"}

\* An IOCTL that is not queued touches no IRP and no thread.
LEMMA ControlFrame ==
  ASSUME Control
  PROVE  \/ CtlSubmit \/ CtlInsert \/ CtlSignal \/ CtlReap
         \/ UNCHANGED <<irps, caller, event, worker>> /\ ctl \in Quiet /\ ctl' \in Quiet
<1> USE DEF Quiet, Lifecycle, FilterSetUp, DisableStep, control
<1>1. CASE Enable \/ EnableAlloc \/ EnableInit \/ SetParam \/ SetParamLast \/ SetParamProtect
           \/ SetParamBuf \/ SetParamAlloc
  BY <1>1 DEF Enable, EnableAlloc, EnableInit, SetParam, SetParamLast, SetParamProtect,
              SetParamBuf, SetParamAlloc
<1>2. CASE SetFreeSpace \/ EnableWriteProtect \/ RMInit \/ RMReLocate
  BY <1>2 DEF SetFreeSpace, EnableWriteProtect, RMInit, RMReLocate
<1>3. CASE FilterOn \/ FilterOnSec \/ FilterOn1st \/ FilterOnLast \/ FilterOff \/ FilterOffFree
  BY <1>3 DEF FilterOn, FilterOnSec, FilterOn1st, FilterOnLast, FilterOff, FilterOffFree, Crash
<1>4. CASE Disable \/ DisableProtect
  BY <1>4 DEF Disable, DisableProtect, Crash
<1>5. CASE DisableFree \/ DisableBufs \/ DelFreeSpaceList \/ DelFreeSpaceListHead
           \/ DisableNull \/ DisableBufNull
  BY <1>5 DEF DisableFree, DisableBufs, DelFreeSpaceList, DelFreeSpaceListHead,
              DisableNull, DisableBufNull
<1>6. CASE PostScript \/ PostScriptNull
  BY <1>6 DEF PostScript, PostScriptNull
<1> QED BY <1>1, <1>2, <1>3, <1>4, <1>5, <1>6 DEF Control

\* While it serves an IRP the worker completes it, goes on, or stops the system.
LEMMA ThreadFrame ==
  ASSUME TypeOK, Thread
  PROVE  \/ ThreadWait \/ ThreadPop
         \/ /\ tpc \in Serving
            /\ \/ \E st \in {"ok", "fail"} : Complete(st)
               \/ \E pc \in InUse \cup {"check"} : ThreadGoto(pc)
               \/ Crash(Worker)
               \/ ThreadMovingGroup /\ tpc = "ioctl" /\ req[cur].code = "MOVING_GROUP"
<1> USE DEF Serving, InUse
<1>1. CASE ThreadReLocate BY <1>1 DEF ThreadReLocate, Transfer
<1>2. CASE ThreadCheck BY <1>2 DEF ThreadCheck
<1>3. CASE ThreadDeref BY <1>3 DEF ThreadDeref
<1>4. CASE ThreadSpace BY <1>4 DEF ThreadSpace
<1>5. CASE ThreadPlain BY <1>5 DEF ThreadPlain, Transfer
<1>6. CASE ThreadProtect BY <1>6 DEF ThreadProtect, Transfer
<1>7. CASE ThreadGroup BY <1>7 DEF ThreadGroup, Transfer
<1>8. CASE ThreadCompare BY <1>8 DEF ThreadCompare, Transfer
<1>9. CASE ThreadIoctl BY <1>9 DEF ThreadIoctl, Transfer
<1> QED BY <1>1, <1>2, <1>3, <1>4, <1>5, <1>6, <1>7, <1>8, <1>9 DEF Thread

-----------------------------------------------------------------------------
(* One place for every IRP.                                                *)

\* Appending an IRP that is not queued keeps the queue free of duplicates.
LEMMA AppendOnce ==
  ASSUME NEW S, NEW q \in Seq(S), NEW r \in S, \A i \in DOMAIN q : q[i] # r,
         \A i, j \in DOMAIN q : q[i] = q[j] => i = j
  PROVE  /\ \A i, j \in DOMAIN Append(q, r) : Append(q, r)[i] = Append(q, r)[j] => i = j
         /\ \A x : (\E i \in DOMAIN Append(q, r) : Append(q, r)[i] = x)
                     <=> x = r \/ \E i \in DOMAIN q : q[i] = x
<1> DEFINE a == Append(q, r)
<1>1. Len(q) \in Nat /\ DOMAIN q = 1 .. Len(q) /\ DOMAIN a = 1 .. Len(q) + 1
  OBVIOUS
<1>2. \A i \in DOMAIN q : a[i] = q[i]
  OBVIOUS
<1>3. a[Len(q) + 1] = r
  OBVIOUS
<1>4. \A i \in DOMAIN a : i \in DOMAIN q \/ i = Len(q) + 1
  BY <1>1
<1>5. DOMAIN q \subseteq DOMAIN a /\ Len(q) + 1 \in DOMAIN a
  BY <1>1
<1> HIDE DEF a
<1> QED BY <1>2, <1>3, <1>4, <1>5 DEF a

\* Removing the head of such a queue removes that IRP from it.
LEMMA TailOnce ==
  ASSUME NEW S, NEW q \in Seq(S), q # <<>>,
         \A i, j \in DOMAIN q : q[i] = q[j] => i = j
  PROVE  /\ \A i, j \in DOMAIN Tail(q) : Tail(q)[i] = Tail(q)[j] => i = j
         /\ \A x : (\E i \in DOMAIN Tail(q) : Tail(q)[i] = x)
                     <=> x # Head(q) /\ \E i \in DOMAIN q : q[i] = x
<1> DEFINE t == Tail(q)
<1>1. Len(q) \in Nat \ {0} /\ DOMAIN q = 1 .. Len(q) /\ DOMAIN t = 1 .. Len(q) - 1
  OBVIOUS
<1>2. \A i \in DOMAIN t : t[i] = q[i + 1] /\ i + 1 \in DOMAIN q /\ i + 1 # 1
  BY <1>1
<1>3. Head(q) = q[1] /\ 1 \in DOMAIN q
  BY <1>1
<1>4. \A i \in DOMAIN q : i # 1 => i - 1 \in DOMAIN t /\ t[i - 1] = q[i]
  BY <1>1
<1>5. \A i, j \in DOMAIN t : i + 1 = j + 1 => i = j
  BY <1>1
<1> HIDE DEF t
<1>6. \A i, j \in DOMAIN t : t[i] = t[j] => i = j
  BY <1>2, <1>5
<1>7. ASSUME NEW i \in DOMAIN t PROVE t[i] # Head(q) /\ \E k \in DOMAIN q : q[k] = t[i]
  BY <1>2, <1>3
<1>8. ASSUME NEW i \in DOMAIN q, q[i] # Head(q) PROVE \E k \in DOMAIN t : t[k] = q[i]
  <2>1. i # 1
    BY <1>3, <1>8
  <2> QED BY <1>4, <2>1
<1> QED BY <1>6, <1>7, <1>8 DEF t

LEMMA IrpInit == Init => IrpPlace /\ IrpAccounting
  BY BlkMoverAssumption DEF Init, IrpPlace, IrpAccounting, All, Idle, Serving, InUse

LEMMA IrpNext == IrpInv /\ [Next]_vars => IrpInv'
<1> SUFFICES ASSUME IrpInv, [Next]_vars PROVE IrpPlace' /\ IrpAccounting'
  BY TypeNext DEF IrpInv
<1>0. TypeOK /\ IrpPlace /\ IrpAccounting
  BY DEF IrpInv
<1>t. /\ irp \in [All -> {"idle", "dispatch", "queued", "exec", "lower", "ok", "fail"}]
      /\ caller \in [Irps -> {"idle", "check", "deref", "reloc", "insert", "signal", "wait"}]
      /\ req \in [All -> Requests]
      /\ queue \in Seq(All)
      /\ cur \in All \cup {NoIrp} /\ NoIrp \notin All
      /\ CtlIrp \in All /\ CtlIrp \notin Irps /\ Irps \subseteq All
  BY <1>0, BlkMoverAssumption DEF TypeOK, All
<1> USE DEF mover, setup, reloc, irps, worker, control, IrpPlace, IrpAccounting, Mapped, Serving,
            InUse
<1>1. ASSUME NEW r \in Irps, Submit(r) PROVE IrpPlace' /\ IrpAccounting'
  BY <1>0, <1>t, <1>1 DEF Submit, Layout
<1>2. ASSUME NEW r \in Irps, Dispatch(r) PROVE IrpPlace' /\ IrpAccounting'
  <2>1. ASSUME NEW pc \in {"deref", "reloc", "insert"}, Goto(r, pc),
               caller[r] \in {"check", "deref", "reloc"}, pc = "insert" => req[r].code = "RW"
        PROVE IrpPlace' /\ IrpAccounting'
    BY <1>0, <1>t, <2>1 DEF Goto
  <2>2. ASSUME Crash(r) PROVE IrpPlace' /\ IrpAccounting'
    BY <1>0, <2>2 DEF Crash
  <2>3. CASE DispatchCheck(r) BY <2>1, <2>3 DEF DispatchCheck
  <2>4. CASE DispatchDeref(r) BY <2>1, <2>2, <2>4 DEF DispatchDeref
  <2>5. CASE DispatchReLocate(r)
    BY <1>0, <1>t, <2>1, <2>5 DEF DispatchReLocate
  <2>6. CASE Insert(r)
    <3>1. irp[r] = "dispatch" /\ r \in All /\ \A i \in DOMAIN queue : queue[i] # r
      BY <1>0, <1>t, <2>6 DEF Insert
    <3>2. queue \in Seq(All) /\ \A i, j \in DOMAIN queue : queue[i] = queue[j] => i = j
      BY <1>0, <1>t
    <3>3. /\ \A i, j \in DOMAIN Append(queue, r) :
               Append(queue, r)[i] = Append(queue, r)[j] => i = j
          /\ \A x : (\E i \in DOMAIN Append(queue, r) : Append(queue, r)[i] = x)
                      <=> x = r \/ \E i \in DOMAIN queue : queue[i] = x
      BY ONLY <3>1, <3>2, AppendOnce
    <3>4. queue' = Append(queue, r) /\ UNCHANGED <<cur, tpc, req>>
          /\ irp' = [irp EXCEPT ![r] = "queued"]
      BY <2>6 DEF Insert
    <3>5. IrpAccounting'
      <4>1. ASSUME NEW x \in All
            PROVE  irp'[x] = IF x = r THEN "queued" ELSE irp[x]
        BY ONLY <1>t, <3>1, <3>4, x \in All
      <4>2. ASSUME NEW x \in All
            PROVE  irp'[x] = "queued" <=> \E i \in DOMAIN queue' : queue'[i] = x
        <5>1. irp[x] = "queued" <=> \E i \in DOMAIN queue : queue[i] = x
          BY <1>0
        <5>2. (\E i \in DOMAIN queue' : queue'[i] = x)
                <=> x = r \/ \E i \in DOMAIN queue : queue[i] = x
          BY ONLY <3>3, <3>4
        <5> QED BY ONLY <4>1, <5>1, <5>2
      <4>3. ASSUME NEW x \in All PROVE irp'[x] = "exec" <=> cur' = x
        BY <1>0, <3>1, <3>4, <4>1
      <4>4. \A i, j \in DOMAIN queue' : queue'[i] = queue'[j] => i = j
        BY <3>3, <3>4
      <4> QED BY <4>2, <4>3, <4>4
    <3>6. IrpPlace'
      BY <1>0, <1>t, <3>1, <3>4, <2>6 DEF Insert
    <3> QED BY <3>5, <3>6
  <2>7. CASE Signal(r)
    BY <1>0, <1>t, <2>7 DEF Signal
  <2>8. CASE LayoutDeref(r)
    <3>1. ASSUME irp' = [irp EXCEPT ![r] = "ok"], caller' = [caller EXCEPT ![r] = "wait"],
                 UNCHANGED <<mover, setup, reloc, req, queue, event, worker, control, crash, raced>>
          PROVE  IrpPlace' /\ IrpAccounting'
      <4>1. irp[r] = "dispatch"
        BY <1>0, <2>8 DEF LayoutDeref
      <4>2. IrpAccounting'
        BY <1>0, <1>t, <3>1, <4>1
      <4>3. IrpPlace'
        BY <1>0, <1>t, <3>1, <4>1
      <4> QED BY <4>2, <4>3
    <3> QED BY <2>1, <2>2, <2>8, <3>1 DEF LayoutDeref
  <2> QED BY <1>2, <2>3, <2>4, <2>5, <2>6, <2>7, <2>8 DEF Dispatch
<1>3. ASSUME NEW r \in Irps, LowerComplete(r) PROVE IrpPlace' /\ IrpAccounting'
  BY <1>0, <1>t, <1>3 DEF LowerComplete
<1>4. ASSUME NEW r \in Irps, Reap(r) PROVE IrpPlace' /\ IrpAccounting'
  BY <1>0, <1>t, <1>4 DEF Reap, Idle
<1>5. ASSUME Thread PROVE IrpPlace' /\ IrpAccounting'
  <2>1. CASE ThreadWait
    BY <1>0, <2>1 DEF ThreadWait
  <2>2. CASE ThreadPop
    <3>1. CASE queue = <<>>
      BY <1>0, <2>2, <3>1 DEF ThreadPop
    <3>2. CASE queue # <<>>
      <4>1. queue \in Seq(All) /\ \A i, j \in DOMAIN queue : queue[i] = queue[j] => i = j
        BY <1>0, <1>t
      <4>2. /\ \A i, j \in DOMAIN Tail(queue) : Tail(queue)[i] = Tail(queue)[j] => i = j
            /\ \A x : (\E i \in DOMAIN Tail(queue) : Tail(queue)[i] = x)
                        <=> x # Head(queue) /\ \E i \in DOMAIN queue : queue[i] = x
        BY ONLY <3>2, <4>1, TailOnce
      <4>3. Head(queue) \in All /\ Head(queue) = queue[1] /\ 1 \in DOMAIN queue
        BY ONLY <3>2, <4>1
      <4>4. irp[Head(queue)] = "queued" /\ cur = NoIrp
        BY <1>0, <1>t, <2>2, <4>3 DEF ThreadPop
      <4>5. /\ queue' = Tail(queue) /\ cur' = Head(queue) /\ UNCHANGED <<req, caller, ctl>>
            /\ irp' = [irp EXCEPT ![Head(queue)] = "exec"]
            /\ tpc' = IF Mapped(Head(queue)) THEN "reloc" ELSE "ioctl"
        BY <2>2, <3>2 DEF ThreadPop
      <4>6. IrpAccounting'
        <5>1. \A i, j \in DOMAIN queue' : queue'[i] = queue'[j] => i = j
          BY <4>2, <4>5
        <5>2. ASSUME NEW x \in All
              PROVE  irp'[x] = "queued" <=> \E i \in DOMAIN queue' : queue'[i] = x
          <6>1. (\E i \in DOMAIN queue' : queue'[i] = x)
                  <=> x # Head(queue) /\ \E i \in DOMAIN queue : queue[i] = x
            BY ONLY <4>2, <4>5
          <6>2. irp[x] = "queued" <=> \E i \in DOMAIN queue : queue[i] = x
            BY <1>0
          <6>3. irp'[x] = IF x = Head(queue) THEN "exec" ELSE irp[x]
            BY ONLY <1>t, <4>5, x \in All
          <6> QED BY ONLY <6>1, <6>2, <6>3
        <5>3. ASSUME NEW x \in All PROVE irp'[x] = "exec" <=> cur' = x
          <6>1. irp'[x] = IF x = Head(queue) THEN "exec" ELSE irp[x]
            BY ONLY <1>t, <4>5, x \in All
          <6>2. irp[x] # "exec"
            BY <1>0, <1>t, <4>4
          <6> QED BY ONLY <4>5, <6>1, <6>2
        <5> QED BY <5>1, <5>2, <5>3
      <4>7. IrpPlace'
        BY <1>0, <1>t, <4>3, <4>4, <4>5
      <4> QED BY <4>6, <4>7
    <3> QED BY <3>1, <3>2
  <2>3. ASSUME tpc \in Serving, NEW st \in {"ok", "fail"}, Complete(st)
        PROVE IrpPlace' /\ IrpAccounting'
    BY <1>0, <1>t, <2>3 DEF Complete
  <2>4. ASSUME tpc \in Serving, NEW pc \in InUse \cup {"check"}, ThreadGoto(pc)
        PROVE IrpPlace' /\ IrpAccounting'
    BY <1>0, <2>4 DEF ThreadGoto
  <2>5. CASE Crash(Worker)
    BY <1>0, <2>5 DEF Crash
  <2>6. ASSUME tpc \in Serving, ThreadMovingGroup PROVE IrpPlace' /\ IrpAccounting'
    BY <1>0, <1>t, <2>5, <2>6 DEF ThreadMovingGroup
  <2> QED BY <1>0, <1>5, <2>1, <2>2, <2>3, <2>4, <2>5, <2>6, ThreadFrame
<1>6. ASSUME Control PROVE IrpPlace' /\ IrpAccounting'
  <2> USE DEF Quiet, Lifecycle, FilterSetUp
  <2>1. CASE CtlSubmit
    BY <1>0, <1>t, <2>1 DEF CtlSubmit
  <2>2. CASE CtlInsert
    <3>1. irp[CtlIrp] = "dispatch" /\ CtlIrp \in All /\ \A i \in DOMAIN queue : queue[i] # CtlIrp
      BY <1>0, <1>t, <2>2 DEF CtlInsert
    <3>2. queue \in Seq(All) /\ \A i, j \in DOMAIN queue : queue[i] = queue[j] => i = j
      BY <1>0, <1>t
    <3>3. /\ \A i, j \in DOMAIN Append(queue, CtlIrp) :
               Append(queue, CtlIrp)[i] = Append(queue, CtlIrp)[j] => i = j
          /\ \A x : (\E i \in DOMAIN Append(queue, CtlIrp) : Append(queue, CtlIrp)[i] = x)
                      <=> x = CtlIrp \/ \E i \in DOMAIN queue : queue[i] = x
      BY ONLY <3>1, <3>2, AppendOnce
    <3>4. queue' = Append(queue, CtlIrp) /\ UNCHANGED <<cur, tpc, req>>
          /\ irp' = [irp EXCEPT ![CtlIrp] = "queued"]
      BY <2>2 DEF CtlInsert
    <3>5. IrpAccounting'
      <4>1. ASSUME NEW x \in All
            PROVE  irp'[x] = IF x = CtlIrp THEN "queued" ELSE irp[x]
        BY ONLY <1>t, <3>1, <3>4, x \in All
      <4>2. ASSUME NEW x \in All
            PROVE  irp'[x] = "queued" <=> \E i \in DOMAIN queue' : queue'[i] = x
        <5>1. irp[x] = "queued" <=> \E i \in DOMAIN queue : queue[i] = x
          BY <1>0
        <5>2. (\E i \in DOMAIN queue' : queue'[i] = x)
                <=> x = CtlIrp \/ \E i \in DOMAIN queue : queue[i] = x
          BY ONLY <3>3, <3>4
        <5> QED BY ONLY <4>1, <5>1, <5>2
      <4>3. ASSUME NEW x \in All PROVE irp'[x] = "exec" <=> cur' = x
        BY <1>0, <3>1, <3>4, <4>1
      <4>4. \A i, j \in DOMAIN queue' : queue'[i] = queue'[j] => i = j
        BY <3>3, <3>4
      <4> QED BY <4>2, <4>3, <4>4
    <3>6. IrpPlace'
      BY <1>0, <1>t, <3>1, <3>4, <2>2 DEF CtlInsert
    <3> QED BY <3>5, <3>6
  <2>3. CASE CtlSignal
    BY <1>0, <2>3 DEF CtlSignal
  <2>4. CASE CtlReap
    BY <1>0, <1>t, <2>4 DEF CtlReap
  <2>5. CASE UNCHANGED <<irps, caller, event, worker>> /\ ctl \in Quiet /\ ctl' \in Quiet
    BY <1>0, <2>5
  <2> QED BY <1>6, <2>1, <2>2, <2>3, <2>4, <2>5, ControlFrame
<1>7. CASE UNCHANGED vars
  BY <1>0, <1>7 DEF vars
<1> QED BY <1>1, <1>2, <1>3, <1>4, <1>5, <1>6, <1>7 DEF Next

\* No IRP is queued twice, or both queued and served, or completed twice
\* (BlkMovReadWrite and BlkMovDeviceControl return as soon as they queue).
THEOREM OnePlace == Spec => []IrpAccounting
<1>1. Init => IrpInv
  BY TypeInit, IrpInit DEF IrpInv
<1>2. IrpInv => IrpAccounting
  BY DEF IrpInv
<1> QED BY <1>1, <1>2, IrpNext, PTL DEF Spec

-----------------------------------------------------------------------------
(* No wake-up is lost.                                                     *)

LEMMA WakeNext == TypeOK /\ WakeupNotLost /\ [Next]_vars => WakeupNotLost'
<1> SUFFICES ASSUME TypeOK, WakeupNotLost, [Next]_vars PROVE WakeupNotLost'
  OBVIOUS
<1>t. caller \in [Irps -> {"idle", "check", "deref", "reloc", "insert", "signal", "wait"}]
  BY DEF TypeOK
<1> USE DEF WakeupNotLost, mover, setup, reloc, irps, worker, control
<1>1. ASSUME NEW r \in Irps, Submit(r) \/ LowerComplete(r) \/ Reap(r) PROVE WakeupNotLost'
  BY <1>t, <1>1 DEF Submit, LowerComplete, Reap
<1>2. ASSUME NEW r \in Irps, Dispatch(r) PROVE WakeupNotLost'
  <2>1. CASE DispatchCheck(r) BY <1>t, <2>1 DEF DispatchCheck, Goto
  <2>2. CASE DispatchDeref(r) BY <1>t, <2>2 DEF DispatchDeref, Goto, Crash
  <2>3. CASE DispatchReLocate(r) BY <1>t, <2>3 DEF DispatchReLocate, Goto
  <2>4. CASE Insert(r) BY <1>t, <2>4 DEF Insert
  <2>5. CASE Signal(r) BY <2>5 DEF Signal
  <2>6. CASE LayoutDeref(r) BY <1>t, <2>6 DEF LayoutDeref, Goto, Crash
  <2> QED BY <1>2, <2>1, <2>2, <2>3, <2>4, <2>5, <2>6 DEF Dispatch
<1>3. ASSUME Thread PROVE WakeupNotLost'
  <2>1. CASE ThreadWait BY <2>1 DEF ThreadWait
  <2>2. CASE ThreadPop BY <2>2 DEF ThreadPop
  <2>3. ASSUME NEW st \in {"ok", "fail"}, Complete(st) PROVE WakeupNotLost'
    BY <2>3 DEF Complete
  <2>4. ASSUME NEW pc \in InUse \cup {"check"}, ThreadGoto(pc) PROVE WakeupNotLost'
    BY <2>4 DEF ThreadGoto, InUse
  <2>5. CASE Crash(Worker)
    BY <2>5 DEF Crash
  <2>6. CASE ThreadMovingGroup
    BY <2>5, <2>6 DEF ThreadMovingGroup
  <2> QED BY <1>3, <2>1, <2>2, <2>3, <2>4, <2>5, <2>6, ThreadFrame
<1>4. ASSUME Control PROVE WakeupNotLost'
  <2>1. CASE CtlSubmit \/ CtlInsert \/ CtlSignal \/ CtlReap
    BY <2>1 DEF CtlSubmit, CtlInsert, CtlSignal, CtlReap
  <2>2. CASE UNCHANGED <<irps, caller, event, worker>> /\ ctl \in Quiet /\ ctl' \in Quiet
    BY <2>2 DEF Quiet, Lifecycle, FilterSetUp
  <2> QED BY <1>4, <2>1, <2>2, ControlFrame
<1>5. CASE UNCHANGED vars
  BY <1>5 DEF vars
<1> QED BY <1>1, <1>2, <1>3, <1>4, <1>5 DEF Next

\* A worker that sleeps over a queued IRP is about to be woken: KeSetEvent
\* comes after ExInterlockedInsertTailList, and Thread drains the whole list.
THEOREM NoLostWakeup == Spec => []WakeupNotLost
<1>1. Init => WakeupNotLost
  BY DEF Init, WakeupNotLost
<1> QED BY <1>1, TypeCorrect, WakeNext, PTL DEF Spec

-----------------------------------------------------------------------------
(* Pool.                                                                   *)

LEMMA PoolNext == TypeOK /\ PoolInv /\ [Next]_vars => PoolInv'
<1> SUFFICES ASSUME TypeOK, PoolInv, [Next]_vars PROVE PoolInv'
  OBVIOUS
<1> USE DEF PoolInv, StalePoolOutOfReach, mover, setup, reloc, irps, worker, control
<1>1. CASE UNCHANGED <<mover, setup, ctl>>
  BY <1>1
<1>2. ASSUME NEW r \in Irps, Submit(r) \/ Dispatch(r) \/ LowerComplete(r) \/ Reap(r)
      PROVE  PoolInv'
  <2>1. UNCHANGED <<mover, setup, ctl>>
    BY <1>2 DEF Submit, Dispatch, DispatchCheck, DispatchDeref, LayoutDeref, DispatchReLocate, Insert, Signal,
                LowerComplete, Reap, Goto, Crash
  <2> QED BY <1>1, <2>1
<1>3. ASSUME Thread PROVE PoolInv'
  <2>1. UNCHANGED <<hasPtr, data, bInitSec, setup, ctl>>
    <3>1. CASE ThreadWait \/ ThreadPop BY <3>1 DEF ThreadWait, ThreadPop
    <3>2. CASE \E st \in {"ok", "fail"} : Complete(st) BY <3>2 DEF Complete
    <3>3. CASE \E pc \in InUse \cup {"check"} : ThreadGoto(pc) BY <3>3 DEF ThreadGoto
    <3>4. CASE Crash(Worker) BY <3>4 DEF Crash
    <3>5. CASE ThreadMovingGroup BY <3>4, <3>5 DEF ThreadMovingGroup
    <3> QED BY <1>3, <3>1, <3>2, <3>3, <3>4, <3>5, ThreadFrame
  <2> QED BY <2>1
<1>4. ASSUME Control PROVE PoolInv'
  <2>1. CASE Enable BY <2>1 DEF Enable
  <2>2. CASE EnableAlloc BY <2>2 DEF EnableAlloc
  <2>3. CASE EnableInit BY <2>3 DEF EnableInit
  <2>4. CASE SetParam \/ SetParamLast \/ SetParamProtect \/ SetParamBuf
    BY <2>4 DEF SetParam, SetParamLast, SetParamProtect, SetParamBuf
  <2>5. CASE SetParamAlloc BY <2>5 DEF SetParamAlloc
  <2>6. CASE SetFreeSpace \/ EnableWriteProtect BY <2>6 DEF SetFreeSpace, EnableWriteProtect
  <2>7. CASE FilterOn \/ FilterOnSec \/ FilterOn1st \/ FilterOnLast
    BY <2>7, BlkMoverAssumption DEF FilterOn, FilterOnSec, FilterOn1st, FilterOnLast, Crash
  <2>8. CASE FilterOff BY <2>8 DEF FilterOff, Crash
  <2>9. CASE FilterOffFree BY <2>9 DEF FilterOffFree, Crash
  <2>10. CASE RMInit \/ RMReLocate BY <2>10 DEF RMInit, RMReLocate
  <2>11. CASE Disable \/ DisableProtect BY <2>11 DEF Disable, DisableProtect, Crash
  <2>12. CASE DisableFree BY <2>12 DEF DisableFree, DisableStep
  <2>13. CASE DisableBufs BY <2>13 DEF DisableBufs, DisableStep
  <2>14. CASE DelFreeSpaceList BY <2>14 DEF DelFreeSpaceList, DisableStep
  <2>15. CASE DelFreeSpaceListHead BY <2>15 DEF DelFreeSpaceListHead, DisableStep
  <2>16. CASE DisableNull BY <2>16 DEF DisableNull, DisableStep
  <2>17. CASE DisableBufNull BY <2>17 DEF DisableBufNull, DisableStep
  <2>18. CASE PostScript BY <2>18 DEF PostScript
  <2>19. CASE PostScriptNull BY <2>19 DEF PostScriptNull
  <2>20. CASE CtlSubmit \/ CtlInsert \/ CtlSignal \/ CtlReap
    BY <2>20 DEF CtlSubmit, CtlInsert, CtlSignal, CtlReap
  <2> QED BY <1>4, <2>1, <2>2, <2>3, <2>4, <2>5, <2>6, <2>7, <2>8, <2>9, <2>10, <2>11, <2>12,
             <2>13, <2>14, <2>15, <2>16, <2>17, <2>18, <2>19, <2>20 DEF Control
<1>5. CASE UNCHANGED vars
  BY <1>1, <1>5 DEF vars
<1> QED BY <1>2, <1>3, <1>4, <1>5 DEF Next

\* Pool that EnableOrDisable, PostScript, DelFreeSpaceList or the filter's IOCTL
\* has freed is out of reach once the call is over: the pointer is NULL again, or
\* it is g_pCompInitBuf, which is not, and the flag in front of it is off.
THEOREM FreedOutOfReach == Spec => []StalePoolOutOfReach
<1>1. Init => PoolInv
  BY DEF Init, PoolInv, StalePoolOutOfReach
<1>2. PoolInv => StalePoolOutOfReach
  BY DEF PoolInv
<1> QED BY <1>1, <1>2, TypeCorrect, PoolNext, PTL DEF Spec

-----------------------------------------------------------------------------
(* Only a race with a lifecycle call stops the system.                     *)

\* Whoever holds a tested pointer is overtaken.
LEMMA OvertakeAll ==
  ASSUME Overtake, UNCHANGED <<caller, tpc, crash>>, crash = NoIrp
  PROVE  TestedInv' /\ CrashNeedsLifecycleRace'
<1>1. CrashNeedsLifecycleRace'
  BY DEF CrashNeedsLifecycleRace
<1>2. /\ \A r \in Irps : caller'[r] = "deref" => r \in raced'
      /\ tpc' \in InUse => Worker \in raced'
  BY DEF Overtake, Overtaken
<1> QED BY <1>1, <1>2 DEF TestedInv, InUse

LEMMA CrashNext == IrpInv /\ PoolInv /\ CrashInv /\ [Next]_vars => CrashInv'
<1> SUFFICES ASSUME IrpInv, PoolInv, SetUpInv, TestedInv, CrashNeedsLifecycleRace,
                    AllocMayFail = FALSE, [Next]_vars
             PROVE  SetUpInv' /\ TestedInv' /\ CrashNeedsLifecycleRace'
  BY BlkMoverAssumption DEF CrashInv
<1>t. TypeOK
  BY DEF IrpInv
<1>u. UNCHANGED vars => SetUpInv' /\ TestedInv' /\ CrashNeedsLifecycleRace'
  BY DEF vars, SetUpInv, TestedInv, CrashNeedsLifecycleRace, mover, setup, worker, control
<1> SUFFICES ASSUME Next PROVE SetUpInv' /\ TestedInv' /\ CrashNeedsLifecycleRace'
  BY <1>u
<1>n. crash = NoIrp
  BY DEF Next
<1>s. UNCHANGED <<mover, setup, control>> => SetUpInv'
  BY DEF SetUpInv, mover, setup, control
<1>c. UNCHANGED crash => CrashNeedsLifecycleRace'
  BY <1>n DEF CrashNeedsLifecycleRace
<1>1. ASSUME NEW r \in Irps, Submit(r) \/ LowerComplete(r) \/ Reap(r)
      PROVE  SetUpInv' /\ TestedInv' /\ CrashNeedsLifecycleRace'
  <2>1. /\ UNCHANGED <<mover, setup, control, crash, worker>>
        /\ \A p \in Irps : caller'[p] = "deref" => caller[p] = "deref" /\ (p \in raced => p \in raced')
        /\ Worker \in raced => Worker \in raced'
    BY <1>t, <1>1, BlkMoverAssumption DEF Submit, LowerComplete, Reap, TypeOK
  <2> QED BY <1>s, <1>c, <2>1 DEF TestedInv, worker, control, mover, setup
<1>2. ASSUME NEW r \in Irps, Dispatch(r)
      PROVE  SetUpInv' /\ TestedInv' /\ CrashNeedsLifecycleRace'
  <2>1. UNCHANGED <<mover, setup, control, worker, raced>>
    BY <1>2 DEF Dispatch, DispatchCheck, DispatchDeref, LayoutDeref, DispatchReLocate, Insert, Signal, Goto,
                Crash
  <2>2. TestedInv'
    <3>1. \A p \in Irps : caller'[p] = "deref" => caller[p] = "deref" \/ hasPtr
      BY <1>t, <1>2 DEF Dispatch, DispatchCheck, DispatchDeref, LayoutDeref, DispatchReLocate, Insert, Signal,
                        Goto, Crash, TypeOK
    <3> QED BY <2>1, <3>1 DEF TestedInv, mover, setup, control, worker
  <2>3. CrashNeedsLifecycleRace'
    <3>1. CASE UNCHANGED crash BY <1>c, <3>1
    <3>2. CASE ~UNCHANGED crash
      <4>1. crash' = r /\ caller[r] = "deref" /\ ~hasPtr
        BY <1>2, <3>2 DEF Dispatch, DispatchCheck, DispatchDeref, LayoutDeref, DispatchReLocate, Insert,
                          Signal, Goto, Crash
      <4>2. r \in raced \/ ctl \in Lifecycle
        BY <4>1 DEF TestedInv
      <4> QED BY <2>1, <4>1, <4>2, BlkMoverAssumption DEF CrashNeedsLifecycleRace, control
    <3> QED BY <3>1, <3>2
  <2> QED BY <1>s, <2>1, <2>2, <2>3
<1>3. ASSUME Thread PROVE SetUpInv' /\ TestedInv' /\ CrashNeedsLifecycleRace'
  <2> DEFINE Safe == ctl \in Lifecycle \/ Worker \in raced
  <2>a. ~Safe /\ tpc \in InUse => hasPtr /\ data = "live" /\ ~listFreed
    BY DEF TestedInv, PoolInv, StalePoolOutOfReach, Lifecycle
  <2>b. ~Safe /\ tpc \in {"space", "protect", "group"} => groupBuf = "live"
    BY DEF TestedInv
  <2>c. ~Safe /\ tpc = "cmp" => compBuf = "live"
    BY DEF TestedInv
  <2>d. tpc = "ioctl" => hasPtr /\ on = "ready" /\ ctl \notin Lifecycle
    <3> SUFFICES ASSUME tpc = "ioctl" PROVE ctl \in {"insert", "signal", "await"}
      BY DEF SetUpInv, Lifecycle
    <3>1. cur \in All /\ irp[cur] = "exec" /\ ~Mapped(cur)
      BY <1>t DEF IrpInv, IrpPlace, IrpAccounting, Serving, TypeOK
    <3>2. cur = CtlIrp
      BY <3>1 DEF IrpInv, IrpPlace, All, Mapped
    <3> QED BY <1>t, <3>1, <3>2 DEF IrpInv, IrpPlace, TypeOK
  <2>1. ASSUME NEW pc \in InUse \cup {"check"}, ThreadGoto(pc),
               ~Safe /\ pc \in InUse => hasPtr,
               ~Safe /\ pc \in {"space", "protect", "group"} => groupBuf = "live",
               ~Safe /\ pc = "cmp" => compBuf = "live"
        PROVE  SetUpInv' /\ TestedInv' /\ CrashNeedsLifecycleRace'
    <3>1. UNCHANGED <<mover, setup, control, caller, raced, crash>> /\ tpc' = pc
      BY <2>1 DEF ThreadGoto
    <3> QED BY <1>s, <1>c, <2>1, <3>1 DEF TestedInv, mover, setup, control
  <2>2. ASSUME NEW st \in {"ok", "fail"}, Complete(st)
        PROVE  SetUpInv' /\ TestedInv' /\ CrashNeedsLifecycleRace'
    <3>1. UNCHANGED <<mover, setup, control, caller, raced, crash>> /\ tpc' = "drain"
      BY <2>2 DEF Complete
    <3> QED BY <1>s, <1>c, <3>1 DEF TestedInv, InUse, mover, setup, control
  <2>3. ASSUME Crash(Worker), Safe PROVE SetUpInv' /\ TestedInv' /\ CrashNeedsLifecycleRace'
    <3>1. UNCHANGED <<mover, setup, control, worker, caller, raced>> /\ crash' = Worker
      BY <2>3 DEF Crash
    <3> QED BY <1>s, <2>3, <3>1, BlkMoverAssumption
            DEF TestedInv, CrashNeedsLifecycleRace, mover, setup, control, worker
  <2>4. CASE ThreadWait
    <3>1. UNCHANGED <<mover, setup, control, caller, raced, crash>> /\ tpc' \in {"exit", "drain"}
      BY <2>4 DEF ThreadWait
    <3> QED BY <1>s, <1>c, <3>1 DEF TestedInv, InUse, mover, setup, control
  <2>5. CASE ThreadPop
    <3>1. /\ UNCHANGED <<mover, setup, control, caller, crash>>
          /\ tpc' \in {"wait", "reloc", "ioctl"} /\ raced' = raced \ {Worker}
      BY <2>5 DEF ThreadPop
    <3> QED BY <1>s, <1>c, <3>1, BlkMoverAssumption DEF TestedInv, InUse, mover, setup, control
  <2>6. CASE ThreadReLocate
    BY <2>1, <2>2, <2>6 DEF ThreadReLocate, Transfer, InUse
  <2>7. CASE ThreadCheck
    BY <2>1, <2>2, <2>7 DEF ThreadCheck, InUse
  <2>8. CASE ThreadDeref
    <3>1. CASE ~hasPtr
      BY <2>3, <2>8, <2>a, <3>1 DEF ThreadDeref, InUse
    <3>2. ASSUME hasPtr, NEW working \in Reads(bWorking), NEW initSec \in Reads(bInitSec),
                 ThreadGoto(IF working THEN "space"
                            ELSE IF initSec /\ req[cur].op = "WRITE" THEN "cmp" ELSE "plain")
          PROVE  SetUpInv' /\ TestedInv' /\ CrashNeedsLifecycleRace'
      <4>1. ~Safe => data = "live" /\ working = bWorking /\ initSec = bInitSec
        BY <2>8, <2>a, <3>2 DEF Reads, ThreadDeref, InUse
      <4>2. ~Safe /\ working => groupBuf = "live"
        BY <1>t, <4>1 DEF SetUpInv, TypeOK
      <4>3. ~Safe /\ initSec => compBuf = "live"
        BY <1>t, <3>2, <4>1 DEF PoolInv, StalePoolOutOfReach, TypeOK
      <4>4. CASE working
        BY <2>1, <3>2, <4>2, <4>4 DEF InUse
      <4>5. CASE ~working /\ initSec /\ req[cur].op = "WRITE"
        BY <2>1, <3>2, <4>3, <4>5 DEF InUse
      <4>6. CASE ~working /\ ~(initSec /\ req[cur].op = "WRITE")
        BY <2>1, <3>2, <4>6 DEF InUse
      <4> QED BY <4>4, <4>5, <4>6
    <3> QED BY <2>8, <3>1, <3>2 DEF ThreadDeref
  <2>9. CASE ThreadSpace
    BY <2>1, <2>2, <2>3, <2>9, <2>a, <2>b DEF ThreadSpace, InUse
  <2>10. CASE ThreadPlain
    <3>1. ~Safe /\ bEnableProtect => groupBuf = "live"
      BY DEF SetUpInv
    <3> QED BY <2>1, <2>2, <2>3, <2>10, <2>a, <3>1 DEF ThreadPlain, Transfer, InUse
  <2>11. CASE ThreadProtect
    BY <2>1, <2>2, <2>3, <2>11, <2>a, <2>b DEF ThreadProtect, Transfer, InUse
  <2>12. CASE ThreadGroup
    BY <2>2, <2>3, <2>12, <2>a, <2>b DEF ThreadGroup, Transfer, InUse
  <2>13. CASE ThreadCompare
    BY <2>2, <2>3, <2>13, <2>c DEF ThreadCompare, Transfer, InUse
  <2>14. CASE ThreadIoctl
    <3>1. ASSUME ThreadMovingGroup PROVE SetUpInv' /\ TestedInv' /\ CrashNeedsLifecycleRace'
      <4>1. /\ UNCHANGED <<hasPtr, data, bInitSec, setup, control, caller, raced, crash>>
            /\ tpc' = "drain" /\ bWorking' = TRUE
        BY <2>14, <2>d, <3>1 DEF ThreadIoctl, ThreadMovingGroup
      <4>2. SetUpInv'
        BY <2>14, <2>d, <4>1 DEF SetUpInv, setup, control, ThreadIoctl, Disabling, SettingUp, FilterSetUp, Lifecycle
      <4> QED BY <1>c, <4>1, <4>2 DEF TestedInv, InUse, setup, control
    <3> QED BY <2>2, <2>14, <2>d, <3>1 DEF ThreadIoctl, Transfer
  <2> QED BY <1>3, <2>4, <2>5, <2>6, <2>7, <2>8, <2>9, <2>10, <2>11, <2>12, <2>13, <2>14
          DEF Thread
<1>4. ASSUME Control PROVE SetUpInv' /\ TestedInv' /\ CrashNeedsLifecycleRace'
  <2>o. Overtake /\ UNCHANGED <<caller, tpc, crash>> => TestedInv' /\ CrashNeedsLifecycleRace'
    BY <1>n, OvertakeAll
  <2> USE <1>t DEF SetUpInv, TypeOK, mover, setup, irps, worker, control, Lifecycle, Disabling,
             SettingUp, FilterSetUp
  <2>1. CASE Enable BY <2>1, <2>o DEF Enable
  <2>2. CASE EnableAlloc BY <2>2, <2>o DEF EnableAlloc
  <2>3. CASE EnableInit BY <2>3, <2>o DEF EnableInit
  <2>4. CASE SetParam \/ SetParamLast \/ SetParamProtect \/ SetParamBuf
    BY <2>4, <2>o DEF SetParam, SetParamLast, SetParamProtect, SetParamBuf
  <2>5. CASE SetParamAlloc BY <2>5, <2>o DEF SetParamAlloc
  <2>6. CASE SetFreeSpace BY <1>c, <2>6 DEF SetFreeSpace, TestedInv
  <2>7. CASE EnableWriteProtect BY <1>c, <2>7 DEF EnableWriteProtect, TestedInv
  <2>8. CASE FilterOn \/ FilterOnSec \/ FilterOn1st \/ FilterOnLast
    <3>1. ctl = "fo_sec" => hasPtr
      BY <2>8 DEF FilterOn, FilterOnSec, FilterOn1st, FilterOnLast
    <3> QED BY <1>c, <2>8, <3>1
            DEF FilterOn, FilterOnSec, FilterOn1st, FilterOnLast, TestedInv, InUse
  <2>9. CASE FilterOff BY <2>9, <2>o DEF FilterOff
  <2>10. CASE FilterOffFree
    <3>1. CASE Crash(CtlIrp)
      <4>1. ctl = "ff_free" /\ compBuf # "live"
        BY <1>n, <2>10, <3>1, BlkMoverAssumption DEF FilterOffFree, Crash
      <4> QED BY <3>1, <4>1 DEF Crash, TestedInv, CrashNeedsLifecycleRace
    <3>2. CASE ~Crash(CtlIrp)
      BY <2>10, <3>2, <2>o DEF FilterOffFree
    <3> QED BY <3>1, <3>2
  <2>11. CASE RMInit \/ RMReLocate BY <1>c, <2>11 DEF RMInit, RMReLocate, TestedInv
  <2>12. CASE Disable \/ DisableProtect BY <2>12, <2>o DEF Disable, DisableProtect
  <2>13. CASE DisableFree BY <2>13, <2>o DEF DisableFree, DisableStep
  <2>14. CASE DisableBufs BY <2>14, <2>o DEF DisableBufs, DisableStep
  <2>15. CASE DelFreeSpaceList BY <2>15, <2>o DEF DelFreeSpaceList, DisableStep
  <2>16. CASE DelFreeSpaceListHead BY <2>16, <2>o DEF DelFreeSpaceListHead, DisableStep
  <2>17. CASE DisableNull BY <2>17, <2>o DEF DisableNull, DisableStep
  <2>18. CASE DisableBufNull BY <2>18, <2>o DEF DisableBufNull, DisableStep
  <2>19. CASE PostScript BY <2>19, <2>o DEF PostScript
  <2>20. CASE PostScriptNull BY <2>20, <2>o DEF PostScriptNull
  <2>21. CASE CtlSubmit \/ CtlInsert \/ CtlSignal \/ CtlReap
    BY <1>c, <2>21 DEF CtlSubmit, CtlInsert, CtlSignal, CtlReap, TestedInv
  <2> QED BY <1>4, <2>1, <2>2, <2>3, <2>4, <2>5, <2>6, <2>7, <2>8, <2>9, <2>10, <2>11, <2>12,
             <2>13, <2>14, <2>15, <2>16, <2>17, <2>18, <2>19, <2>20, <2>21 DEF Control
<1> QED BY <1>1, <1>2, <1>3, <1>4 DEF Next

\* When allocations succeed, the unlocked tests of g_pMoverData suffice: what
\* stops the system is a lifecycle call between such a test and its use.
THEOREM CrashOnlyByRace == Spec => []CrashNeedsLifecycleRace
<1>1. Init => IrpInv /\ PoolInv /\ CrashInv
  BY TypeInit, IrpInit, BlkMoverAssumption
     DEF Init, IrpInv, PoolInv, StalePoolOutOfReach, CrashInv, SetUpInv, TestedInv,
         CrashNeedsLifecycleRace, Lifecycle, SettingUp, Disabling, FilterSetUp, InUse
<1>2. CrashInv => CrashNeedsLifecycleRace
  BY BlkMoverAssumption DEF CrashInv, CrashNeedsLifecycleRace
<1>3. IrpInv => TypeOK
  BY DEF IrpInv
<1> QED BY <1>1, <1>2, <1>3, IrpNext, PoolNext, CrashNext, PTL DEF Spec

-----------------------------------------------------------------------------
(* A block that is not cleared yet.                                        *)

\* The block is uninitialised only while EnableOrDisable is between its
\* allocation and RtlZeroMemory, and the range it emptied first is still empty.
UninitInv ==
  /\ ctl \in {"en_alloc", "en_init"} => orig = {}
  /\ data = "uninit" => ctl = "en_init"

LEMMA UninitNext == UninitInv /\ [Next]_vars => UninitInv'
<1> SUFFICES ASSUME UninitInv, [Next]_vars PROVE UninitInv'
  OBVIOUS
<1> USE DEF UninitInv, mover, setup, reloc, irps, worker, control
<1>1. ASSUME NEW r \in Irps, Submit(r) \/ Dispatch(r) \/ LowerComplete(r) \/ Reap(r)
      PROVE  UninitInv'
  BY <1>1 DEF Submit, Dispatch, DispatchCheck, DispatchDeref, LayoutDeref, DispatchReLocate, Insert, Signal,
              LowerComplete, Reap, Goto, Crash
<1>2. ASSUME Thread PROVE UninitInv'
  BY <1>2 DEF Thread, ThreadWait, ThreadPop, ThreadReLocate, ThreadCheck, ThreadDeref, ThreadSpace,
              ThreadPlain, ThreadProtect, ThreadGroup, ThreadCompare, ThreadIoctl,
              ThreadMovingGroup, Transfer, Complete, ThreadGoto, Crash
<1>3. ASSUME Control PROVE UninitInv'
  <2>1. CASE Enable \/ EnableAlloc \/ EnableInit \/ SetParam \/ SetParamLast
             \/ SetParamProtect \/ SetParamBuf \/ SetParamAlloc
    BY <2>1 DEF Enable, EnableAlloc, EnableInit, SetParam, SetParamLast, SetParamProtect,
                SetParamBuf, SetParamAlloc
  <2>2. CASE SetFreeSpace \/ EnableWriteProtect \/ RMInit \/ RMReLocate
    BY <2>2 DEF SetFreeSpace, EnableWriteProtect, RMInit, RMReLocate
  <2>3. CASE FilterOn \/ FilterOnSec \/ FilterOn1st \/ FilterOnLast \/ FilterOff \/ FilterOffFree
    BY <2>3 DEF FilterOn, FilterOnSec, FilterOn1st, FilterOnLast, FilterOff, FilterOffFree, Crash
  <2>4. CASE Disable \/ DisableProtect \/ PostScript \/ PostScriptNull
    BY <2>4 DEF Disable, DisableProtect, PostScript, PostScriptNull, Crash
  <2>5. CASE DisableFree \/ DisableBufs \/ DelFreeSpaceList \/ DelFreeSpaceListHead
             \/ DisableNull \/ DisableBufNull
    BY <2>5 DEF DisableStep, DisableFree, DisableBufs, DelFreeSpaceList, DelFreeSpaceListHead,
                DisableNull, DisableBufNull
  <2>6. CASE CtlSubmit \/ CtlInsert \/ CtlSignal \/ CtlReap
    BY <2>6 DEF CtlSubmit, CtlInsert, CtlSignal, CtlReap
  <2> QED BY <1>3, <2>1, <2>2, <2>3, <2>4, <2>5, <2>6 DEF Control
<1>4. CASE UNCHANGED vars
  BY <1>4 DEF vars
<1> QED BY <1>1, <1>2, <1>3, <1>4 DEF Next

LEMMA UninitStep ==
  ASSUME TypeOK, UninitInv, [Next]_vars, NEW r \in Irps, caller[r] = "deref", caller'[r] = "insert"
  PROVE  data # "uninit"
<1> SUFFICES ASSUME data = "uninit" PROVE FALSE
  OBVIOUS
<1>1. orig = {} /\ ctl = "en_init"
  BY DEF UninitInv
<1>2. caller \in [Irps -> {"idle", "check", "deref", "reloc", "insert", "signal", "wait"}]
  BY DEF TypeOK
<1>3. CASE UNCHANGED caller
  BY <1>3
<1>4. ASSUME NEW p \in Irps, Submit(p) \/ LowerComplete(p) \/ Reap(p) PROVE FALSE
  BY <1>2, <1>4 DEF Submit, LowerComplete, Reap
<1>5. ASSUME NEW p \in Irps, Dispatch(p) PROVE FALSE
  BY <1>1, <1>2, <1>5 DEF Dispatch, DispatchCheck, DispatchDeref, LayoutDeref, DispatchReLocate, Insert, Signal,
                          Goto, Crash
<1>6. ASSUME Thread PROVE UNCHANGED caller
  BY <1>6, ThreadFrame DEF ThreadWait, ThreadPop, Complete, ThreadGoto, Crash, ThreadMovingGroup
<1>7. ASSUME Control PROVE UNCHANGED caller
  BY <1>7, ControlFrame DEF CtlSubmit, CtlInsert, CtlSignal, CtlReap
<1> QED BY <1>3, <1>4, <1>5, <1>6, <1>7 DEF Next, vars

\* No dispatch routine queues a request because of what it read in a block
\* that EnableOrDisable has allocated and not cleared.
THEOREM UninitHarmless == Spec => UninitNeverQueues
<1>1. Init => UninitInv
  BY DEF Init, UninitInv
<1>2. TypeOK /\ UninitInv /\ [Next]_vars
        => [\A r \in Irps : caller[r] = "deref" /\ caller'[r] = "insert" => data # "uninit"]_vars
  BY UninitStep
<1> QED BY <1>1, <1>2, TypeCorrect, UninitNext, PTL DEF Spec, UninitNeverQueues

=============================================================================
