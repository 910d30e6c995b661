--------------------------- MODULE FileLoc_proofs ---------------------------
(* Theorems about FileLoc, for any number of programs and any files.       *)
EXTENDS FileLoc, TLAPS

-----------------------------------------------------------------------------
(* The IRPs.                                                               *)

Ops    == {"OPEN", "COPY", "CLOSE", "WRITE"}
Places == Waiting \cup {"off", "ready", "writing", "located"}
Marks0 == {"todo", "queued", "ok", "fail"}

Irps ==
  [op : {"OPEN", "CLOSE"}, who : Clients]
    \cup [op : {"COPY"}, who : Clients, count : {Cardinality(Marks(c)) : c \in Clients}]
    \cup [op : {"WRITE"}, who : Clients, run : UNION {DOMAIN Runs[c] : c \in Clients}, sign : Nat]

\* Where a program waits for an IRP.
Waits == [OPEN |-> "opening", COPY |-> "copying", CLOSE |-> "closing", WRITE |-> "writing"]

\* The thread's steps for it.
Steps(op) == IF op = "OPEN" THEN {"OPEN", "alloc", "base"} ELSE {op}

\* The program that sent IRP i still waits for it, when programs are at p and
\* their writes as in w.
SentAt(i, p, w) ==
  /\ i.op \in Ops /\ i.who \in Clients /\ p[i.who] = Waits[i.op]
  /\ i.op = "WRITE" => i.run \in DOMAIN Runs[i.who] /\ w[i.who][i.run] = "queued"
Sent(i) == SentAt(i, cpc, run)

\* IRPs that a program does not send twice.
Same(i, j) == i.who = j.who /\ i.op = j.op /\ (i.op = "WRITE" => i.run = j.run)

TypeInv ==
  /\ cpc \in [Clients -> Places]
  /\ dwLockSign \in [Clients -> Nat]
  /\ DOMAIN run = Clients /\ \A c \in Clients : run[c] \in [DOMAIN Runs[c] -> Marks0]
  /\ alone \in [Clients -> BOOLEAN]
  /\ noBuffer \in BOOLEAN /\ bInited \in BOOLEAN

\* Every IRP on the list or with the thread has a program waiting for it, and
\* no two of them are the same.
QueueInv ==
  /\ queue \in Seq(Irps)
  /\ \A n \in DOMAIN queue : Sent(queue[n])
  /\ \A m, n \in DOMAIN queue : Same(queue[m], queue[n]) => m = n
  /\ tpc # "idle" => /\ Sent(cur) /\ tpc \in Steps(cur.op)
                     /\ \A n \in DOMAIN queue : ~Same(queue[n], cur)

\* A program that is alone has the only program that is there, and from the
\* moment its buffer is opened the device has one.
AloneInv ==
  /\ buf = "freed" => tpc = "alloc"
  /\ \A c \in Clients : alone[c] => \A d \in Clients : d # c => cpc[d] = "off"
  /\ \A c \in Clients : (alone[c] /\ ~noBuffer /\ cpc[c] \notin {"off", "opening"}) =>
       /\ buf = "live" /\ num = Num /\ bInited
       /\ cpc[c] \notin {"clearing", "cleared"}
  /\ (tpc \in {"alloc", "base"} /\ alone[cur.who] /\ ~noBuffer) => num = Num
  /\ (tpc = "base" /\ alone[cur.who] /\ ~noBuffer) => buf = "live"

FileInv == TypeInv /\ QueueInv /\ AloneInv /\ CrashNeedsSharing

-----------------------------------------------------------------------------
(* The list.                                                               *)

LEMMA AppendItems ==
  ASSUME NEW q \in Seq(Irps), NEW i \in Irps
  PROVE  /\ Append(q, i) \in Seq(Irps)
         /\ \A n \in DOMAIN Append(q, i) :
              (n \in DOMAIN q /\ Append(q, i)[n] = q[n]) \/ (n = Len(q) + 1 /\ Append(q, i)[n] = i)
<1>1. Append(q, i) \in Seq(Irps)
  OBVIOUS
<1>2. \A n \in DOMAIN Append(q, i) :
        (n \in DOMAIN q /\ Append(q, i)[n] = q[n]) \/ (n = Len(q) + 1 /\ Append(q, i)[n] = i)
  OBVIOUS
<1> QED BY <1>1, <1>2

LEMMA TailItems ==
  ASSUME NEW q \in Seq(Irps), q # <<>>
  PROVE  /\ Tail(q) \in Seq(Irps) /\ Head(q) = q[1] /\ 1 \in DOMAIN q
         /\ \A n \in DOMAIN Tail(q) : n \in Nat /\ n + 1 \in DOMAIN q /\ Tail(q)[n] = q[n + 1] /\ n + 1 # 1
<1>1. Tail(q) \in Seq(Irps) /\ Head(q) = q[1] /\ 1 \in DOMAIN q
  OBVIOUS
<1>2. \A n \in DOMAIN Tail(q) : n \in Nat /\ n + 1 \in DOMAIN q /\ Tail(q)[n] = q[n + 1] /\ n + 1 # 1
  OBVIOUS
<1> QED BY <1>1, <1>2

\* A program that does not wait has nothing on the list or with the thread.
LEMMA NothingSent ==
  ASSUME QueueInv, NEW c \in Clients,
         \/ cpc[c] \in {"off", "ready", "located", "clearing", "cleared"}
         \/ cpc[c] = "writing" /\ \A r \in DOMAIN Runs[c] : run[c][r] # "queued"
  PROVE  /\ \A n \in DOMAIN queue : queue[n].who # c
         /\ tpc # "idle" => cur.who # c
<1>1. ASSUME NEW i, Sent(i) PROVE i.who # c
  BY <1>1 DEF Sent, SentAt, Ops, Waits
<1> QED BY <1>1 DEF QueueInv

\* An IRP stays sent when its program does nothing.
LEMMA StaysSent ==
  ASSUME NEW i, Sent(i), cpc'[i.who] = cpc[i.who],
         i.op = "WRITE" => run'[i.who][i.run] = run[i.who][i.run]
  PROVE  SentAt(i, cpc', run')
BY DEF Sent, SentAt

\* A program sends an IRP, or nothing, while the thread does nothing.
LEMMA QueueSend ==
  ASSUME QueueInv, NEW c \in Clients, UNCHANGED <<tpc, cur>>,
         \A d \in Clients : d # c => cpc'[d] = cpc[d] /\ run'[d] = run[d],
         \A n \in DOMAIN queue : queue[n].who # c,
         tpc # "idle" => cur.who # c,
         \/ UNCHANGED queue
         \/ \E i \in Irps : i.who = c /\ SentAt(i, cpc', run') /\ queue' = Append(queue, i)
  PROVE  QueueInv'
<1>1. \A n \in DOMAIN queue : SentAt(queue[n], cpc', run')
  <2>1. ASSUME NEW n \in DOMAIN queue PROVE SentAt(queue[n], cpc', run')
    <3>1. Sent(queue[n]) /\ queue[n].who # c
      BY DEF QueueInv
    <3> QED BY <3>1, StaysSent DEF Sent, SentAt
  <2> QED BY <2>1
<1>2. tpc # "idle" => SentAt(cur, cpc', run')
  <2>1. ASSUME tpc # "idle" PROVE SentAt(cur, cpc', run')
    <3>1. Sent(cur) /\ cur.who # c
      BY <2>1 DEF QueueInv
    <3> QED BY <3>1, StaysSent DEF Sent, SentAt
  <2> QED BY <2>1
<1>3. CASE UNCHANGED queue
  BY <1>1, <1>2, <1>3 DEF QueueInv, Sent, SentAt
<1>4. ASSUME NEW i \in Irps, i.who = c, SentAt(i, cpc', run'), queue' = Append(queue, i) PROVE QueueInv'
  <2>1. queue \in Seq(Irps)
    BY DEF QueueInv
  <2>2. /\ queue' \in Seq(Irps)
        /\ \A n \in DOMAIN queue' : (n \in DOMAIN queue /\ queue'[n] = queue[n])
                                      \/ (n = Len(queue) + 1 /\ queue'[n] = i)
    BY <1>4, <2>1, AppendItems
  <2>3. \A n \in DOMAIN queue' : SentAt(queue'[n], cpc', run')
    BY <1>1, <1>4, <2>2 DEF Sent, SentAt
  <2>4. \A n \in DOMAIN queue : ~Same(queue[n], i) /\ ~Same(i, queue[n])
    BY <1>4 DEF Same
  <2>5. \A m, n \in DOMAIN queue' : Same(queue'[m], queue'[n]) => m = n
    BY <2>2, <2>4 DEF QueueInv
  <2>6. tpc # "idle" => \A n \in DOMAIN queue' : ~Same(queue'[n], cur)
    BY <1>4, <2>2 DEF QueueInv, Same
  <2> QED BY <1>2, <2>2, <2>3, <2>5, <2>6 DEF QueueInv, Sent, SentAt, Same
<1> QED BY <1>3, <1>4

\* The thread answers the IRP it serves.
LEMMA QueueServe ==
  ASSUME TypeInv, QueueInv, tpc # "idle", tpc' = "idle", UNCHANGED queue,
         \A d \in Clients : d # cur.who => cpc'[d] = cpc[d] /\ run'[d] = run[d],
         cur.op = "WRITE" => /\ cpc' = cpc
                             /\ \A r \in DOMAIN Runs[cur.who] : r # cur.run => run'[cur.who][r] = run[cur.who][r]
  PROVE  QueueInv'
<1>1. ASSUME NEW n \in DOMAIN queue PROVE SentAt(queue[n], cpc', run')
  <2>1. Sent(queue[n]) /\ Sent(cur) /\ ~Same(queue[n], cur)
    BY DEF QueueInv
  <2>2. CASE queue[n].who # cur.who
    BY <2>1, <2>2, StaysSent DEF Sent, SentAt
  <2>3. CASE queue[n].who = cur.who
    <3>1. queue[n].op = cur.op
      BY <2>1, <2>3 DEF Sent, SentAt, Ops, Waits
    <3>2. cur.op = "WRITE" /\ queue[n].run # cur.run
      BY <2>1, <2>3, <3>1 DEF Same
    <3> QED BY <2>1, <2>3, <3>1, <3>2, StaysSent DEF Sent, SentAt
  <2> QED BY <2>2, <2>3
<1> QED BY <1>1 DEF QueueInv, Sent, SentAt, Same

-----------------------------------------------------------------------------
(* Being alone.                                                            *)

\* The program whose IRP the thread serves is the one that is alone.
LEMMA ServesAlone ==
  ASSUME QueueInv, AloneInv, tpc # "idle", NEW c \in Clients, alone[c]
  PROVE  c = cur.who
<1>1. cur.who \in Clients /\ cpc[cur.who] # "off"
  BY DEF QueueInv, Sent, SentAt, Ops, Waits
<1> QED BY <1>1 DEF AloneInv

\* Served without the buffer, an IRP other than the first meant company.
LEMMA BufferThere ==
  ASSUME QueueInv, AloneInv, tpc \in {"WRITE", "CLOSE", "COPY"}, buf # "live"
  PROVE  noBuffer \/ \A c \in Clients : ~alone[c]
<1> SUFFICES ASSUME ~noBuffer, NEW c \in Clients, alone[c] PROVE FALSE
  OBVIOUS
<1>1. c = cur.who
  BY ServesAlone
<1>2. cpc[c] \notin {"off", "opening"}
  BY <1>1 DEF QueueInv, Sent, SentAt, Ops, Waits, Steps
<1> QED BY <1>2 DEF AloneInv

LEMMA InvInit == Init => FileInv
<1> SUFFICES ASSUME Init PROVE FileInv
  OBVIOUS
<1>1. queue \in Seq(Irps) /\ DOMAIN queue = {}
  BY DEF Init
<1>2. TypeInv
  <2>1. \A c \in Clients : run[c] \in [DOMAIN Runs[c] -> Marks0]
    BY DEF Init, Marks0
  <2> QED BY <2>1 DEF Init, TypeInv, Places
<1>3. QueueInv
  BY <1>1 DEF Init, QueueInv
<1>4. AloneInv
  BY DEF Init, AloneInv
<1> QED BY <1>2, <1>3, <1>4 DEF Init, FileInv, CrashNeedsSharing

-----------------------------------------------------------------------------
(* The programs.                                                           *)

LEMMA InvInitFileLocater ==
  ASSUME FileInv, ~crash, NEW c \in Clients, Init_FileLocater(c)
  PROVE  FileInv'
<1> DEFINE i == [op |-> "OPEN", who |-> c]
<1>1. /\ cpc[c] = "off" /\ cpc' = [cpc EXCEPT ![c] = "opening"] /\ queue' = Append(queue, i)
      /\ alone' = [d \in Clients |-> d = c /\ \A e \in Clients \ {c} : cpc[e] = "off"]
      /\ dwLockSign' = [dwLockSign EXCEPT ![c] = 1]
      /\ UNCHANGED <<device, tpc, cur, run, crash, noBuffer>>
  BY DEF Init_FileLocater, At, Enqueue
<1>2. cpc'[c] = "opening" /\ \A d \in Clients : d # c => cpc'[d] = cpc[d]
  BY <1>1 DEF FileInv, TypeInv
<1>3. TypeInv'
  BY <1>1 DEF FileInv, TypeInv, Places, Waiting, device
<1>4. i \in Irps /\ i.who = c /\ SentAt(i, cpc', run')
  BY <1>2 DEF Irps, Sent, SentAt, Ops, Waits
<1>5. \A n \in DOMAIN queue : queue[n].who # c
  BY <1>1, NothingSent DEF FileInv
<1>6. tpc # "idle" => cur.who # c
  BY <1>1, NothingSent DEF FileInv
<1> HIDE DEF i
<1>7. QueueInv'
  BY <1>1, <1>2, <1>4, <1>5, <1>6, QueueSend DEF FileInv
<1>8. AloneInv'
  <2>1. \A d \in Clients : alone'[d] => d = c /\ \A e \in Clients : e # c => cpc[e] = "off"
    BY <1>1
  <2>2. tpc # "idle" => cur.who \in Clients /\ ~alone'[cur.who]
    BY <1>6, <2>1 DEF FileInv, QueueInv, Sent, SentAt
  <2>3. UNCHANGED <<buf, num, bInited, tpc, cur, noBuffer>>
    BY <1>1 DEF device
  <2>4. buf' = "freed" => tpc' = "alloc"
    BY <2>3 DEF FileInv, AloneInv
  <2>5. \A d \in Clients : alone'[d] => \A e \in Clients : e # d => cpc'[e] = "off"
    BY <1>2, <2>1
  <2>6. \A d \in Clients : ~(alone'[d] /\ cpc'[d] \notin {"off", "opening"})
    BY <1>2, <2>1
  <2> QED BY <2>2, <2>3, <2>4, <2>5, <2>6 DEF AloneInv
<1> QED BY <1>1, <1>3, <1>7, <1>8 DEF FileInv, CrashNeedsSharing

LEMMA InvSetSign ==
  ASSUME FileInv, ~crash, NEW c \in Clients, SetSign(c)
  PROVE  FileInv'
<1>1. /\ cpc[c] \in {"ready", "located"} /\ cpc' = [cpc EXCEPT ![c] = "writing"]
      /\ run' = [run EXCEPT ![c] = [r \in DOMAIN Runs[c] |-> "todo"]]
      /\ dwLockSign' = [dwLockSign EXCEPT ![c] = @ + 1]
      /\ UNCHANGED <<bInited, buf, num, queue, tpc, cur, alone, crash, noBuffer>>
  BY DEF SetSign, At, thread
<1>2. cpc'[c] = "writing" /\ \A d \in Clients : d # c => cpc'[d] = cpc[d] /\ run'[d] = run[d]
  BY <1>1 DEF FileInv, TypeInv
<1>3. TypeInv'
  <2>1. \A d \in Clients : run'[d] \in [DOMAIN Runs[d] -> Marks0]
    BY <1>1 DEF FileInv, TypeInv, Marks0
  <2> QED BY <1>1, <2>1 DEF FileInv, TypeInv, Places
<1>4. \A n \in DOMAIN queue : queue[n].who # c
  BY <1>1, NothingSent DEF FileInv
<1>5. tpc # "idle" => cur.who # c
  BY <1>1, NothingSent DEF FileInv
<1>6. QueueInv'
  BY <1>1, <1>2, <1>4, <1>5, QueueSend DEF FileInv
<1>7. AloneInv'
  BY <1>1, <1>2 DEF FileInv, AloneInv
<1> QED BY <1>1, <1>3, <1>6, <1>7 DEF FileInv, CrashNeedsSharing

\* A write that is queued is one that was not.
LEMMA QueueWrite ==
  ASSUME TypeInv, QueueInv, NEW c \in Clients, NEW r \in DOMAIN Runs[c],
         cpc[c] = "writing", run[c][r] = "todo", UNCHANGED <<tpc, cur, cpc>>,
         \/ UNCHANGED queue /\ \E s \in Marks0 : run' = [run EXCEPT ![c][r] = s]
         \/ /\ queue' = Append(queue, [op |-> "WRITE", who |-> c, run |-> r, sign |-> dwLockSign[c]])
            /\ run' = [run EXCEPT ![c][r] = "queued"]
  PROVE  QueueInv'
<1> DEFINE i == [op |-> "WRITE", who |-> c, run |-> r, sign |-> dwLockSign[c]]
<1>1. \A d \in Clients : d # c => run'[d] = run[d]
  BY DEF TypeInv
<1>2. \A s \in DOMAIN Runs[c] : s # r => run'[c][s] = run[c][s]
  BY DEF TypeInv
<1>3. ASSUME NEW j, Sent(j) PROVE SentAt(j, cpc', run') /\ ~Same(j, i)
  <2>1. j.who = c /\ j.op = "WRITE" => j.run \in DOMAIN Runs[c] /\ j.run # r
    BY <1>3 DEF Sent, SentAt
  <2>2. j.who # c => run'[j.who] = run[j.who]
    BY <1>1, <1>3 DEF Sent, SentAt
  <2>3. j.op = "WRITE" => run'[j.who][j.run] = run[j.who][j.run]
    BY <1>2, <2>1, <2>2
  <2>4. SentAt(j, cpc', run')
    BY <1>3, <2>3, StaysSent
  <2> QED BY <2>1, <2>4 DEF Same
<1>4. \A n \in DOMAIN queue : SentAt(queue[n], cpc', run') /\ ~Same(queue[n], i)
  BY <1>3 DEF QueueInv
<1>5. tpc # "idle" => SentAt(cur, cpc', run') /\ ~Same(cur, i)
  BY <1>3 DEF QueueInv
<1>6. CASE UNCHANGED queue
  BY <1>4, <1>5, <1>6 DEF QueueInv, Sent, SentAt
<1>7. CASE queue' = Append(queue, i) /\ run' = [run EXCEPT ![c][r] = "queued"]
  <2>1. i \in Irps /\ i.op = "WRITE" /\ i.who = c /\ i.run = r
    BY DEF Irps, TypeInv
  <2>2. run'[c][r] = "queued"
    BY <1>7 DEF TypeInv
  <2>3. SentAt(i, cpc', run')
    BY <2>1, <2>2 DEF Sent, SentAt, Ops, Waits
  <2> HIDE DEF i
  <2>4. queue \in Seq(Irps)
    BY DEF QueueInv
  <2>5. /\ queue' \in Seq(Irps)
        /\ \A n \in DOMAIN queue' : (n \in DOMAIN queue /\ queue'[n] = queue[n])
                                      \/ (n = Len(queue) + 1 /\ queue'[n] = i)
    BY <1>7, <2>1, <2>4, AppendItems
  <2>6. \A n \in DOMAIN queue' : SentAt(queue'[n], cpc', run')
    BY <1>4, <2>3, <2>5 DEF Sent, SentAt
  <2>7. \A n \in DOMAIN queue : ~Same(i, queue[n])
    BY <1>4 DEF Same
  <2>8. \A m, n \in DOMAIN queue' : Same(queue'[m], queue'[n]) => m = n
    BY <1>4, <2>5, <2>7 DEF QueueInv
  <2>9. tpc # "idle" => \A n \in DOMAIN queue' : ~Same(queue'[n], cur)
    BY <1>5, <2>5 DEF QueueInv, Same
  <2> QED BY <1>5, <2>5, <2>6, <2>8, <2>9 DEF QueueInv, Sent, SentAt, Same
<1> QED BY <1>6, <1>7

LEMMA InvReadWrite ==
  ASSUME FileInv, ~crash, NEW c \in Clients, NEW r \in DOMAIN Runs[c], ReadWrite(c, r)
  PROVE  FileInv'
<1>1. /\ cpc[c] = "writing" /\ run[c][r] = "todo"
      /\ UNCHANGED <<device, tpc, cur, cpc, dwLockSign, crash, alone, noBuffer>>
      /\ \/ /\ queue' = Append(queue, [op |-> "WRITE", who |-> c, run |-> r, sign |-> dwLockSign[c]])
            /\ run' = [run EXCEPT ![c][r] = "queued"]
         \/ UNCHANGED queue /\ \E s \in {"ok", "fail"} : run' = [run EXCEPT ![c][r] = s]
  BY DEF ReadWrite, Enqueue
<1>2. \E s \in Marks0 : run' = [run EXCEPT ![c][r] = s]
  BY <1>1 DEF Marks0
<1>3. TypeInv'
  <2>1. DOMAIN run' = Clients /\ \A d \in Clients : run'[d] \in [DOMAIN Runs[d] -> Marks0]
    BY <1>2 DEF FileInv, TypeInv
  <2> QED BY <1>1, <2>1 DEF FileInv, TypeInv, device
<1>4. QueueInv'
  BY <1>1, <1>2, QueueWrite DEF FileInv
<1>5. AloneInv'
  BY <1>1 DEF FileInv, AloneInv, device
<1> QED BY <1>1, <1>3, <1>4, <1>5 DEF FileInv, CrashNeedsSharing

LEMMA InvCopyData ==
  ASSUME FileInv, ~crash, NEW c \in Clients, CopyData(c)
  PROVE  FileInv'
<1> DEFINE i == [op |-> "COPY", who |-> c, count |-> Cardinality(Marks(c))]
<1>1. /\ cpc[c] = "writing" /\ \A r \in DOMAIN Runs[c] : run[c][r] # "queued"
      /\ \/ cpc' = [cpc EXCEPT ![c] = "located"] /\ UNCHANGED queue
         \/ cpc' = [cpc EXCEPT ![c] = "copying"] /\ queue' = Append(queue, i)
      /\ UNCHANGED <<device, tpc, cur, dwLockSign, run, alone, crash, noBuffer>>
  BY DEF CopyData, At, Enqueue
<1>2. cpc'[c] \in {"copying", "located"} /\ \A d \in Clients : d # c => cpc'[d] = cpc[d]
  BY <1>1 DEF FileInv, TypeInv
<1>3. TypeInv'
  BY <1>1 DEF FileInv, TypeInv, Places, Waiting, device
<1>4. cpc'[c] = "copying" => i \in Irps /\ i.who = c /\ SentAt(i, cpc', run')
  BY DEF Irps, Sent, SentAt, Ops, Waits
<1>5. \A n \in DOMAIN queue : queue[n].who # c
  BY <1>1, NothingSent DEF FileInv
<1>6. tpc # "idle" => cur.who # c
  BY <1>1, NothingSent DEF FileInv
<1>7. UNCHANGED queue \/ (cpc'[c] = "copying" /\ queue' = Append(queue, i))
  BY <1>1 DEF FileInv, TypeInv
<1> HIDE DEF i
<1>8. QueueInv'
  BY <1>1, <1>2, <1>4, <1>5, <1>6, <1>7, QueueSend DEF FileInv
<1>9. AloneInv'
  BY <1>1, <1>2 DEF FileInv, AloneInv, device
<1> QED BY <1>1, <1>3, <1>8, <1>9 DEF FileInv, CrashNeedsSharing

LEMMA InvFree ==
  ASSUME FileInv, ~crash, NEW c \in Clients, Free_FileLocater(c)
  PROVE  FileInv'
<1> DEFINE i == [op |-> "CLOSE", who |-> c]
<1>1. /\ cpc[c] \in {"ready", "located"}
      /\ \/ /\ ~bInited \/ buf = "null" \/ num = 0
            /\ cpc' = [cpc EXCEPT ![c] = "clearing"] /\ UNCHANGED queue
         \/ cpc' = [cpc EXCEPT ![c] = "closing"] /\ queue' = Append(queue, i)
      /\ UNCHANGED <<device, tpc, cur, dwLockSign, run, alone, crash, noBuffer>>
  BY DEF Free_FileLocater, At, Enqueue
<1>2. cpc'[c] \in {"clearing", "closing"} /\ \A d \in Clients : d # c => cpc'[d] = cpc[d]
  BY <1>1 DEF FileInv, TypeInv
<1>3. TypeInv'
  BY <1>1 DEF FileInv, TypeInv, Places, Waiting, device
<1>4. cpc'[c] = "closing" => i \in Irps /\ i.who = c /\ SentAt(i, cpc', run')
  BY DEF Irps, Sent, SentAt, Ops, Waits
<1>5. \A n \in DOMAIN queue : queue[n].who # c
  BY <1>1, NothingSent DEF FileInv
<1>6. tpc # "idle" => cur.who # c
  BY <1>1, NothingSent DEF FileInv
<1>7. \/ UNCHANGED queue /\ (~bInited \/ buf = "null" \/ num = 0)
      \/ cpc'[c] = "closing" /\ queue' = Append(queue, i)
  BY <1>1 DEF FileInv, TypeInv
<1>8. (alone[c] /\ ~noBuffer) => buf = "live" /\ num = Num /\ bInited /\ num # 0
  BY <1>1, FileLocAssumption DEF FileInv, AloneInv
<1>9. (alone[c] /\ ~noBuffer) => cpc'[c] = "closing"
  BY <1>1, <1>8 DEF FileInv, TypeInv
<1> HIDE DEF i
<1>10. QueueInv'
  BY <1>1, <1>2, <1>4, <1>5, <1>6, <1>7, QueueSend DEF FileInv
<1>11. AloneInv'
  BY <1>1, <1>2, <1>8, <1>9 DEF FileInv, AloneInv, device
<1> QED BY <1>1, <1>3, <1>10, <1>11 DEF FileInv, CrashNeedsSharing

LEMMA InvClear ==
  ASSUME FileInv, ~crash, NEW c \in Clients, ClearBuffer(c) \/ ClearRest(c)
  PROVE  FileInv'
<1>1. /\ cpc[c] \in {"clearing", "cleared"}
      /\ \/ cpc' = [cpc EXCEPT ![c] = "cleared"]
         \/ cpc' = [cpc EXCEPT ![c] = "off"]
      /\ buf' \in {buf, "null"} /\ (bInited' = bInited \/ bInited' = FALSE)
      /\ UNCHANGED <<queue, tpc, cur, dwLockSign, run, alone, crash, noBuffer>>
  BY DEF ClearBuffer, ClearRest, At, thread
<1>2. cpc'[c] \in {"cleared", "off"} /\ \A d \in Clients : d # c => cpc'[d] = cpc[d]
  BY <1>1 DEF FileInv, TypeInv
<1>3. TypeInv'
  BY <1>1 DEF FileInv, TypeInv, Places, Waiting
<1>4. \A n \in DOMAIN queue : queue[n].who # c
  BY <1>1, NothingSent DEF FileInv
<1>5. tpc # "idle" => cur.who # c
  BY <1>1, NothingSent DEF FileInv
<1>6. QueueInv'
  BY <1>1, <1>2, <1>4, <1>5, QueueSend DEF FileInv
<1>7. noBuffer \/ \A d \in Clients : ~alone[d]
  <2>1. ASSUME ~noBuffer, NEW d \in Clients, alone[d] PROVE FALSE
    <3>1. d = c
      BY <1>1, <2>1 DEF FileInv, AloneInv
    <3> QED BY <1>1, <2>1, <3>1 DEF FileInv, AloneInv
  <2> QED BY <2>1
<1>8. AloneInv'
  <2>1. tpc # "idle" => cur.who \in Clients
    BY DEF FileInv, QueueInv, Sent, SentAt
  <2> QED BY <1>1, <1>2, <1>7, <2>1 DEF FileInv, AloneInv
<1> QED BY <1>1, <1>3, <1>6, <1>8 DEF FileInv, CrashNeedsSharing

-----------------------------------------------------------------------------
(* The thread.                                                             *)

LEMMA InvTake == FileInv /\ ~crash /\ Take => FileInv'
<1> SUFFICES ASSUME FileInv, ~crash, Take PROVE FileInv'
  OBVIOUS
<1>1. /\ tpc = "idle" /\ queue # <<>> /\ cur' = Head(queue) /\ queue' = Tail(queue)
      /\ tpc' = Head(queue).op
      /\ UNCHANGED <<bInited, buf, num, cpc, dwLockSign, run, alone, crash, noBuffer>>
  BY DEF Take, device, client
<1>2. queue \in Seq(Irps)
  BY DEF FileInv, QueueInv
<1>3. /\ queue' \in Seq(Irps) /\ cur' = queue[1] /\ 1 \in DOMAIN queue
      /\ \A n \in DOMAIN queue' : n \in Nat /\ n + 1 \in DOMAIN queue /\ queue'[n] = queue[n + 1] /\ n + 1 # 1
  BY <1>1, <1>2, TailItems
<1>4. TypeInv'
  BY <1>1 DEF FileInv, TypeInv
<1>5. \A n \in DOMAIN queue : SentAt(queue[n], cpc', run')
  BY <1>1 DEF FileInv, QueueInv, Sent, SentAt
<1>6. SentAt(cur', cpc', run') /\ tpc' \in Steps(cur'.op) /\ tpc' \in Ops
  BY <1>1, <1>3, <1>5 DEF Sent, SentAt, Steps
<1>7. \A n \in DOMAIN queue' : SentAt(queue'[n], cpc', run') /\ ~Same(queue'[n], cur')
  <2>1. \A m, n \in DOMAIN queue : Same(queue[m], queue[n]) => m = n
    BY DEF FileInv, QueueInv
  <2> QED BY <1>3, <1>5, <2>1 DEF Sent, SentAt
<1>8. \A m, n \in DOMAIN queue' : Same(queue'[m], queue'[n]) => m = n
  <2>1. \A m, n \in DOMAIN queue : Same(queue[m], queue[n]) => m = n
    BY DEF FileInv, QueueInv
  <2>2. ASSUME NEW m \in DOMAIN queue', NEW n \in DOMAIN queue', Same(queue'[m], queue'[n]) PROVE m = n
    <3>1. m + 1 = n + 1
      BY <1>3, <2>1, <2>2
    <3> QED BY <1>3, <3>1
  <2> QED BY <2>2
<1>9. QueueInv'
  BY <1>3, <1>6, <1>7, <1>8 DEF QueueInv, Sent, SentAt, Same
<1>10. AloneInv'
  BY <1>1, <1>6 DEF FileInv, AloneInv, Ops
<1> QED BY <1>1, <1>4, <1>9, <1>10 DEF FileInv, CrashNeedsSharing

LEMMA InvCrash ==
  ASSUME FileInv, Crash, noBuffer \/ \A c \in Clients : ~alone[c]
  PROVE  FileInv'
<1>1. UNCHANGED <<bInited, buf, num, queue, tpc, cur, cpc, dwLockSign, run, alone, noBuffer>>
  BY DEF Crash, device, thread, client
<1>2. TypeInv'
  BY <1>1 DEF FileInv, TypeInv
<1>3. QueueInv'
  BY <1>1 DEF FileInv, QueueInv, Sent, SentAt, Same
<1>4. AloneInv'
  BY <1>1 DEF FileInv, AloneInv
<1> QED BY <1>1, <1>2, <1>3, <1>4 DEF FileInv, CrashNeedsSharing

LEMMA InvServeUnmapped == FileInv /\ ServeUnmapped => FileInv'
<1> SUFFICES ASSUME FileInv, ServeUnmapped PROVE FileInv'
  OBVIOUS
<1>1. noBuffer' /\ noBuffer' \in BOOLEAN /\ UNCHANGED <<bInited, buf, num, queue, tpc, cur, cpc, dwLockSign, run, alone>>
  BY DEF ServeUnmapped, device, thread, client
<1>2. TypeInv'
  BY <1>1 DEF FileInv, TypeInv
<1>3. QueueInv'
  BY <1>1 DEF FileInv, QueueInv, Sent, SentAt, Same
<1>4. AloneInv'
  BY <1>1 DEF FileInv, AloneInv
<1> QED BY <1>1, <1>2, <1>3, <1>4 DEF FileInv, CrashNeedsSharing

LEMMA InvServeWrite == FileInv /\ ~crash /\ ServeWrite => FileInv'
<1> SUFFICES ASSUME FileInv, ~crash, ServeWrite PROVE FileInv'
  OBVIOUS
<1>1. CASE buf # "live" /\ Crash
  <2>1. noBuffer \/ \A c \in Clients : ~alone[c]
    BY <1>1, BufferThere DEF FileInv, ServeWrite
  <2> QED BY <1>1, <2>1, InvCrash
<1>2. ASSUME NEW s \in {"ok", "fail"}, run' = [run EXCEPT ![cur.who][cur.run] = s], Finish,
             UNCHANGED <<bInited, buf, num, queue, cpc, dwLockSign, crash, alone, noBuffer>>
      PROVE  FileInv'
  <2>1. tpc = "WRITE" /\ tpc' = "idle" /\ cur.op = "WRITE" /\ cur.who \in Clients /\ cur.run \in DOMAIN Runs[cur.who]
    BY <1>2 DEF ServeWrite, Finish, FileInv, QueueInv, Sent, SentAt, Steps, Ops
  <2>2. \A d \in Clients : d # cur.who => run'[d] = run[d]
    BY <1>2, <2>1 DEF FileInv, TypeInv
  <2>3. \A r \in DOMAIN Runs[cur.who] : r # cur.run => run'[cur.who][r] = run[cur.who][r]
    BY <1>2, <2>1 DEF FileInv, TypeInv
  <2>4. TypeInv'
    <3>1. DOMAIN run' = Clients /\ \A d \in Clients : run'[d] \in [DOMAIN Runs[d] -> Marks0]
      BY <1>2, <2>1 DEF FileInv, TypeInv, Marks0
    <3> QED BY <1>2, <3>1 DEF FileInv, TypeInv
  <2>5. QueueInv'
    BY <1>2, <2>1, <2>2, <2>3, QueueServe DEF FileInv
  <2>6. AloneInv'
    BY <1>2, <2>1 DEF FileInv, AloneInv
  <2> QED BY <1>2, <2>4, <2>5, <2>6 DEF FileInv, CrashNeedsSharing
<1>3. \/ buf # "live" /\ Crash
      \/ /\ Finish /\ \E s \in {"ok", "fail"} : run' = [run EXCEPT ![cur.who][cur.run] = s]
         /\ UNCHANGED <<bInited, buf, num, queue, cpc, dwLockSign, crash, alone, noBuffer>>
  BY DEF ServeWrite
<1> QED BY <1>1, <1>2, <1>3

LEMMA InvOpenFree == FileInv /\ ~crash /\ OpenFree => FileInv'
<1> SUFFICES ASSUME FileInv, ~crash, OpenFree PROVE FileInv'
  OBVIOUS
<1>1. tpc = "OPEN" /\ buf # "freed"
  BY DEF OpenFree, FileInv, AloneInv
<1>2. /\ buf' \in {"freed", buf} /\ num' = Num /\ tpc' = "alloc"
      /\ UNCHANGED <<bInited, queue, cur, cpc, dwLockSign, run, alone, crash, noBuffer>>
  BY <1>1 DEF OpenFree, client
<1>3. Sent(cur) /\ cur.op = "OPEN"
  BY <1>1 DEF FileInv, QueueInv, Sent, SentAt, Steps, Ops
<1>4. TypeInv'
  BY <1>2 DEF FileInv, TypeInv
<1>5. QueueInv'
  BY <1>1, <1>2, <1>3 DEF FileInv, QueueInv, Sent, SentAt, Same, Steps
<1>6. \A c \in Clients : alone[c] => cpc[c] = "opening"
  BY <1>1, <1>3, ServesAlone DEF FileInv, Sent, SentAt, Waits
<1>7. AloneInv'
  BY <1>2, <1>6 DEF FileInv, AloneInv
<1> QED BY <1>2, <1>4, <1>5, <1>7 DEF FileInv, CrashNeedsSharing

LEMMA InvOpenAlloc == FileInv /\ ~crash /\ OpenAlloc => FileInv'
<1> SUFFICES ASSUME FileInv, ~crash, OpenAlloc PROVE FileInv'
  OBVIOUS
<1>1. /\ tpc = "alloc" /\ tpc' = "base"
      /\ (buf' = "live" /\ noBuffer' = noBuffer) \/ (buf' = "null" /\ noBuffer' = TRUE)
      /\ UNCHANGED <<bInited, num, queue, cur, cpc, dwLockSign, run, alone, crash>>
  BY DEF OpenAlloc, client
<1>2. Sent(cur) /\ cur.op = "OPEN"
  BY <1>1 DEF FileInv, QueueInv, Sent, SentAt, Steps, Ops
<1>3. TypeInv'
  BY <1>1 DEF FileInv, TypeInv
<1>4. QueueInv'
  BY <1>1, <1>2 DEF FileInv, QueueInv, Sent, SentAt, Same, Steps
<1>5. \A c \in Clients : alone[c] => cpc[c] = "opening"
  BY <1>1, <1>2, ServesAlone DEF FileInv, Sent, SentAt, Waits
<1>6. AloneInv'
  BY <1>1, <1>5 DEF FileInv, AloneInv, TypeInv
<1> QED BY <1>1, <1>3, <1>4, <1>6 DEF FileInv, CrashNeedsSharing

LEMMA InvOpenInit == FileInv /\ ~crash /\ OpenInit => FileInv'
<1> SUFFICES ASSUME FileInv, ~crash, OpenInit PROVE FileInv'
  OBVIOUS
<1>1. /\ tpc = "base" /\ tpc' = "idle" /\ bInited' = TRUE /\ cpc' = [cpc EXCEPT ![cur.who] = "ready"]
      /\ UNCHANGED <<buf, num, queue, dwLockSign, run, alone, crash, noBuffer>>
  BY DEF OpenInit, At, Finish
<1>2. Sent(cur) /\ cur.op = "OPEN" /\ cur.who \in Clients
  BY <1>1 DEF FileInv, QueueInv, Sent, SentAt, Steps, Ops
<1>3. cpc'[cur.who] = "ready" /\ \A d \in Clients : d # cur.who => cpc'[d] = cpc[d]
  BY <1>1, <1>2 DEF FileInv, TypeInv
<1>4. TypeInv'
  BY <1>1, <1>2 DEF FileInv, TypeInv, Places
<1>5. QueueInv'
  BY <1>1, <1>2, <1>3, QueueServe DEF FileInv
<1>6. \A c \in Clients : alone[c] => c = cur.who
  BY <1>1, ServesAlone DEF FileInv
<1>7. AloneInv'
  BY <1>1, <1>2, <1>3, <1>6 DEF FileInv, AloneInv
<1> QED BY <1>1, <1>4, <1>5, <1>7 DEF FileInv, CrashNeedsSharing

LEMMA InvServeClose == FileInv /\ ~crash /\ ServeClose => FileInv'
<1> SUFFICES ASSUME FileInv, ~crash, ServeClose PROVE FileInv'
  OBVIOUS
<1>1. CASE buf # "live" /\ Crash
  <2>1. noBuffer \/ \A c \in Clients : ~alone[c]
    BY <1>1, BufferThere DEF FileInv, ServeClose
  <2> QED BY <1>1, <2>1, InvCrash
<1>2. CASE buf = "live"
  <2>1. /\ tpc = "CLOSE" /\ tpc' = "idle" /\ buf' = "null" /\ bInited' = FALSE
        /\ cpc' = [cpc EXCEPT ![cur.who] = "off"]
        /\ UNCHANGED <<queue, dwLockSign, run, alone, crash, noBuffer>>
    BY <1>2 DEF ServeClose, At, Finish
  <2>2. Sent(cur) /\ cur.op = "CLOSE" /\ cur.who \in Clients
    BY <2>1 DEF FileInv, QueueInv, Sent, SentAt, Steps, Ops
  <2>3. cpc'[cur.who] = "off" /\ \A d \in Clients : d # cur.who => cpc'[d] = cpc[d]
    BY <2>1, <2>2 DEF FileInv, TypeInv
  <2>4. TypeInv'
    BY <2>1, <2>2 DEF FileInv, TypeInv, Places
  <2>5. QueueInv'
    BY <2>1, <2>2, <2>3, QueueServe DEF FileInv
  <2>6. \A c \in Clients : alone[c] => c = cur.who
    BY <2>1, ServesAlone DEF FileInv
  <2>7. AloneInv'
    BY <2>1, <2>2, <2>3, <2>6 DEF FileInv, AloneInv
  <2> QED BY <2>1, <2>4, <2>5, <2>7 DEF FileInv, CrashNeedsSharing
<1> QED BY <1>1, <1>2 DEF ServeClose

LEMMA InvServeCopy == FileInv /\ ~crash /\ ServeCopy => FileInv'
<1> SUFFICES ASSUME FileInv, ~crash, ServeCopy PROVE FileInv'
  OBVIOUS
<1>1. CASE buf # "live" /\ Crash
  <2>1. noBuffer \/ \A c \in Clients : ~alone[c]
    BY <1>1, BufferThere DEF FileInv, ServeCopy
  <2> QED BY <1>1, <2>1, InvCrash
<1>2. CASE buf = "live"
  <2>1. /\ tpc = "COPY" /\ tpc' = "idle" /\ cpc' = [cpc EXCEPT ![cur.who] = "located"]
        /\ UNCHANGED <<bInited, buf, num, queue, dwLockSign, run, alone, crash, noBuffer>>
    BY <1>2 DEF ServeCopy, At, Finish, device
  <2>2. Sent(cur) /\ cur.op = "COPY" /\ cur.who \in Clients /\ cpc[cur.who] = "copying"
    BY <2>1 DEF FileInv, QueueInv, Sent, SentAt, Steps, Ops, Waits
  <2>3. cpc'[cur.who] = "located" /\ \A d \in Clients : d # cur.who => cpc'[d] = cpc[d]
    BY <2>1, <2>2 DEF FileInv, TypeInv
  <2>4. TypeInv'
    BY <2>1, <2>2 DEF FileInv, TypeInv, Places
  <2>5. QueueInv'
    BY <2>1, <2>2, <2>3, QueueServe DEF FileInv
  <2>6. \A c \in Clients : alone[c] => c = cur.who
    BY <2>1, ServesAlone DEF FileInv
  <2>7. AloneInv'
    BY <2>1, <2>2, <2>3, <2>6 DEF FileInv, AloneInv
  <2> QED BY <2>1, <2>4, <2>5, <2>7 DEF FileInv, CrashNeedsSharing
<1> QED BY <1>1, <1>2 DEF ServeCopy

LEMMA InvNext == FileInv /\ [Next]_vars => FileInv'
<1> SUFFICES ASSUME FileInv, [Next]_vars PROVE FileInv'
  OBVIOUS
<1>1. CASE UNCHANGED vars
  <2>1. UNCHANGED <<bInited, buf, num, queue, tpc, cur, cpc, dwLockSign, run, alone, crash, noBuffer>>
    BY <1>1 DEF vars, device, thread, client
  <2>2. TypeInv'
    BY <2>1 DEF FileInv, TypeInv
  <2>3. QueueInv'
    BY <2>1 DEF FileInv, QueueInv, Sent, SentAt, Same
  <2>4. AloneInv'
    BY <2>1 DEF FileInv, AloneInv
  <2> QED BY <2>1, <2>2, <2>3, <2>4 DEF FileInv, CrashNeedsSharing
<1>2. CASE ~crash /\ Thread
  BY <1>2, InvTake, InvServeUnmapped, InvServeWrite, InvOpenFree, InvOpenAlloc, InvOpenInit, InvServeClose, InvServeCopy DEF Thread
<1>3. ASSUME ~crash, NEW c \in Clients, Client(c) PROVE FileInv'
  BY <1>3, InvInitFileLocater, InvSetSign, InvReadWrite, InvCopyData, InvFree, InvClear DEF Client
<1> QED BY <1>1, <1>2, <1>3 DEF Next

\* FileInv is an invariant of the filter and its programs.
THEOREM Correct == Spec => []FileInv
BY InvInit, InvNext, PTL DEF Spec

\* The thread uses a buffer that is not there only while no program has the
\* volume to itself, or when memory is short.
THEOREM NullOnlyShared == Spec => []CrashNeedsSharing
<1>1. FileInv => CrashNeedsSharing
  BY DEF FileInv
<1> QED BY <1>1, Correct, PTL

=============================================================================
