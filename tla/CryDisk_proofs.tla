--------------------------- MODULE CryDisk_proofs ---------------------------
(* Theorems about CryDisk, for every set of requests, media and sectors.   *)
EXTENDS CryDisk, TLAPS

Ops == {"open", "close", "read", "write", "flush"}

\* Requests that wait for the thread or are served by it.
Pending == {i \in Irps : caller[i] \in {"bounds", "signal", "queued"}}

-----------------------------------------------------------------------------
(* Requests and contents.                                                  *)

\* What a request has, by what it asks for.
LEMMA RequestKinds ==
  ASSUME NEW r \in Requests
  PROVE  /\ r.op \in Ops
         /\ r.op = "open" => r.medium \in Media
         /\ r.op = "write" => /\ r.start \in Nat /\ r.size \in {1, 2}
                              /\ \A k \in 0 .. r.size - 1 : r.data[k] \in Sector
<1>1. r \in Request
  BY CryDiskAssumption
<1>2. CASE r \in [op : {"open"}, medium : Media]
  BY <1>2 DEF Ops
<1>3. CASE r \in [op : {"close", "flush"}]
  BY <1>3 DEF Ops
<1>4. CASE r \in [op : {"read"}, start : Nat, size : Nat \ {0}]
  BY <1>4 DEF Ops
<1>5. CASE r \in [op : {"write"}, start : Nat, size : {1}, data : [{0} -> Sector]]
  BY <1>5 DEF Ops
<1>6. CASE r \in [op : {"write"}, start : Nat, size : {2}, data : [{0, 1} -> Sector]]
  BY <1>6 DEF Ops
<1> QED BY <1>1, <1>2, <1>3, <1>4, <1>5, <1>6 DEF Request

\* A first sector is still a sector when it has mark and checksum.
LEMMA ToDiskSector ==
  ASSUME NEW c \in Sector, saved \in Signs
  PROVE  ToDisk(c) \in Sector
BY DEF ToDisk, Sector

\* What is written is a sector.
LEMMA WriteOneSector ==
  ASSUME NEW r \in Requests, r.op = "write", info.start \in Int, saved \in Signs,
         NEW x \in Target(info, r)
  PROVE  WriteOne(r, x).content \in Sector
<1>1. r.start \in Nat /\ r.size \in {1, 2} /\ \A k \in 0 .. r.size - 1 : r.data[k] \in Sector
  BY RequestKinds
<1>2. x - info.start - r.start \in 0 .. r.size - 1
  BY <1>1 DEF Target
<1>3. r.data[x - info.start - r.start] \in Sector
  BY <1>1, <1>2
<1> QED BY <1>3, ToDiskSector DEF WriteOne, Encrypt

-----------------------------------------------------------------------------
(* The queue and the thread.                                               *)

\* Who has an IRP: it is on the queue once, or the thread serves it, and the
\* thread does what it asks for.
PlaceInv ==
  /\ caller \in [Irps -> {"idle", "bounds", "signal", "queued", "answered"}]
  /\ req \in [Irps -> Requests \cup {[op |-> "flush"]}]
  /\ queue \in Seq(Irps)
  /\ \A m, n \in DOMAIN queue : queue[m] = queue[n] => m = n
  /\ \A n \in DOMAIN queue : queue[n] # cur /\ caller[queue[n]] \in {"signal", "queued"}
  /\ worker \in {"wait", "take", "init", "open", "close", "read", "write", "flush"}
  /\ cur \in Irps \cup {NoIrp} /\ (cur = NoIrp <=> worker \in {"wait", "take"})
  /\ cur # NoIrp => /\ caller[cur] \in {"signal", "queued"}
                    /\ req[cur].op = IF worker = "init" THEN "open" ELSE worker

\* Removing the head keeps the others apart, and it is none of them.
LEMMA TailOnce ==
  ASSUME NEW q \in Seq(Irps), q # <<>>, \A m, n \in DOMAIN q : q[m] = q[n] => m = n
  PROVE  /\ Tail(q) \in Seq(Irps) /\ Head(q) \in Irps /\ Head(q) = q[1] /\ 1 \in DOMAIN q
         /\ \A m, n \in DOMAIN Tail(q) : Tail(q)[m] = Tail(q)[n] => m = n
         /\ \A n \in DOMAIN Tail(q) : \E k \in DOMAIN q : Tail(q)[n] = q[k] /\ Tail(q)[n] # Head(q)
<1>1. Tail(q) \in Seq(Irps) /\ Head(q) \in Irps /\ Head(q) = q[1] /\ 1 \in DOMAIN q
  OBVIOUS
<1>2. \A n \in DOMAIN Tail(q) : n + 1 \in DOMAIN q /\ Tail(q)[n] = q[n + 1] /\ n \in Nat /\ n + 1 # 1
  OBVIOUS
<1> QED BY <1>1, <1>2

\* Appending an IRP that is not there keeps them apart.
LEMMA AppendOnce ==
  ASSUME NEW q \in Seq(Irps), NEW i \in Irps, \A m, n \in DOMAIN q : q[m] = q[n] => m = n,
         \A n \in DOMAIN q : q[n] # i
  PROVE  /\ Append(q, i) \in Seq(Irps)
         /\ \A m, n \in DOMAIN Append(q, i) : Append(q, i)[m] = Append(q, i)[n] => m = n
         /\ \A n \in DOMAIN Append(q, i) : Append(q, i)[n] = i \/ \E k \in DOMAIN q : Append(q, i)[n] = q[k]
<1>1. Append(q, i) \in Seq(Irps) /\ Len(Append(q, i)) = Len(q) + 1
  OBVIOUS
<1>2. \A n \in DOMAIN Append(q, i) :
        (n \in DOMAIN q /\ Append(q, i)[n] = q[n]) \/ (n = Len(q) + 1 /\ Append(q, i)[n] = i)
  OBVIOUS
<1> QED BY <1>1, <1>2

LEMMA PlaceInit == Init => PlaceInv
<1> SUFFICES ASSUME Init PROVE PlaceInv
  OBVIOUS
<1>1. queue \in Seq(Irps) /\ DOMAIN queue = {}
  BY DEF Init
<1> QED BY <1>1, CryDiskAssumption DEF Init, PlaceInv

\* What a dispatcher does to an IRP it has.
LEMMA PlaceDispatch ==
  ASSUME PlaceInv, NEW i \in Irps,
         Dispatch(i) \/ \E r \in Requests : TestMedia(i, r)
  PROVE  PlaceInv'
<1> USE CryDiskAssumption DEF PlaceInv, At, thread
<1>1. ASSUME NEW r \in Requests, TestMedia(i, r) PROVE PlaceInv'
  BY <1>1 DEF TestMedia
<1>2. CASE Insert(i)
  <2>1. CASE queue' = queue
    <3>1. caller' \in [Irps -> {"idle", "bounds", "signal", "queued", "answered"}]
      BY <1>2 DEF Insert
    <3>2. \A j \in Irps : j # i => caller'[j] = caller[j]
      BY <1>2 DEF Insert
    <3> QED BY <1>2, <2>1, <3>1, <3>2 DEF Insert
  <2>2. CASE queue' = Append(queue, i) /\ At(i, "signal")
    <3>1. \A n \in DOMAIN queue : queue[n] # i
      BY <1>2 DEF Insert
    <3>2. /\ queue' \in Seq(Irps)
          /\ \A m, n \in DOMAIN queue' : queue'[m] = queue'[n] => m = n
          /\ \A n \in DOMAIN queue' : queue'[n] = i \/ \E k \in DOMAIN queue : queue'[n] = queue[k]
      BY <2>2, <3>1, AppendOnce
    <3>3. i # cur
      BY <1>2 DEF Insert
    <3> QED BY <1>2, <2>2, <3>2, <3>3 DEF Insert
  <2> QED BY <1>2, <2>1, <2>2 DEF Insert
<1>3. CASE Signal(i)
  BY <1>3 DEF Signal
<1> QED BY <1>1, <1>2, <1>3 DEF Dispatch

\* The thread gives up the IRP it serves, or goes on with it.
LEMMA PlaceThread == PlaceInv /\ Thread => PlaceInv'
<1> SUFFICES ASSUME PlaceInv, Thread PROVE PlaceInv'
  OBVIOUS
<1> USE CryDiskAssumption DEF PlaceInv, At
<1>1. ASSUME Complete, cur # NoIrp PROVE PlaceInv'
  BY <1>1 DEF Complete
<1>2. ASSUME Crash PROVE PlaceInv'
  BY <1>2 DEF Crash, thread, irps
<1>3. CASE Wait
  BY <1>3 DEF Wait, irps
<1>4. CASE Take
  <2>1. CASE queue = <<>>
    BY <1>4, <2>1 DEF Take, irps
  <2>2. CASE queue # <<>>
    <3>0. cur' = Head(queue) /\ queue' = Tail(queue)
      BY <1>4, <2>2 DEF Take
    <3>q. queue \in Seq(Irps) /\ \A m, n \in DOMAIN queue : queue[m] = queue[n] => m = n
      OBVIOUS
    <3>1. /\ queue' \in Seq(Irps) /\ cur' \in Irps /\ cur' = queue[1] /\ 1 \in DOMAIN queue
          /\ \A m, n \in DOMAIN queue' : queue'[m] = queue'[n] => m = n
          /\ \A n \in DOMAIN queue' : \E k \in DOMAIN queue : queue'[n] = queue[k] /\ queue'[n] # cur'
      <4> HIDE DEF PlaceInv
      <4> QED BY <3>0, <3>q, <2>2, TailOnce
    <3>2. caller' = caller /\ req' = req /\ worker' = req[cur'].op
      BY <1>4, <2>2 DEF Take, irps
    <3>3. req[cur'].op \in Ops
      BY <3>1, RequestKinds DEF Ops
    <3>4. caller[cur'] \in {"signal", "queued"} /\ cur' # NoIrp
      BY <3>1
    <3> QED BY <3>1, <3>2, <3>3, <3>4 DEF Ops
  <2> QED BY <2>1, <2>2
<1>5. CASE ServeRead
  BY <1>1, <1>2, <1>5 DEF ServeRead
<1>6. CASE ServeWrite
  BY <1>1, <1>2, <1>6 DEF ServeWrite
<1>7. CASE OpenMedia
  BY <1>7 DEF OpenMedia, irps
<1>8. CASE CheckAndInit
  BY <1>1, <1>8 DEF CheckAndInit
<1>9. CASE CloseMedia
  BY <1>1, <1>2, <1>9 DEF CloseMedia
<1>10. CASE FlushMedia
  BY <1>1, <1>10 DEF FlushMedia
<1>11. CASE ServeUnmapped
  BY <1>11 DEF ServeUnmapped, thread, irps
<1> QED BY <1>3, <1>4, <1>5, <1>6, <1>7, <1>8, <1>9, <1>10, <1>11 DEF Thread

LEMMA PlaceNext == PlaceInv /\ [Next]_vars => PlaceInv'
<1> SUFFICES ASSUME PlaceInv, [Next]_vars PROVE PlaceInv'
  OBVIOUS
<1>1. CASE UNCHANGED vars
  BY <1>1 DEF vars, thread, irps, PlaceInv
<1> QED BY <1>1, PlaceDispatch, PlaceThread DEF Next

-----------------------------------------------------------------------------
(* The medium and the hard disk.                                           *)

\* The rest of TypeOK; the thread has the parameters of a medium when it reads
\* its first sector.
DataInv ==
  /\ media \in BOOLEAN /\ device \in BOOLEAN /\ refs \in Nat /\ event \in BOOLEAN
  /\ info \in Media \cup {NoMedium} /\ (worker = "init" => info \in Media)
  /\ saved \in Signs
  /\ \A x \in Raw : disk[x].content \in Sector

\* A partition starts at a sector.
LEMMA StartNat == \A p \in Media \cup {NoMedium} : p.start \in Nat
<1>1. ASSUME NEW p \in Media PROVE p.start \in Nat
  <2>1. p \in Medium /\ Raw \subseteq Nat
    BY CryDiskAssumption
  <2> QED BY <2>1 DEF Medium
<1>2. NoMedium.start \in Nat
  BY DEF NoMedium
<1> QED BY <1>1, <1>2

LEMMA DataInit == Init => DataInv
<1> SUFFICES ASSUME Init PROVE DataInv
  OBVIOUS
<1> DEFINE b == CHOOSE b \in Bodies : TRUE
<1>1. b \in Bodies /\ "zero" \in Signs /\ "none" \in Signs
  BY CryDiskAssumption DEF Signs
<1>2. ASSUME NEW x \in Raw PROVE Format[x].content \in Sector
  <2> HIDE DEF b
  <2>1. CASE \E p \in Formatted : x \in Span(p)
    <3> DEFINE p == CHOOSE p \in Formatted : x \in Span(p)
    <3>1. p \in Media
      BY <2>1, CryDiskAssumption
    <3>2. p.sign \in Signs
      BY <3>1 DEF Signs
    <3> HIDE DEF p
    <3>3. Encrypt([body |-> b, mark |-> "Y", sign |-> p.sign], p.key).content \in Sector
      BY <1>1, <3>2 DEF Encrypt, Sector
    <3>4. Encrypt(Plain(b, "zero"), p.key).content \in Sector
      BY <1>1 DEF Encrypt, Plain, Sector
    <3> QED BY <2>1, <3>3, <3>4 DEF Format, p, b
  <2>2. CASE ~\E p \in Formatted : x \in Span(p)
    <3>1. Encrypt(Plain(b, "zero"), "none").content \in Sector
      BY <1>1 DEF Encrypt, Plain, Sector
    <3> QED BY <2>2, <3>1 DEF Format, b
  <2> QED BY <2>1, <2>2
<1>3. saved \in Signs /\ info = NoMedium /\ worker = "wait"
  BY <1>1 DEF Init
<1>4. \A x \in Raw : disk[x].content \in Sector
  BY <1>2 DEF Init
<1>5. media \in BOOLEAN /\ device \in BOOLEAN /\ refs \in Nat /\ event \in BOOLEAN
  BY DEF Init
<1> QED BY <1>3, <1>4, <1>5 DEF DataInv

LEMMA DataNext == PlaceInv /\ DataInv /\ [Next]_vars => DataInv'
<1> SUFFICES ASSUME PlaceInv, DataInv, [Next]_vars PROVE DataInv'
  OBVIOUS
<1> USE DEF DataInv
<1>1. CASE UNCHANGED vars
  BY <1>1 DEF vars, ext, thread
<1>2. ASSUME NEW i \in Irps, NEW r \in Requests, TestMedia(i, r) PROVE DataInv'
  BY <1>2 DEF TestMedia, ext, thread
<1>3. ASSUME NEW i \in Irps, Dispatch(i) PROVE DataInv'
  BY <1>3 DEF Dispatch, Insert, Signal, ext
<1>4. ASSUME Crash PROVE DataInv'
  BY <1>4 DEF Crash, ext, thread
<1>5. CASE Wait
  BY <1>5 DEF Wait, ext
<1>6. CASE Take
  <2>1. CASE queue = <<>>
    BY <1>6, <2>1 DEF Take, ext
  <2>2. CASE queue # <<>>
    <3>1. Head(queue) \in Irps
      BY <2>2 DEF PlaceInv
    <3>2. req[Head(queue)].op # "init"
      BY <3>1, RequestKinds DEF Ops, PlaceInv
    <3> QED BY <1>6, <2>2, <3>2 DEF Take, ext
  <2> QED BY <2>1, <2>2
<1>7. CASE ServeRead
  BY <1>4, <1>7 DEF ServeRead, Complete, ext
<1>8. CASE ServeWrite
  <2>1. ASSUME disk' = disk, Complete, UNCHANGED ext PROVE DataInv'
    BY <2>1 DEF Complete, ext
  <2>2. ASSUME disk' = [x \in Raw |-> IF x \in Target(info, req[cur]) \cap Raw
                                      THEN WriteOne(req[cur], x) ELSE disk[x]],
               Complete, UNCHANGED ext
        PROVE  DataInv'
    <3>1. req[cur] \in Requests /\ req[cur].op = "write"
      BY <1>8, CryDiskAssumption DEF PlaceInv, ServeWrite
    <3>2. info.start \in Int
      BY StartNat
    <3>3. \A x \in Raw : disk'[x].content \in Sector
      BY <2>2, <3>1, <3>2, WriteOneSector
    <3> QED BY <2>2, <3>3 DEF Complete, ext
  <2> QED BY <1>4, <1>8, <2>1, <2>2 DEF ServeWrite
<1>9. CASE OpenMedia
  <2>1. req[cur] \in Requests /\ req[cur].op = "open"
    BY <1>9, CryDiskAssumption DEF PlaceInv, OpenMedia
  <2>2. info' \in Media
    BY <1>9, <2>1, RequestKinds DEF OpenMedia
  <2> QED BY <1>9, <2>2 DEF OpenMedia
<1>10. CASE CheckAndInit
  <2>1. First(info) \in Raw
    BY <1>10, CryDiskAssumption DEF CheckAndInit, First, Medium
  <2>2. disk[First(info)].content.sign \in Signs
    BY <2>1 DEF Sector
  <2>3. CASE media' = TRUE /\ device' = TRUE /\ refs' = refs + 1 /\ saved' = disk[First(info)].content.sign
    BY <1>10, <2>2, <2>3 DEF CheckAndInit, Complete
  <2>4. CASE WrongKey
    BY <1>10, <2>4 DEF CheckAndInit, WrongKey, Complete
  <2>5. CASE UNCHANGED <<media, device, refs, saved>>
    BY <1>10, <2>5 DEF CheckAndInit, Complete
  <2> QED BY <1>10, <2>3, <2>4, <2>5 DEF CheckAndInit
<1>11. CASE CloseMedia
  <2>1. CASE refs # 0
    <3>1. refs - 1 \in Nat
      BY <2>1
    <3> QED BY <1>11, <2>1, <3>1 DEF CloseMedia, Complete
  <2> QED BY <1>4, <1>11, <2>1 DEF CloseMedia
<1>12. CASE FlushMedia
  BY <1>12 DEF FlushMedia, Complete, ext
<1>13. CASE ServeUnmapped
  BY <1>13 DEF ServeUnmapped, ext, thread
<1> QED BY <1>1, <1>2, <1>3, <1>5, <1>6, <1>7, <1>8, <1>9, <1>10, <1>11, <1>12, <1>13 DEF Next, Thread

-----------------------------------------------------------------------------
(* Opening and closing, as long as there is one such request at a time: it  *)
(* is never out of date, and a request that is not finds the medium as it   *)
(* was tested.                                                              *)
MediaInv ==
  ~contended =>
    /\ \A i, j \in Pending : Changes(req[i]) /\ Changes(req[j]) => i = j
    /\ \A i \in Pending : Changes(req[i]) => i \notin stale
    /\ \A i \in Pending : i \notin stale => (media = TRUE <=> req[i].op # "open")
    /\ refs = (IF media THEN 1 ELSE 0) /\ (media => device)

Inv == PlaceInv /\ DataInv /\ MediaInv /\ CrashNeedsStaleTest

\* The request the thread serves is pending.
LEMMA Served ==
  ASSUME PlaceInv, cur # NoIrp
  PROVE  cur \in Pending
BY DEF PlaceInv, Pending

\* When an IRP is completed the others are as pending as before.
LEMMA CompletePending ==
  ASSUME PlaceInv, cur # NoIrp, Complete
  PROVE  Pending' = Pending \ {cur} /\ req' = req
<1>1. cur \in Irps /\ caller' = [caller EXCEPT ![cur] = IF caller[cur] = "signal" THEN "answered" ELSE "idle"]
  BY DEF PlaceInv, Complete, At
<1>2. \A i \in Irps : caller'[i] = IF i = cur THEN IF caller[cur] = "signal" THEN "answered" ELSE "idle" ELSE caller[i]
  BY <1>1 DEF PlaceInv
<1> QED BY <1>1, <1>2 DEF Pending, Complete

\* A step that finishes the request leaves fewer to speak of.
LEMMA MediaComplete ==
  ASSUME PlaceInv, MediaInv, cur # NoIrp, Complete,
         UNCHANGED <<media, device, refs, stale, contended>>
  PROVE  MediaInv'
BY CompletePending DEF MediaInv

\* A request that is not out of date finds the medium open, unless it opens it.
LEMMA TestedInTime ==
  ASSUME PlaceInv, DataInv, MediaInv, ~contended, cur # NoIrp,
         cur \notin stale \/ Changes(req[cur])
  PROVE  /\ cur \notin stale
         /\ req[cur].op # "open" => media = TRUE /\ device = TRUE /\ refs = 1
         /\ req[cur].op = "open" => media = FALSE /\ refs = 0
<1>1. cur \in Pending
  BY Served
<1>2. cur \notin stale
  BY <1>1 DEF MediaInv
<1>3. media = TRUE <=> req[cur].op # "open"
  BY <1>1, <1>2 DEF MediaInv
<1> QED BY <1>2, <1>3 DEF MediaInv, DataInv

LEMMA InvInit == Init => Inv
<1> SUFFICES ASSUME Init PROVE Inv
  OBVIOUS
<1>1. Pending = {}
  BY DEF Init, Pending
<1>2. MediaInv /\ CrashNeedsStaleTest
  BY <1>1 DEF Init, MediaInv, CrashNeedsStaleTest
<1> QED BY <1>2, PlaceInit, DataInit DEF Inv

LEMMA MediaNext == Inv /\ crash = "no" /\ Next => MediaInv' /\ CrashNeedsStaleTest'
<1> SUFFICES ASSUME Inv, crash = "no", Next PROVE MediaInv' /\ CrashNeedsStaleTest'
  OBVIOUS
<1>0. PlaceInv /\ DataInv /\ MediaInv
  BY DEF Inv
<1>1. ASSUME NEW i \in Irps, NEW r \in Requests, TestMedia(i, r)
      PROVE  MediaInv' /\ CrashNeedsStaleTest'
  <2>1. \A j \in Irps : j # i => caller'[j] = caller[j] /\ req'[j] = req[j]
    BY <1>0, <1>1 DEF TestMedia, At, PlaceInv
  <2>2. req'[i] = r /\ caller'[i] = IF media = (r.op = "open") THEN "idle" ELSE "bounds"
    BY <1>0, <1>1 DEF TestMedia, At, PlaceInv
  <2>3. UNCHANGED <<media, device, refs, crash>> /\ stale' = stale \ {i}
        /\ (contended' <=> contended \/ (Changes(r) /\ \E j \in InFlight : Changes(req[j])))
    BY <1>1 DEF TestMedia, ext
  <2>4. \A j \in Pending' : j \in Irps /\ (j # i => j \in Pending /\ j \in InFlight)
    BY <2>1 DEF Pending, InFlight
  <2>5. i \in Pending' => (media = TRUE <=> r.op # "open")
    BY <1>0, <2>2 DEF Pending, DataInv
  <2>6. ASSUME ~contended' PROVE \A j, k \in Pending' : Changes(req'[j]) /\ Changes(req'[k]) => j = k
    BY <1>0, <2>1, <2>2, <2>3, <2>4, <2>6 DEF MediaInv
  <2>7. ASSUME ~contended'
        PROVE  /\ \A j \in Pending' : Changes(req'[j]) => j \notin stale'
               /\ \A j \in Pending' : j \notin stale' => (media' = TRUE <=> req'[j].op # "open")
    BY <1>0, <2>1, <2>2, <2>3, <2>4, <2>5, <2>7 DEF MediaInv
  <2>8. MediaInv'
    BY <1>0, <2>3, <2>6, <2>7 DEF MediaInv, Changes
  <2> QED BY <2>3, <2>8 DEF CrashNeedsStaleTest
<1>2. ASSUME NEW i \in Irps, Dispatch(i)
      PROVE  MediaInv' /\ CrashNeedsStaleTest'
  <2>1. UNCHANGED <<media, device, refs, stale, contended, req, crash>>
    BY <1>2 DEF Dispatch, Insert, Signal, ext
  <2>2. \A j \in Irps : j # i => caller'[j] = caller[j]
    BY <1>0, <1>2 DEF Dispatch, Insert, Signal, At, PlaceInv
  <2>3. i \in Pending' => i \in Pending
    BY <1>0, <1>2 DEF Dispatch, Insert, Signal, At, PlaceInv, Pending
  <2>4. \A j \in Pending' : j \in Pending
    BY <2>2, <2>3 DEF Pending
  <2> QED BY <1>0, <2>1, <2>4 DEF MediaInv, CrashNeedsStaleTest, Changes
<1>3. ASSUME UNCHANGED <<media, device, refs, stale, contended, req, caller, crash>>
      PROVE  MediaInv' /\ CrashNeedsStaleTest'
  <2>1. Pending' = Pending
    BY <1>3 DEF Pending
  <2> QED BY <1>0, <1>3, <2>1 DEF MediaInv, CrashNeedsStaleTest, Changes
<1>4. ASSUME Crash, cur # NoIrp, cur \in stale \/ contended
      PROVE  MediaInv' /\ CrashNeedsStaleTest'
  <2>1. Pending' = Pending
    BY <1>4 DEF Crash, irps, Pending
  <2> QED BY <1>0, <1>4, <2>1 DEF Crash, ext, thread, irps, MediaInv, CrashNeedsStaleTest, Changes
<1>5. CASE Wait
  BY <1>3, <1>5 DEF Wait, ext, irps
<1>6. CASE Take
  BY <1>3, <1>6 DEF Take, ext, irps
<1>7. ASSUME Complete, cur # NoIrp, UNCHANGED <<media, device, refs, stale, contended, crash>>
      PROVE  MediaInv' /\ CrashNeedsStaleTest'
  BY <1>0, <1>7, MediaComplete DEF CrashNeedsStaleTest
<1>8. CASE ServeRead
  <2>1. cur # NoIrp /\ req[cur].op = "read"
    BY <1>0, <1>8 DEF ServeRead, PlaceInv
  <2>2. CASE ~device /\ Crash
    <3>1. cur \in stale \/ contended
      BY <1>0, <2>1, <2>2, TestedInTime
    <3> QED BY <1>4, <2>1, <2>2, <3>1
  <2> QED BY <1>7, <1>8, <2>1, <2>2 DEF ServeRead, ext
<1>9. CASE ServeWrite
  <2>1. cur # NoIrp /\ req[cur].op = "write"
    BY <1>0, <1>9 DEF ServeWrite, PlaceInv
  <2>2. CASE ~device /\ Crash
    <3>1. cur \in stale \/ contended
      BY <1>0, <2>1, <2>2, TestedInTime
    <3> QED BY <1>4, <2>1, <2>2, <3>1
  <2> QED BY <1>7, <1>9, <2>1, <2>2 DEF ServeWrite, ext
<1>10. CASE OpenMedia
  <2>1. cur # NoIrp /\ Changes(req[cur]) /\ cur \in Pending
    BY <1>0, <1>10, Served DEF OpenMedia, PlaceInv, Changes
  <2>2. Pending' = Pending /\ stale' = InFlight \ {cur}
    BY <1>10 DEF OpenMedia, Pending, irps
  <2>3. UNCHANGED <<media, device, refs, contended, req, crash>>
    BY <1>10 DEF OpenMedia, irps
  <2>4. ASSUME ~contended, NEW i \in Pending
        PROVE  /\ Changes(req[i]) => i \notin stale'
               /\ i \notin stale' => (media = TRUE <=> req[i].op # "open")
    <3>1. Changes(req[i]) => i = cur
      BY <1>0, <2>1, <2>4 DEF MediaInv
    <3>2. i \notin stale' => i = cur
      BY <2>2, <2>4 DEF Pending, InFlight
    <3>3. cur \notin stale
      BY <1>0, <2>1, <2>4, TestedInTime
    <3>4. media = TRUE <=> req[cur].op # "open"
      BY <1>0, <2>1, <2>4, <3>3 DEF MediaInv
    <3> QED BY <2>2, <3>1, <3>2, <3>4
  <2> QED BY <1>0, <2>2, <2>3, <2>4 DEF MediaInv, CrashNeedsStaleTest, Changes
<1>11. CASE CheckAndInit
  <2>1. cur # NoIrp /\ Changes(req[cur]) /\ cur \in Pending /\ req[cur].op = "open"
    BY <1>0, <1>11, Served DEF CheckAndInit, PlaceInv, Changes
  <2>2. Pending' = Pending \ {cur} /\ req' = req
    BY <1>0, <1>11, <2>1, CompletePending DEF CheckAndInit
  <2>3. UNCHANGED <<contended, crash, stale>>
    BY <1>11 DEF CheckAndInit
  <2>4. ASSUME ~contended
        PROVE  /\ \A i \in Pending' : i \in stale /\ ~Changes(req[i])
               /\ refs' = (IF media' THEN 1 ELSE 0) /\ (media' => device')
    <3>1. media = FALSE /\ refs = 0
      BY <1>0, <2>1, <2>4, TestedInTime
    <3>2. \A i \in Pending : i \notin stale => req[i].op = "open"
      BY <1>0, <2>4, <3>1 DEF MediaInv
    <3>3. \A i \in Pending : Changes(req[i]) => i = cur
      BY <1>0, <2>1, <2>4 DEF MediaInv
    <3>4. \A i \in Pending' : i \in stale /\ ~Changes(req[i])
      BY <2>2, <3>2, <3>3 DEF Changes
    <3>5. refs' = (IF media' THEN 1 ELSE 0) /\ (media' => device')
      BY <1>11, <3>1 DEF CheckAndInit, WrongKey
    <3> QED BY <3>4, <3>5
  <2> QED BY <2>2, <2>3, <2>4 DEF MediaInv, CrashNeedsStaleTest, Changes
<1>12. CASE CloseMedia
  <2>1. cur # NoIrp /\ Changes(req[cur]) /\ req[cur].op = "close"
    BY <1>0, <1>12 DEF CloseMedia, PlaceInv, Changes
  <2>2. CASE refs = 0 /\ Crash
    <3>1. contended
      BY <1>0, <2>1, <2>2, TestedInTime
    <3> QED BY <1>4, <2>1, <2>2, <3>1
  <2>3. CASE refs # 0
    <3>1. Pending' = Pending \ {cur} /\ req' = req
      BY <1>0, <1>12, <2>1, <2>3, CompletePending DEF CloseMedia
    <3>2. /\ media' = FALSE /\ refs' = refs - 1
          /\ stale' = InFlight \ {cur} /\ UNCHANGED <<contended, crash>>
      BY <1>12, <2>3 DEF CloseMedia
    <3>3. ASSUME ~contended
          PROVE  refs' = 0 /\ \A i \in Pending' : i \in stale' /\ ~Changes(req[i])
      <4>1. refs = 1
        BY <1>0, <2>1, <3>3, TestedInTime
      <4>2. cur \in Pending
        BY <1>0, <2>1, Served
      <4>3. \A i \in Pending : Changes(req[i]) => i = cur
        BY <1>0, <2>1, <3>3, <4>2 DEF MediaInv
      <4>4. Pending \subseteq InFlight
        BY DEF Pending, InFlight
      <4> QED BY <3>1, <3>2, <4>1, <4>3, <4>4
    <3> QED BY <3>1, <3>2, <3>3 DEF MediaInv, CrashNeedsStaleTest, Changes
  <2> QED BY <1>12, <2>2, <2>3 DEF CloseMedia
<1>13. CASE FlushMedia
  <2>1. cur # NoIrp
    BY <1>0, <1>13 DEF FlushMedia, PlaceInv
  <2> QED BY <1>7, <1>13, <2>1 DEF FlushMedia, ext
<1>14. CASE ServeUnmapped
  <2>1. Pending' = Pending
    BY <1>14 DEF ServeUnmapped, irps, Pending
  <2> QED BY <1>0, <1>14, <2>1 DEF ServeUnmapped, ext, irps, MediaInv, CrashNeedsStaleTest, Changes
<1> QED BY <1>1, <1>2, <1>5, <1>6, <1>8, <1>9, <1>10, <1>11, <1>12, <1>13, <1>14 DEF Next, Thread

LEMMA InvNext == Inv /\ [Next]_vars => Inv'
<1> SUFFICES ASSUME Inv, [Next]_vars PROVE Inv'
  OBVIOUS
<1>1. CASE UNCHANGED vars
  <2>1. Pending' = Pending
    BY <1>1 DEF vars, irps, Pending
  <2>2. MediaInv' /\ CrashNeedsStaleTest'
    BY <1>1, <2>1 DEF vars, ext, thread, irps, Inv, MediaInv, CrashNeedsStaleTest, Changes
  <2> QED BY <2>2, PlaceNext, DataNext DEF Inv
<1>2. CASE Next
  <2>1. crash = "no"
    BY <1>2 DEF Next
  <2> QED BY <1>2, <2>1, MediaNext, PlaceNext, DataNext DEF Inv
<1> QED BY <1>1, <1>2

\* Inv is an invariant of the driver.
THEOREM Correct == Spec => []Inv
BY InvInit, InvNext, PTL DEF Spec

\* An IRP is on the queue once, and the thread serves one exactly while it is
\* inside a request; what is on the hard disk are sectors.
THEOREM TypeCorrect == Spec => []TypeOK
<1>1. Inv => TypeOK
  BY DEF Inv, PlaceInv, DataInv, TypeOK
<1> QED BY <1>1, Correct, PTL

\* The thread uses NULL only for a request that was tested before the medium
\* was closed, or when two requests to open or close met.
THEOREM NullOnlyStale == Spec => []CrashNeedsStaleTest
<1>1. Inv => CrashNeedsStaleTest
  BY DEF Inv
<1> QED BY <1>1, Correct, PTL

\* The reference on the hard disk's file object is held exactly while there is
\* a medium.
THEOREM HeldWithMedium == Spec => []ReferencesBalanced
<1>1. Inv => ReferencesBalanced
  BY DEF Inv, MediaInv, ReferencesBalanced
<1> QED BY <1>1, Correct, PTL

-----------------------------------------------------------------------------
(* Partitions and first sectors.                                           *)

\* What a formatted partition is.
LEMMA FormattedFacts ==
  ASSUME NEW p \in Formatted
  PROVE  /\ p \in Media /\ p # NoMedium /\ p.start \in Nat /\ p.length \in Nat /\ p.length > 0
         /\ Span(p) \subseteq Raw /\ First(p) \in Span(p) /\ First(p) \in Raw
<1>1. p \in Medium /\ p \in Media /\ p.length > 0 /\ Raw \subseteq Nat
  BY CryDiskAssumption
<1>2. p.start \in Nat /\ p.length \in Nat
  BY <1>1 DEF Medium
<1>3. p # NoMedium
  BY <1>1 DEF NoMedium
<1>4. Span(p) \subseteq Raw
  BY <1>1, CryDiskAssumption DEF Span
<1>5. First(p) \in Span(p)
  BY <1>1, <1>2 DEF First, Span
<1> QED BY <1>1, <1>2, <1>3, <1>4, <1>5

\* A sector is in one partition at most.
LEMMA OneOwner ==
  ASSUME NEW p \in Formatted, NEW x \in Span(p)
  PROVE  Owner(x) = p
<1>1. ASSUME NEW q \in Formatted, x \in Span(q) PROVE q = p
  <2>1. /\ p.start \in Nat /\ p.length \in Nat /\ q.start \in Nat /\ q.length \in Nat
    BY FormattedFacts
  <2>2. p # q => p.start + p.length <= q.start \/ q.start + q.length <= p.start
    BY CryDiskAssumption
  <2>3. x \in p.start .. p.start + p.length - 1 /\ x \in q.start .. q.start + q.length - 1
    BY <1>1 DEF Span
  <2> QED BY <2>1, <2>2, <2>3
<1> QED BY <1>1 DEF Owner

\* What is shown is shown as it is.
LEMMA ShownTwice ==
  ASSUME NEW x, NEW c \in Sector
  PROVE  Shown(x, Shown(x, c)) = Shown(x, c)
<1> DEFINE d == [c EXCEPT !.mark = "0", !.sign = "55AA"]
<1>1. [d EXCEPT !.mark = "0", !.sign = "55AA"] = d
  BY DEF Sector
<1> QED BY <1>1 DEF Shown

\* What the disk has in the place of a first sector shows as what was stored.
LEMMA ToDiskShown ==
  ASSUME NEW p \in Formatted, NEW x \in Span(p), NEW c \in Sector, saved = p.sign,
         NEW y, y = IF x = First(p) THEN ToDisk(c) ELSE c
  PROVE  /\ Shown(x, y) = Shown(x, c)
         /\ x = First(p) => /\ y.sign = "55AA" => p.sign = "55AA"
                            /\ c.sign = "55AA" => y.mark = "Y" /\ y.sign = p.sign
<1>1. Owner(x) = p /\ p # NoMedium
  BY OneOwner, FormattedFacts
<1>2. CASE x = First(p) /\ c.sign = "55AA"
  <2>1. y = [c EXCEPT !.mark = "Y", !.sign = p.sign]
    BY <1>2 DEF ToDisk
  <2>2. y.body = c.body /\ y.mark = "Y" /\ y.sign = p.sign
    BY <2>1 DEF Sector
  <2>3. [y EXCEPT !.mark = "0", !.sign = "55AA"] = [c EXCEPT !.mark = "0", !.sign = "55AA"]
    BY <2>1 DEF Sector
  <2> QED BY <1>1, <1>2, <2>2, <2>3 DEF Shown
<1>3. CASE ~(x = First(p) /\ c.sign = "55AA")
  BY <1>3 DEF ToDisk
<1> QED BY <1>2, <1>3

\* What is read from the place of a first sector is what it shows.
LEMMA FromDiskShown ==
  ASSUME NEW p \in Formatted, NEW x \in Span(p), NEW c, saved = p.sign,
         x = First(p) /\ c.sign = "55AA" => p.sign = "55AA"
  PROVE  (IF x = First(p) THEN FromDisk(c) ELSE c) = Shown(x, c)
<1>1. Owner(x) = p /\ p # NoMedium
  BY OneOwner, FormattedFacts
<1> QED BY <1>1 DEF Shown, FromDisk

\* A transfer has a place and a length.
LEMMA TransferNumbers ==
  ASSUME NEW r \in Request, r.op \in {"read", "write"}
  PROVE  r.start \in Nat /\ r.size \in Nat
<1>1. CASE r \in [op : {"open"}, medium : Media]
  BY <1>1
<1>2. CASE r \in [op : {"close", "flush"}]
  BY <1>2
<1>3. CASE r \in [op : {"read"}, start : Nat, size : Nat \ {0}]
  BY <1>3
<1>4. CASE r \in [op : {"write"}, start : Nat, size : {1}, data : [{0} -> Sector]]
  BY <1>4
<1>5. CASE r \in [op : {"write"}, start : Nat, size : {2}, data : [{0, 1} -> Sector]]
  BY <1>5
<1> QED BY <1>1, <1>2, <1>3, <1>4, <1>5 DEF Request

\* A write has a sector for each place it goes to.
LEMMA WrittenSector ==
  ASSUME DataInv, NEW r \in Requests, r.op = "write", NEW x \in Target(info, r)
  PROVE  /\ x - info.start - r.start \in DOMAIN r.data
         /\ r.data[x - info.start - r.start] \in Sector
<1>1. r.start \in Nat /\ r.size \in {1, 2} /\ \A k \in 0 .. r.size - 1 : r.data[k] \in Sector
  BY RequestKinds
<1>2. info.start \in Nat
  BY StartNat DEF DataInv
<1>3. x - info.start - r.start \in 0 .. r.size - 1
  BY <1>1, <1>2 DEF Target
<1>4. DOMAIN r.data = 0 .. r.size - 1
  <2>1. r \in Request
    BY CryDiskAssumption
  <2>2. CASE r \in [op : {"write"}, start : Nat, size : {1}, data : [{0} -> Sector]]
    <3>1. r.size = 1 /\ DOMAIN r.data = {0}
      BY <2>2
    <3>2. {0} = 0 .. 1 - 1
      OBVIOUS
    <3> QED BY <3>1, <3>2
  <2>3. CASE r \in [op : {"write"}, start : Nat, size : {2}, data : [{0, 1} -> Sector]]
    <3>1. r.size = 2 /\ DOMAIN r.data = {0, 1}
      BY <2>3
    <3>2. {0, 1} = 0 .. 2 - 1
      OBVIOUS
    <3> QED BY <3>1, <3>2
  <2> QED BY <2>1, <2>2, <2>3 DEF Request
<1> QED BY <1>1, <1>3, <1>4

-----------------------------------------------------------------------------
(* The contents.                                                           *)

\* What a sector that something is claimed of holds, for the key of its owner.
Sure(x) ==
  LET p == Owner(x)
      c == disk[x].content
  IN /\ disk[x].key = p.key /\ Shown(x, c) = Shown(x, stored[x])
     /\ p # NoMedium /\ x = First(p) =>
          /\ c.sign = "55AA" => p.sign = "55AA"
          /\ stored[x].sign = "55AA" => c.mark = "Y" /\ c.sign = p.sign

SureInv == \A x \in Raw \ unsure : Sure(x)

\* The first sector of a partition, with its key and signature.
Marked(x) ==
  \E p \in Formatted : x = First(p) /\ disk[x].key = p.key /\ disk[x].content.sign = p.sign

\* Unless two requests to open or close met: a medium that is open is one the
\* disk is formatted for, no other sector has its mark, key and signature, and
\* requests that are in time were tested for its length.
LayoutInv ==
  ~contended =>
    /\ device => media = TRUE /\ info \in Formatted /\ saved = info.sign
    /\ \A x \in Raw : disk[x].content.mark = "Y" => Marked(x)
    /\ \A i \in Pending : i \notin stale /\ caller[i] # "bounds" /\ req[i].op \in {"read", "write"} => Inside(req[i])

ContentInv == SureInv /\ LayoutInv

LEMMA ContentInit == Init => ContentInv
<1> SUFFICES ASSUME Init PROVE ContentInv
  OBVIOUS
<1>1. Pending = {}
  BY DEF Init, Pending
<1> DEFINE b == CHOOSE b \in Bodies : TRUE
<1>2. ASSUME NEW x \in Raw, NEW p \in Formatted, x \in Span(p)
      PROVE  /\ disk[x].key = p.key
             /\ x = First(p) => disk[x].content.sign = p.sign /\ disk[x].content.mark = "Y"
             /\ x # First(p) => disk[x].content.mark = "0"
  <2>1. (CHOOSE q \in Formatted : x \in Span(q)) = p
    BY <1>2, OneOwner, FormattedFacts DEF Owner
  <2> DEFINE F(q) == Encrypt(IF x = First(q) THEN [body |-> b, mark |-> "Y", sign |-> q.sign]
                             ELSE Plain(b, "zero"), q.key)
  <2>2. Format[x] = F(CHOOSE q \in Formatted : x \in Span(q))
    BY <1>2 DEF Format
  <2>3. Format[x] = F(p)
    BY <2>1, <2>2
  <2> HIDE DEF b
  <2> QED BY <2>3 DEF Init, Encrypt, Plain
<1>3. ASSUME NEW x \in Raw, ~\E p \in Formatted : x \in Span(p)
      PROVE  disk[x].key = "none" /\ disk[x].content.mark = "0"
  <2> HIDE DEF b
  <2>1. Format[x] = Encrypt(Plain(b, "zero"), "none")
    BY <1>3 DEF Format, b
  <2> QED BY <2>1 DEF Init, Encrypt, Plain
<1> HIDE DEF b
<1>4. ASSUME NEW x \in Raw PROVE Sure(x)
  <2>1. Shown(x, stored[x]) = Shown(x, disk[x].content)
    <3>1. stored[x] = Shown(x, disk[x].content) /\ disk[x].content \in Sector
      BY DataInit DEF Init, DataInv
    <3> QED BY <3>1, ShownTwice
  <2>2. CASE \E p \in Formatted : x \in Span(p)
    <3>1. PICK p \in Formatted : x \in Span(p)
      BY <2>2
    <3>2. Owner(x) = p /\ p # NoMedium /\ disk[x].key = p.key
      BY <1>2, <3>1, OneOwner, FormattedFacts
    <3>3. x = First(p) => disk[x].content.sign = p.sign /\ disk[x].content.mark = "Y"
      BY <1>2, <3>1
    <3> QED BY <2>1, <3>2, <3>3 DEF Sure
  <2>3. CASE ~\E p \in Formatted : x \in Span(p)
    <3>1. Owner(x) = NoMedium
      BY <2>3 DEF Owner
    <3> QED BY <1>3, <2>1, <2>3, <3>1 DEF Sure, NoMedium
  <2> QED BY <2>2, <2>3
<1>5. ASSUME NEW x \in Raw, disk[x].content.mark = "Y"
      PROVE  Marked(x)
  <2>0. ~(\E p \in Formatted : x \in Span(p)) => disk[x].content.mark = "0"
    BY <1>3
  <2>1. PICK p \in Formatted : x \in Span(p)
    BY <1>5, <2>0
  <2>2. x = First(p)
    <3>1. ASSUME x # First(p) PROVE disk[x].content.mark = "0"
      BY <1>2, <2>1, <3>1
    <3> QED BY <1>5, <3>1
  <2> QED BY <1>2, <2>1, <2>2 DEF Marked
<1> QED BY <1>1, <1>4, <1>5 DEF Init, ContentInv, SureInv, LayoutInv

-----------------------------------------------------------------------------
(* Steps.                                                                  *)

\* Steps that leave the disk and the medium alone; the requests that are tested
\* were tested before.
LEMMA ContentSame ==
  ASSUME ContentInv, UNCHANGED <<disk, stored, unsure, device, media, info, saved>>,
         contended => contended',
         \A i \in Pending' : i \notin stale' /\ caller'[i] # "bounds" =>
           i \in Pending /\ i \notin stale /\ caller[i] # "bounds" /\ req'[i] = req[i]
  PROVE  ContentInv'
<1>1. \A x : Sure(x)' <=> Sure(x)
  BY DEF Sure
<1>2. SureInv'
  BY <1>1 DEF ContentInv, SureInv
<1>3. LayoutInv'
  BY DEF ContentInv, LayoutInv, Marked, Inside
<1> QED BY <1>2, <1>3 DEF ContentInv

\* Once the request is completed the others are where they were.
LEMMA CompleteOthers ==
  ASSUME PlaceInv, cur # NoIrp, Complete
  PROVE  \A i \in Pending' : i \in Pending /\ i # cur /\ caller'[i] = caller[i] /\ req'[i] = req[i]
<1>1. cur \in Irps /\ caller' = [caller EXCEPT ![cur] = IF caller[cur] = "signal" THEN "answered" ELSE "idle"]
  BY DEF PlaceInv, Complete, At
<1>2. \A i \in Irps : i # cur => caller'[i] = caller[i]
  BY <1>1 DEF PlaceInv
<1> QED BY <1>2, CompletePending DEF Pending

\* A request that is in time is inside the medium that is open.
LEMMA InTime ==
  ASSUME Inv, LayoutInv, ~contended, cur # NoIrp, cur \notin stale, req[cur].op \in {"read", "write"}
  PROVE  /\ device /\ info \in Formatted /\ saved = info.sign
         /\ Target(info, req[cur]) \subseteq Span(info)
<1>1. device = TRUE
  BY TestedInTime DEF Inv
<1>2. info \in Formatted /\ saved = info.sign
  BY <1>1 DEF LayoutInv
<1>3. Inside(req[cur])
  BY Served DEF Inv, PlaceInv, LayoutInv
<1>4. req[cur].start \in Nat /\ req[cur].size \in Nat
  <2>1. req[cur] \in Requests /\ req[cur] \in Request
    BY CryDiskAssumption DEF Inv, PlaceInv
  <2> QED BY <2>1, TransferNumbers
<1>5. info.start \in Nat /\ info.length \in Nat
  BY <1>2, FormattedFacts
<1>6. Target(info, req[cur]) \subseteq Span(info)
  BY <1>3, <1>4, <1>5 DEF Target, Span, Inside
<1> QED BY <1>1, <1>2, <1>6

\* The thread writes.
LEMMA ContentServeWrite ==
  ASSUME Inv, ContentInv, ServeWrite
  PROVE  ContentInv'
<1> DEFINE r  == req[cur]
           at == Target(info, r) \cap Raw
<1>1. cur # NoIrp /\ r.op = "write" /\ r \in Requests
  BY CryDiskAssumption DEF Inv, PlaceInv, ServeWrite
<1>2. CASE Crash
  <2>1. Pending' = Pending
    BY <1>2 DEF Crash, irps, Pending
  <2> QED BY <1>2, <2>1, ContentSame DEF Crash, ext, irps
<1>3. CASE ~Crash
  <2>1. /\ Complete /\ UNCHANGED <<ext, stale, contended>>
        /\ \/ /\ device
              /\ disk' = [x \in Raw |-> IF x \in at THEN WriteOne(r, x) ELSE disk[x]]
              /\ stored' = [x \in Raw |-> IF x \in at THEN r.data[x - info.start - r.start] ELSE stored[x]]
              /\ unsure' = (unsure \ at) \cup Excuse(r)
           \/ unsure' = unsure \cup at \cup Excuse(r) /\ UNCHANGED <<disk, stored>>
    BY <1>3 DEF ServeWrite
  <2>2. \A i \in Pending' : i \in Pending /\ caller'[i] = caller[i] /\ req'[i] = req[i]
    BY <1>1, <2>1, CompleteOthers DEF Inv
  <2>3. ASSUME UNCHANGED <<disk, stored>>, unsure \subseteq unsure' PROVE ContentInv'
    <3>1. \A x : Sure(x)' <=> Sure(x)
      BY <2>3 DEF Sure
    <3>2. SureInv'
      BY <2>3, <3>1 DEF ContentInv, SureInv
    <3>3. LayoutInv'
      BY <2>1, <2>2, <2>3 DEF ContentInv, LayoutInv, Marked, Inside, ext
    <3> QED BY <3>2, <3>3 DEF ContentInv
  <2>4. ASSUME device,
               disk' = [x \in Raw |-> IF x \in at THEN WriteOne(r, x) ELSE disk[x]],
               stored' = [x \in Raw |-> IF x \in at THEN r.data[x - info.start - r.start] ELSE stored[x]],
               unsure' = (unsure \ at) \cup Excuse(r)
        PROVE  ContentInv'
    <3>1. ASSUME NEW x \in at
          PROVE  LET c == r.data[x - info.start - r.start]
                     y == IF x = First(info) THEN ToDisk(c) ELSE c
                 IN /\ c \in Sector /\ c.mark # "Y"
                    /\ disk'[x].key = info.key /\ disk'[x].content = y /\ stored'[x] = c
      <4>1. x - info.start - r.start \in DOMAIN r.data /\ r.data[x - info.start - r.start] \in Sector
        BY <1>1, <3>1, WrittenSector DEF Inv
      <4>2. r.data[x - info.start - r.start].mark # "Y"
        BY <1>1, <4>1, CryDiskAssumption
      <4> QED BY <2>4, <3>1, <4>1, <4>2 DEF WriteOne, Encrypt
    <3>2. LayoutInv'
      <4>1. ASSUME ~contended, NEW x \in Raw, disk'[x].content.mark = "Y"
            PROVE  Marked(x)'
        <5>1. CASE x \in at
          <6> DEFINE c == r.data[x - info.start - r.start]
          <6>1. /\ c \in Sector /\ c.mark # "Y" /\ disk'[x].key = info.key
                /\ disk'[x].content = IF x = First(info) THEN ToDisk(c) ELSE c
            BY <3>1, <5>1
          <6>2. info \in Formatted /\ saved = info.sign
            BY <2>4, <4>1 DEF ContentInv, LayoutInv
          <6> HIDE DEF c
          <6>3. x = First(info) /\ c.sign = "55AA"
            BY <4>1, <6>1 DEF ToDisk
          <6>4. disk'[x].content.sign = saved
            BY <6>1, <6>3 DEF ToDisk, Sector
          <6> QED BY <6>1, <6>2, <6>3, <6>4 DEF Marked
        <5>2. CASE x \notin at
          BY <2>4, <4>1, <5>2 DEF ContentInv, LayoutInv, Marked
        <5> QED BY <5>1, <5>2
      <4> QED BY <2>1, <2>2, <4>1 DEF ContentInv, LayoutInv, Inside, ext
    <3>3. ASSUME NEW x \in Raw \ unsure' PROVE Sure(x)'
      <4>1. ~contended /\ cur \notin stale
        BY <2>4, <3>3 DEF Excuse
      <4>2. info \in Formatted /\ saved = info.sign /\ at \subseteq Span(info)
        BY <1>1, <4>1, InTime DEF ContentInv
      <4>3. CASE x \in at
        <5> DEFINE c == r.data[x - info.start - r.start]
                   y == IF x = First(info) THEN ToDisk(c) ELSE c
        <5>1. c \in Sector /\ disk'[x].key = info.key /\ disk'[x].content = y /\ stored'[x] = c
          BY <3>1, <4>3
        <5>2. x \in Span(info)
          BY <4>2, <4>3
        <5>3. /\ Shown(x, y) = Shown(x, c)
              /\ x = First(info) => /\ y.sign = "55AA" => info.sign = "55AA"
                                    /\ c.sign = "55AA" => y.mark = "Y" /\ y.sign = info.sign
          <6>1. PICK z : z = y
            OBVIOUS
          <6> HIDE DEF c
          <6> QED BY <4>2, <5>1, <5>2, <6>1, ToDiskShown
        <5>4. Owner(x) = info
          BY <4>2, <5>2, OneOwner
        <5> HIDE DEF c, y
        <5> QED BY <5>1, <5>3, <5>4 DEF Sure
      <4>4. CASE x \notin at
        <5>1. x \notin unsure /\ disk'[x] = disk[x] /\ stored'[x] = stored[x]
          BY <2>4, <3>3, <4>4
        <5> QED BY <5>1 DEF ContentInv, SureInv, Sure
      <4> QED BY <4>3, <4>4
    <3> QED BY <3>2, <3>3 DEF ContentInv, SureInv
  <2> QED BY <2>1, <2>3, <2>4
<1> QED BY <1>2, <1>3

\* A medium is opened when the mark of its first sector says so.
LEMMA ContentCheckAndInit ==
  ASSUME Inv, ContentInv, CheckAndInit
  PROVE  ContentInv'
<1>1. cur # NoIrp /\ req[cur].op = "open" /\ Changes(req[cur])
  BY DEF Inv, PlaceInv, CheckAndInit, Changes
<1>2. Complete /\ UNCHANGED <<info, disk, stored, unsure, stale, contended>>
  BY DEF CheckAndInit
<1>3. \A i \in Pending' : i \in Pending /\ caller'[i] = caller[i] /\ req'[i] = req[i]
  BY <1>1, <1>2, CompleteOthers DEF Inv
<1>4. SureInv'
  <2>1. \A x : Sure(x)' <=> Sure(x)
    BY <1>2 DEF Sure
  <2> QED BY <1>2, <2>1 DEF ContentInv, SureInv
<1>5. ASSUME ~contended, device' PROVE media' = TRUE /\ info \in Formatted /\ saved' = info.sign
  <2>1. ~device
    <3>1. media = FALSE
      BY <1>1, <1>5, TestedInTime DEF Inv
    <3> QED BY <1>5, <3>1 DEF ContentInv, LayoutInv
  <2>2. /\ Recognised(disk[First(info)], info) /\ media' = TRUE
        /\ saved' = disk[First(info)].content.sign
    BY <1>5, <2>1 DEF CheckAndInit, WrongKey
  <2>3. /\ disk[First(info)].key = info.key /\ disk[First(info)].content.mark = "Y"
        /\ Types[disk[First(info)].content.sign] = info.type
    BY <2>2 DEF Recognised, Decrypt, Junk
  <2>4. info \in Media /\ First(info) \in Raw
    BY CryDiskAssumption DEF CheckAndInit, Inv, DataInv, First, Medium
  <2>5. PICK p \in Formatted : /\ First(info) = First(p) /\ disk[First(info)].key = p.key
                              /\ disk[First(info)].content.sign = p.sign
    BY <1>5, <2>3, <2>4 DEF ContentInv, LayoutInv, Marked
  <2>6. info = p
    <3>1. info.start = p.start /\ info.key = p.key /\ info.type = p.type
      BY <2>3, <2>5, CryDiskAssumption DEF First
    <3> QED BY <2>4, <3>1, CryDiskAssumption
  <2> QED BY <2>2, <2>5, <2>6
<1>6. LayoutInv'
  <2>1. ASSUME ~contended, NEW i \in Pending', i \notin stale, caller'[i] # "bounds", req[i].op \in {"read", "write"}
        PROVE  Inside(req[i])
    <3>1. i \in Pending /\ caller[i] # "bounds" /\ req[i] = req'[i]
      BY <1>3, <2>1
    <3> QED BY <2>1, <3>1 DEF ContentInv, LayoutInv
  <2>2. req' = req /\ UNCHANGED <<info, disk, stale, contended>>
    BY <1>2 DEF Complete
  <2>3. ~contended => \A x \in Raw : disk[x].content.mark = "Y" => Marked(x)
    BY DEF ContentInv, LayoutInv
  <2> QED BY <1>5, <2>1, <2>2, <2>3 DEF LayoutInv, Marked, Inside
<1> QED BY <1>4, <1>6 DEF ContentInv

\* A request is tested, and inserted when it is inside the medium.
LEMMA ContentDispatch ==
  ASSUME Inv, ContentInv, NEW i \in Irps, Dispatch(i) \/ \E r \in Requests : TestMedia(i, r)
  PROVE  ContentInv'
<1>0. caller \in [Irps -> {"idle", "bounds", "signal", "queued", "answered"}] /\ DOMAIN req = Irps
  BY DEF Inv, PlaceInv
<1>1. ASSUME NEW r \in Requests, TestMedia(i, r) PROVE ContentInv'
  <2>1. \A j \in Irps : j # i => caller'[j] = caller[j] /\ req'[j] = req[j]
    BY <1>0, <1>1 DEF TestMedia, At
  <2>2. caller'[i] \in {"idle", "bounds"}
    BY <1>0, <1>1 DEF TestMedia, At
  <2>3. \A j \in Pending' : caller'[j] # "bounds" => j # i /\ j \in Pending
    BY <2>1, <2>2 DEF Pending
  <2>4. /\ UNCHANGED <<disk, stored, unsure, device, media, info, saved>>
        /\ stale' = stale \ {i}
        /\ contended => contended'
    BY <1>1 DEF TestMedia, ext
  <2>5. ASSUME NEW j \in Pending', j \notin stale', caller'[j] # "bounds"
        PROVE  j \in Pending /\ j \notin stale /\ caller[j] # "bounds" /\ req'[j] = req[j]
    <3>1. j # i /\ j \in Pending /\ j \in Irps
      BY <2>3, <2>5 DEF Pending
    <3> QED BY <2>1, <2>4, <2>5, <3>1
  <2> QED BY <2>4, <2>5, ContentSame
<1>2. CASE Insert(i)
  <2>1. /\ UNCHANGED <<disk, stored, unsure, device, media, info, saved, contended, stale, req>>
        /\ caller'[i] = "signal" /\ req[i].op \in {"read", "write"} => Inside(req[i])
        /\ \A j \in Irps : j # i => caller'[j] = caller[j]
    BY <1>0, <1>2 DEF Insert, At, ext
  <2>2. \A x : Sure(x)' <=> Sure(x)
    BY <2>1 DEF Sure
  <2>3. SureInv'
    BY <2>1, <2>2 DEF ContentInv, SureInv
  <2>4. caller'[i] \in {"idle", "signal"}
    BY <1>0, <1>2 DEF Insert, At
  <2>5. ASSUME ~contended, NEW j \in Pending', j \notin stale, caller'[j] # "bounds", req[j].op \in {"read", "write"}
        PROVE  Inside(req[j])
    <3>1. CASE j = i
      BY <2>1, <2>4, <2>5, <3>1 DEF Pending
    <3>2. CASE j # i
      <4>1. j \in Pending /\ caller[j] # "bounds"
        BY <2>1, <2>5, <3>2 DEF Pending
      <4> QED BY <2>5, <4>1 DEF ContentInv, LayoutInv
    <3> QED BY <3>1, <3>2
  <2>6. LayoutInv'
    BY <2>1, <2>5 DEF ContentInv, LayoutInv, Marked, Inside
  <2> QED BY <2>3, <2>6 DEF ContentInv
<1>3. CASE Signal(i)
  <2>1. /\ UNCHANGED <<disk, stored, unsure, device, media, info, saved, contended, stale, req>>
        /\ caller'[i] = IF caller[i] = "signal" THEN "queued" ELSE "idle"
        /\ caller[i] \in {"signal", "answered"}
        /\ \A j \in Irps : j # i => caller'[j] = caller[j]
    BY <1>0, <1>3 DEF Signal, At, ext
  <2>2. \A j \in Pending' : j \in Pending /\ (caller'[j] # "bounds" => caller[j] # "bounds")
    BY <2>1 DEF Pending
  <2> QED BY <2>1, <2>2, ContentSame
<1> QED BY <1>1, <1>2, <1>3 DEF Dispatch

\* The parameters are copied: requests before it are out of date.
LEMMA ContentOpenMedia ==
  ASSUME Inv, ContentInv, OpenMedia
  PROVE  ContentInv'
<1>1. cur # NoIrp /\ req[cur].op = "open" /\ Changes(req[cur])
  BY DEF Inv, PlaceInv, OpenMedia, Changes
<1>2. UNCHANGED <<media, device, saved, caller, req, disk, stored, unsure, contended>> /\ stale' = InFlight \ {cur}
  BY DEF OpenMedia, irps
<1>3. SureInv'
  <2>1. \A x : Sure(x)' <=> Sure(x)
    BY <1>2 DEF Sure
  <2> QED BY <1>2, <2>1 DEF ContentInv, SureInv
<1>4. ~contended => ~device
  <2>1. ~contended => media = FALSE
    BY <1>1, TestedInTime DEF Inv
  <2> QED BY <2>1 DEF ContentInv, LayoutInv
<1>5. Pending' = Pending /\ \A i \in Pending : i \notin stale' => req[i].op = "open"
  BY <1>1, <1>2 DEF Pending, InFlight
<1>6. ~contended => \A x \in Raw : disk[x].content.mark = "Y" => Marked(x)
  BY DEF ContentInv, LayoutInv
<1>7. LayoutInv'
  BY <1>2, <1>4, <1>5, <1>6 DEF LayoutInv, Marked
<1> QED BY <1>3, <1>7 DEF ContentInv

\* So they are when the medium is closed.
LEMMA ContentCloseMedia ==
  ASSUME Inv, ContentInv, CloseMedia
  PROVE  ContentInv'
<1>1. CASE Crash
  <2>1. Pending' = Pending
    BY <1>1 DEF Crash, irps, Pending
  <2> QED BY <1>1, <2>1, ContentSame DEF Crash, ext, irps
<1>2. CASE refs # 0
  <2>1. /\ Complete /\ device' = FALSE /\ stale' = InFlight \ {cur}
        /\ UNCHANGED <<info, disk, stored, unsure, contended>>
    BY <1>2 DEF CloseMedia
  <2>2. cur # NoIrp
    BY DEF CloseMedia, Inv, PlaceInv
  <2>3. \A i \in Pending' : i \in stale'
    BY <2>1, <2>2, CompleteOthers DEF Inv, Pending, InFlight
  <2>4. \A x : Sure(x)' <=> Sure(x)
    BY <2>1 DEF Sure
  <2>5. SureInv'
    BY <2>1, <2>4 DEF ContentInv, SureInv
  <2>6. ~contended => \A x \in Raw : disk[x].content.mark = "Y" => Marked(x)
    BY DEF ContentInv, LayoutInv
  <2>7. LayoutInv'
    BY <2>1, <2>3, <2>6 DEF LayoutInv, Marked
  <2> QED BY <2>5, <2>7 DEF ContentInv
<1> QED BY <1>1, <1>2 DEF CloseMedia

\* Steps that are none of these leave the contents and the medium alone.
LEMMA ContentThread ==
  ASSUME Inv, ContentInv, Thread
  PROVE  ContentInv'
<1>1. ASSUME UNCHANGED <<disk, stored, unsure, device, media, info, saved, contended, stale, caller, req>>
      PROVE  ContentInv'
  <2>1. Pending' = Pending
    BY <1>1 DEF Pending
  <2> QED BY <1>1, <2>1, ContentSame
<1>2. ASSUME Complete, cur # NoIrp, UNCHANGED <<disk, stored, unsure, ext, contended, stale>>
      PROVE  ContentInv'
  <2>1. \A i \in Pending' : i \in Pending /\ caller'[i] = caller[i] /\ req'[i] = req[i]
    BY <1>2, CompleteOthers DEF Inv
  <2> QED BY <1>2, <2>1, ContentSame DEF ext
<1>3. CASE Wait
  BY <1>1, <1>3 DEF Wait, ext, irps
<1>4. CASE Take
  BY <1>1, <1>4 DEF Take, ext, irps
<1>5. CASE ServeRead
  <2>1. cur # NoIrp
    BY <1>5 DEF ServeRead, Inv, PlaceInv
  <2>2. CASE Crash
    BY <1>1, <2>2 DEF Crash, ext, irps
  <2>3. CASE ~Crash
    BY <1>2, <1>5, <2>1, <2>3 DEF ServeRead
  <2> QED BY <2>2, <2>3
<1>6. CASE FlushMedia
  <2>1. cur # NoIrp
    BY <1>6 DEF FlushMedia, Inv, PlaceInv
  <2> QED BY <1>2, <1>6, <2>1 DEF FlushMedia
<1>7. CASE ServeUnmapped
  BY <1>1, <1>7 DEF ServeUnmapped, ext, irps
<1> QED BY <1>3, <1>4, <1>5, <1>6, <1>7, ContentServeWrite, ContentOpenMedia, ContentCheckAndInit, ContentCloseMedia DEF Thread

LEMMA ContentNext == Inv /\ ContentInv /\ [Next]_vars => ContentInv'
<1> SUFFICES ASSUME Inv, ContentInv, [Next]_vars PROVE ContentInv'
  OBVIOUS
<1>1. CASE UNCHANGED vars
  <2>1. Pending' = Pending
    BY <1>1 DEF vars, irps, Pending
  <2> QED BY <1>1, <2>1, ContentSame DEF vars, ext, irps
<1>2. CASE Next
  BY <1>2, ContentDispatch, ContentThread DEF Next
<1> QED BY <1>1, <1>2

LEMMA ContentAlways == Spec => []ContentInv
BY InvInit, InvNext, ContentInit, ContentNext, PTL DEF Spec

-----------------------------------------------------------------------------
\* Every sector holds what programs last stored in it.
THEOREM KeepsStored == Spec => []KeepsData
<1>1. ContentInv => KeepsData
  BY DEF ContentInv, SureInv, Sure, KeepsData, Decrypt
<1> QED BY <1>1, ContentAlways, PTL

\* A partition opens again with its key while its first sector is a boot sector.
THEOREM OpensWithKey == Spec => []OpensAgain
<1>1. ASSUME ContentInv, NEW p \in Formatted, First(p) \notin unsure, stored[First(p)].sign = "55AA"
      PROVE  Recognised(disk[First(p)], p)
  <2>1. First(p) \in Raw /\ Owner(First(p)) = p /\ p # NoMedium
    BY FormattedFacts, OneOwner
  <2>2. Sure(First(p))
    BY <1>1, <2>1 DEF ContentInv, SureInv
  <2>3. /\ disk[First(p)].key = p.key /\ disk[First(p)].content.mark = "Y"
        /\ disk[First(p)].content.sign = p.sign
    BY <1>1, <2>1, <2>2 DEF Sure
  <2> QED BY <2>3, CryDiskAssumption DEF Recognised, Decrypt
<1>2. ContentInv => OpensAgain
  BY <1>1 DEF OpensAgain
<1> QED BY <1>2, ContentAlways, PTL

\* A read of a medium returns what was stored in its sectors.
THEOREM ReadsStored == Spec => ReadsBack
<1> DEFINE A == (reply' # reply /\ reply'.op = "read" /\ cur \notin stale /\ ~contended) =>
                  \A x \in DOMAIN reply'.buf \ unsure : reply'.buf[x] = Shown(x, stored[x])
<1>1. ASSUME Inv, ContentInv, Next, reply' # reply, reply'.op = "read", cur \notin stale, ~contended,
             NEW x \in DOMAIN reply'.buf \ unsure
      PROVE  reply'.buf[x] = Shown(x, stored[x])
  <2> DEFINE at == Target(info, req[cur]) \cap Raw
  <2>1. ServeRead /\ ~Crash
    BY <1>1 DEF Next, Dispatch, TestMedia, Insert, Signal, Thread, Wait, Take, ServeUnmapped, ServeRead,
                ServeWrite, OpenMedia, CheckAndInit, CloseMedia, FlushMedia, Crash
  <2>2. reply' = [op |-> "read", buf |-> [y \in at |-> ReadOne(y)]]
    BY <1>1, <2>1 DEF ServeRead
  <2>3. x \in at /\ reply'.buf[x] = ReadOne(x)
    BY <2>2
  <2>4. cur # NoIrp /\ req[cur].op = "read"
    BY <1>1, <2>1 DEF ServeRead, Inv, PlaceInv
  <2>5. info \in Formatted /\ saved = info.sign /\ x \in Span(info)
    BY <1>1, <2>3, <2>4, InTime DEF ContentInv
  <2>6. Owner(x) = info /\ info # NoMedium
    BY <2>5, OneOwner, FormattedFacts
  <2>7. Sure(x)
    BY <1>1, <2>3 DEF ContentInv, SureInv
  <2>8. /\ disk[x].key = info.key /\ Shown(x, disk[x].content) = Shown(x, stored[x])
        /\ x = First(info) /\ disk[x].content.sign = "55AA" => info.sign = "55AA"
    BY <2>6, <2>7 DEF Sure
  <2>9. ReadOne(x) = Shown(x, disk[x].content)
    BY <2>5, <2>8, FromDiskShown DEF ReadOne, Decrypt
  <2> QED BY <2>3, <2>8, <2>9
<1>2. Inv /\ ContentInv /\ [Next]_vars => [A]_vars
  BY <1>1
<1>3. [](Inv /\ ContentInv) /\ [][Next]_vars => [][A]_vars
  BY <1>2, PTL
<1> QED BY <1>3, Correct, ContentAlways, PTL DEF Spec, ReadsBack

=============================================================================
