------------------------------ MODULE CryDisk ------------------------------
(***************************************************************************)
(* The encrypted disk YGCryDisk: a device whose sectors are those of a     *)
(* partition of the hard disk, decrypted with the key of the medium that   *)
(* is open.  Requests are tested when they are dispatched and carried out  *)
(* later by the device's thread, in their order; opening and closing the   *)
(* medium is queued as well, so that a test may be out of date when its    *)
(* request is served.                                                      *)
(*                                                                         *)
(* The cipher is abstract: what was encrypted with a key is decrypted by   *)
(* no other, and the mark of a first sector never appears by chance.       *)
(* Requests that are answered at once and change nothing are left out, and *)
(* so is the counter of IOCTL_YGCRYDISK_ADD_COUNT and unloading.           *)
(***************************************************************************)
EXTENDS Integers, Sequences

CONSTANTS
  Irps,         \* requests that may be on their way at once
  NoIrp,
  Raw,          \* the sectors of the hard disk
  Media,        \* the YGCRYDISK_PARAMETERs that programs pass, see Medium
  Formatted,    \* those of them that the hard disk has been encrypted for
  Bodies,       \* contents of a sector, a first one's mark and signature apart
  Requests,     \* what is requested, see Request
  Types,        \* per signature: the cipher its highest bits name
  MayFail,      \* whether memory and the hard disk may fail
  MaxRequests   \* bound: requests that are made

\* What a program passes, and the signature of the partition if there is one.
Medium   == [start : Raw, length : Nat, key : STRING, type : Nat, sign : STRING]
NoMedium == [start |-> 0, length |-> 0, key |-> "none", type |-> 0, sign |-> "none"]

\* The bytes at the end of a first sector: none, a boot sector's, or a disk's.
Signs == {"zero", "none", "55AA"} \cup {p.sign : p \in Media}

\* A sector: the byte uMark and the two bytes at the end, of which programs see
\* "55AA" in a boot sector, and the disk has type and checksum in their place.
Sector == [body : Bodies \cup {"junk"}, mark : {"0", "Y", "junk"}, sign : Signs]
Plain(b, s) == [body |-> b, mark |-> "0", sign |-> s]
Junk        == [body |-> "junk", mark |-> "junk", sign |-> "zero"]

Request ==
  [op : {"open"}, medium : Media]
    \cup [op : {"close", "flush"}]
    \cup [op : {"read"}, start : Nat, size : Nat \ {0}]
    \cup [op : {"write"}, start : Nat, size : {1}, data : [{0} -> Sector]]
    \cup [op : {"write"}, start : Nat, size : {2}, data : [{0, 1} -> Sector]]

\* Partitions are apart, where one starts there is one medium with its key and
\* type, and programs store no sector with the disk's own mark.
ASSUME CryDiskAssumption ==
  /\ Raw \subseteq Nat /\ Bodies # {}
  /\ Media \subseteq Medium /\ Formatted \subseteq Media
  /\ \A p \in Media : p.length > 0 /\ p.start .. p.start + p.length - 1 \subseteq Raw
  /\ \A p, q \in Formatted : p # q => p.start + p.length <= q.start \/ q.start + q.length <= p.start
  /\ \A p \in Media, q \in Formatted : p.start = q.start /\ p.key = q.key /\ p.type = q.type => p = q
  /\ \A p \in Formatted : Types[p.sign] = p.type
  /\ \A r \in Requests : r \in Request
  /\ \A r \in Requests : r.op = "write" => \A k \in DOMAIN r.data : r.data[k].mark # "Y"
  /\ NoIrp \notin Irps /\ MayFail \in BOOLEAN /\ MaxRequests \in Nat

VARIABLES
  media,      \* bMediaInDevice
  info,       \* MediaInfo
  device,     \* DeviceObject is not NULL
  saved,      \* uEncrytTypeAndKeyLen and uCheckSumAndEncryptMark
  refs,       \* references on the hard disk's file object that the driver holds
  queue,      \* pListHead
  event,      \* keRequestEvent
  worker,     \* where the thread is
  cur,        \* the IRP it serves
  caller,     \* per IRP: where its dispatcher is, or who has it
  req,        \* per IRP: what it asks for
  disk,       \* the hard disk: what each sector holds, and the key it needs
  reply,      \* the answer to the last read or flush, none if it is junk
  crash,      \* no; null: NULL used, or a reference dropped that was not held;
              \* unmapped: a transfer used that could not be mapped
  sent,       \* number of requests made
  stored,     \* history: what programs last stored in each sector
  unsure,     \* history: sectors nothing is claimed of, see Excuse
  stale,      \* history: requests that a medium was opened or closed behind
  contended   \* history: two requests to open or close were on their way at once

ext    == <<media, info, device, saved, refs>>
thread == <<queue, event, worker, cur>>
irps   == <<caller, req, sent>>
vars   == <<ext, thread, irps, disk, reply, crash, stored, unsure, stale, contended>>

Span(p)       == p.start .. p.start + p.length - 1
First(p)      == p.start
Target(p, r)  == p.start + r.start .. p.start + r.start + r.size - 1
Changes(r)    == r.op \in {"open", "close"}
InFlight      == {i \in Irps : caller[i] # "idle"}

-----------------------------------------------------------------------------
(* The cipher and the first sector.                                        *)

Encrypt(c, k) == [key |-> k, content |-> c]

\* The bytes at the end of a first sector are not encrypted.
Decrypt(s, k) == IF s.key = k THEN s.content ELSE [Junk EXCEPT !.sign = s.content.sign]

\* Mutant of ToDisk: the mark is not set.
ToDiskNoMark(c) == IF c.sign = "55AA" THEN [c EXCEPT !.sign = saved] ELSE c

\* A boot sector is stored with the disk's mark, type and checksum.
ToDisk(c) ==
  IF c.sign = "55AA" THEN [c EXCEPT !.mark = "Y", !.sign = saved] ELSE c

\* Mutant of FromDisk: the signature is not put back.
FromDiskRaw(c) == c

\* A sector with the disk's type and checksum is shown as a boot sector.
FromDisk(c) ==
  IF c.sign = saved THEN [c EXCEPT !.mark = "0", !.sign = "55AA"] ELSE c

\* What a request transfers for sector x of the hard disk.
WriteOne(r, x) ==
  LET c == r.data[x - info.start - r.start]
  IN Encrypt(IF x = First(info) THEN ToDisk(c) ELSE c, info.key)
ReadOne(x) ==
  LET c == Decrypt(disk[x], info.key)
  IN IF x = First(info) THEN FromDisk(c) ELSE c

\* CheckAndInitCryDisk: the mark, and the type in the signature; the checksum is
\* not looked at.
Recognised(s, p) == LET c == Decrypt(s, p.key) IN c.mark = "Y" /\ Types[c.sign] = p.type

-----------------------------------------------------------------------------
Format ==
  [x \in Raw |->
     IF \E p \in Formatted : x \in Span(p)
     THEN LET p == CHOOSE p \in Formatted : x \in Span(p)
              b == CHOOSE b \in Bodies : TRUE
          IN Encrypt(IF x = First(p) THEN [body |-> b, mark |-> "Y", sign |-> p.sign]
                     ELSE Plain(b, "zero"), p.key)
     ELSE Encrypt(Plain(CHOOSE b \in Bodies : TRUE, "zero"), "none")]

\* What a program finds there that opens the partition with its key.
Owner(x) == IF \E p \in Formatted : x \in Span(p)
            THEN CHOOSE p \in Formatted : x \in Span(p) ELSE NoMedium
Shown(x, c) ==
  LET p == Owner(x)
  IN IF p # NoMedium /\ x = First(p) /\ c.sign \in {p.sign, "55AA"}
     THEN [c EXCEPT !.mark = "0", !.sign = "55AA"] ELSE c

Init ==
  /\ media = FALSE /\ info = NoMedium /\ device = FALSE /\ saved = "none" /\ refs = 0
  /\ queue = <<>> /\ event = FALSE /\ worker = "wait" /\ cur = NoIrp
  /\ caller = [i \in Irps |-> "idle"] /\ req = [i \in Irps |-> [op |-> "flush"]] /\ sent = 0
  /\ disk = Format
  /\ reply = [op |-> "none"] /\ crash = "no"
  /\ stored = [x \in Raw |-> Shown(x, disk[x].content)] /\ unsure = {}
  /\ stale = {} /\ contended = FALSE

-----------------------------------------------------------------------------
(* Dispatch.                                                               *)

At(i, l) == caller' = [caller EXCEPT ![i] = l]

\* ReadWrite and DeviceControl, the test for a medium: OPEN_MEDIA is refused when
\* there is one, everything else when there is none.
TestMedia(i, r) ==
  /\ caller[i] = "idle" /\ sent < MaxRequests
  /\ sent' = sent + 1
  /\ req' = [req EXCEPT ![i] = r]
  /\ At(i, IF media = (r.op = "open") THEN "idle" ELSE "bounds")
  /\ stale' = stale \ {i}
  /\ contended' = (contended \/ (Changes(r) /\ \E j \in InFlight : Changes(req[j])))
  /\ UNCHANGED <<ext, thread, disk, reply, crash, stored, unsure>>

\* Mutant of Inside: the last sector may be one too far.
InsideOneMore(r) == r.start + r.size <= info.length + 1

\* A request is inside the partition.
Inside(r) == r.start + r.size <= info.length

\* The test of the bounds, and the insertion.
Insert(i) ==
  /\ caller[i] = "bounds"
  /\ IF req[i].op \in {"read", "write"} /\ ~Inside(req[i])
     THEN At(i, "idle") /\ UNCHANGED queue
     ELSE At(i, "signal") /\ queue' = Append(queue, i)
  /\ UNCHANGED <<ext, event, worker, cur, req, sent, disk, reply, crash, stored, unsure, stale, contended>>

\* KeSetEvent.  The thread may have completed the IRP by now.
Signal(i) ==
  /\ caller[i] \in {"signal", "answered"}
  /\ event' = TRUE
  /\ At(i, IF caller[i] = "signal" THEN "queued" ELSE "idle")
  /\ UNCHANGED <<ext, queue, worker, cur, req, sent, disk, reply, crash, stored, unsure, stale, contended>>

-----------------------------------------------------------------------------
(* Thread.                                                                 *)

\* KeWaitForSingleObject on a synchronization event
Wait ==
  /\ worker = "wait" /\ event
  /\ event' = FALSE /\ worker' = "take"
  /\ UNCHANGED <<ext, queue, cur, irps, disk, reply, crash, stored, unsure, stale, contended>>

\* Mutant of Take: the head stays on the list.
TakePeek ==
  /\ worker = "take"
  /\ IF queue = <<>>
     THEN worker' = "wait" /\ UNCHANGED cur
     ELSE cur' = Head(queue) /\ worker' = req[Head(queue)].op
  /\ UNCHANGED <<ext, queue, event, irps, disk, reply, crash, stored, unsure, stale, contended>>

\* ExInterlockedRemoveHeadList
Take ==
  /\ worker = "take"
  /\ IF queue = <<>>
     THEN worker' = "wait" /\ UNCHANGED <<queue, cur>>
     ELSE /\ cur' = Head(queue) /\ queue' = Tail(queue)
          /\ worker' = req[Head(queue)].op
  /\ UNCHANGED <<ext, event, irps, disk, reply, crash, stored, unsure, stale, contended>>

\* Mutant of Complete: the thread waits after each request.
CompleteWaits ==
  /\ cur' = NoIrp /\ worker' = "wait"
  /\ At(cur, IF caller[cur] = "signal" THEN "answered" ELSE "idle")
  /\ UNCHANGED <<queue, event, req, sent>>

\* IoCompleteRequest
Complete ==
  /\ cur' = NoIrp /\ worker' = "take"
  /\ At(cur, IF caller[cur] = "signal" THEN "answered" ELSE "idle")
  /\ UNCHANGED <<queue, event, req, sent>>

Crash ==
  /\ crash' = "null"
  /\ UNCHANGED <<ext, thread, irps, disk, reply, stored, unsure, stale, contended>>

\* Sectors a request may have spoilt: it was tested for another medium.
Excuse(r) == IF cur \in stale \/ contended THEN Raw ELSE {}

\* MmGetSystemAddressForMdlSafe finds no room to map a transfer, and the NULL it
\* returns is followed.
ServeUnmapped ==
  /\ worker \in {"read", "write"} /\ MayFail
  /\ crash' = "unmapped"
  /\ UNCHANGED <<ext, thread, irps, disk, reply, stored, unsure, stale, contended>>

\* A read; when the hard disk fails, junk is decrypted and returned.
ServeRead ==
  /\ worker = "read"
  /\ IF ~device THEN Crash
     ELSE LET r == req[cur]
              at == Target(info, r) \cap Raw
          IN /\ \/ reply' = [op |-> "read", buf |-> [x \in at |-> ReadOne(x)]]
                \/ MayFail /\ reply' = [op |-> "none"]
             /\ Complete
             /\ UNCHANGED <<ext, disk, crash, stored, unsure, stale, contended>>

\* A write; without memory nothing is written, and if the hard disk fails
\* nothing may be: the request is reported as done all the same.
ServeWrite ==
  /\ worker = "write"
  /\ LET r == req[cur]
         at == Target(info, r) \cap Raw
     IN \/ /\ device
           /\ disk' = [x \in Raw |-> IF x \in at THEN WriteOne(r, x) ELSE disk[x]]
           /\ stored' = [x \in Raw |-> IF x \in at THEN r.data[x - info.start - r.start] ELSE stored[x]]
           /\ unsure' = (unsure \ at) \cup Excuse(r)
           /\ Complete /\ UNCHANGED <<ext, reply, crash, stale, contended>>
        \/ /\ MayFail
           /\ unsure' = unsure \cup at \cup Excuse(r)
           /\ Complete /\ UNCHANGED <<ext, disk, reply, crash, stored, stale, contended>>
        \/ ~device /\ Crash

\* OpenMedia, the parameters are copied, ...
OpenMedia ==
  /\ worker = "open"
  /\ info' = req[cur].medium
  /\ worker' = "init"
  /\ stale' = InFlight \ {cur}
  /\ UNCHANGED <<media, device, saved, refs, queue, event, cur, irps,
                 disk, reply, crash, stored, unsure, contended>>

\* Mutant of WrongKey: the reference is kept.
WrongKeyKeeps ==
  /\ MayFail \/ ~Recognised(disk[First(info)], info)
  /\ device' = FALSE /\ refs' = refs + 1
  /\ UNCHANGED <<media, saved>>

\* Without the mark the hard disk is dereferenced again.
WrongKey ==
  /\ MayFail \/ ~Recognised(disk[First(info)], info)
  /\ device' = FALSE
  /\ UNCHANGED <<media, refs, saved>>

\* ... the hard disk is referenced, which may fail, and CheckAndInitCryDisk reads
\* the first sector.
CheckAndInit ==
  /\ worker = "init"
  /\ \/ /\ Recognised(disk[First(info)], info)
        /\ media' = TRUE /\ device' = TRUE /\ refs' = refs + 1
        /\ saved' = disk[First(info)].content.sign
     \/ WrongKey
     \/ MayFail /\ UNCHANGED <<media, device, refs, saved>>
  /\ Complete
  /\ UNCHANGED <<info, disk, reply, crash, stored, unsure, stale, contended>>

\* Mutant of CloseMedia: the flag stays.
CloseMediaKeeps ==
  /\ worker = "close"
  /\ IF refs = 0 THEN Crash
     ELSE /\ device' = FALSE /\ refs' = refs - 1
          /\ stale' = InFlight \ {cur}
          /\ Complete
          /\ UNCHANGED <<media, info, saved, disk, reply, crash, stored, unsure, contended>>

\* CloseMedia
CloseMedia ==
  /\ worker = "close"
  /\ IF refs = 0 THEN Crash
     ELSE /\ media' = FALSE /\ device' = FALSE /\ refs' = refs - 1
          /\ stale' = InFlight \ {cur}
          /\ Complete
          /\ UNCHANGED <<info, saved, disk, reply, crash, stored, unsure, contended>>

\* FlushMedia flushes nothing; with a medium it leaves the status of the IRP as
\* it was when it was queued.
FlushMedia ==
  /\ worker = "flush"
  /\ reply' = [op |-> "flush", status |-> IF media THEN "STATUS_PENDING" ELSE "STATUS_DEVICE_NOT_READY"]
  /\ Complete
  /\ UNCHANGED <<ext, disk, crash, stored, unsure, stale, contended>>

Thread ==
  \/ Wait \/ Take \/ ServeUnmapped \/ ServeRead \/ ServeWrite
  \/ OpenMedia \/ CheckAndInit \/ CloseMedia \/ FlushMedia

Dispatch(i) == Insert(i) \/ Signal(i)

Next ==
  /\ crash = "no"   \* the machine does not survive it
  /\ \/ \E i \in Irps : Dispatch(i) \/ \E r \in Requests : TestMedia(i, r)
     \/ Thread

\* The thread is never starved, and a caller goes on with its request.
Fairness == WF_vars(crash = "no" /\ Thread) /\ \A i \in Irps : WF_vars(crash = "no" /\ Dispatch(i))

Spec == Init /\ [][Next]_vars /\ Fairness

-----------------------------------------------------------------------------
\* Every variable has its type, an IRP is on the queue once, and the thread
\* serves one exactly while it is inside a request.
TypeOK ==
  /\ media \in BOOLEAN /\ device \in BOOLEAN /\ refs \in Nat
  /\ info \in Media \cup {NoMedium}
  /\ queue \in Seq(Irps) /\ event \in BOOLEAN
  /\ worker \in {"wait", "take", "init", "open", "close", "read", "write", "flush"}
  /\ cur \in Irps \cup {NoIrp} /\ (cur = NoIrp <=> worker \in {"wait", "take"})
  /\ \A m, n \in DOMAIN queue : queue[m] = queue[n] => m = n
  /\ \A n \in DOMAIN queue : queue[n] # cur /\ caller[queue[n]] \in {"signal", "queued"}
  /\ caller \in [Irps -> {"idle", "bounds", "signal", "queued", "answered"}]
  /\ \A x \in Raw : disk[x].content \in Sector

\* Requests to open and close are never answered out of turn: as long as there
\* is one of them at a time, a device object that is NULL is used only by a
\* request that was tested before the medium was closed (Thread, ReadWrite).
CrashNeedsStaleTest == crash = "null" => cur \in stale \/ contended

\* The driver holds the hard disk's file object exactly while it has a medium,
\* under the same condition (OpenMedia, CloseMedia).
ReferencesBalanced ==
  ~contended => refs = (IF media THEN 1 ELSE 0) /\ (media => device)

\* Every sector holds what programs last stored in it, those of other
\* partitions included.  Excused are requests that were tested for another
\* medium and writes that failed and were reported as done.
KeepsData ==
  \A x \in Raw \ unsure :
    LET p == Owner(x) IN
    Shown(x, Decrypt(disk[x], p.key)) = Shown(x, stored[x])

\* A read of a medium returns what was stored in its sectors, but for a first
\* sector with the disk's own signature, which comes back as a boot sector.
ReadsBack ==
  [][(reply' # reply /\ reply'.op = "read" /\ cur \notin stale /\ ~contended) =>
       \A x \in DOMAIN reply'.buf \ unsure : reply'.buf[x] = Shown(x, stored[x])]_vars

\* A partition opens again with its key, unless a program has stored a first
\* sector without the signature of a boot sector.
OpensAgain ==
  \A p \in Formatted :
    First(p) \notin unsure /\ stored[First(p)].sign = "55AA"
      => Recognised(disk[First(p)], p)

\* A request that is queued is answered.
Answered == \A i \in Irps : caller[i] \in {"signal", "queued"} ~> (crash # "no" \/ caller[i] \in {"answered", "idle"})

=============================================================================
