------------------------------ MODULE Relocate ------------------------------
(***************************************************************************)
(* Relocation, the block mover's second way of moving sectors: while the   *)
(* control program copies groups of sectors to their targets every write   *)
(* goes to both places, and when the last copy has reached g_dwMaxSec all  *)
(* requests are mapped through tables of groups.  The tables lie on disk,  *)
(* one per region; only some of them are in memory at once.                *)
(*                                                                         *)
(* One application makes one request at a time.  The control program is    *)
(* not part of the source: that it sets all regions before it enables      *)
(* relocation, copies the groups in order, and does not disable it after   *)
(* the last copy, is assumed.  A write of the value v puts <<v, x>> into   *)
(* sector x, so that contents tell where they belong.                      *)
(***************************************************************************)
EXTENDS Integers, Sequences, SequencesExt, FiniteSets

CONSTANTS
  Groups,       \* what is copied: a sequence of groups
  Ends,         \* per region how many groups it and those in front of it have
  MaxLoaded,    \* MAX_DATA_REGION_LOADED
  MinSec, MaxSec, \* the range that IOCTL_RM_ENABLE_DISABLE_RELOCATE is given
  Size,         \* sectors of the disk
  Values,       \* what is written
  Old,          \* what was there before
  Requests,     \* requests of the application
  MayFail,      \* whether memory and the disk may fail
  MaxRequests,  \* bound: requests that are made
  MaxCalls      \* bound: IOCTLs that initialise and enable

Sectors == 0..Size-1
Tables  == 1..Len(Ends)
Span(g) == g.s .. g.s + g.n - 1
NoGroup == [s |-> 0, n |-> 0, t |-> 0]
Before(r) == IF r = 1 THEN 0 ELSE Ends[r - 1]

\* What the tables on disk say, one per region.
Regions == [r \in Tables |-> SubSeq(Groups, Before(r) + 1, Ends[r])]
End(r)  == LET g == Last(Regions[r]) IN g.s + g.n

\* Where group g has sector x.
Target(g, x) == g.t + x - g.s

\* Groups lie in order and apart, and their targets behind all of them.
ASSUME RelocateAssumption ==
  /\ MaxLoaded \in Nat \ {0} /\ MinSec \in Nat /\ MaxSec \in Nat /\ Size \in Nat /\ MaxSec <= Size
  /\ Groups \in Seq([s : Nat, n : Nat \ {0}, t : Nat]) /\ Ends \in Seq(Nat \ {0})
  /\ Ends # <<>> /\ Last(Ends) = Len(Groups) /\ \A q, r \in Tables : q < r => Ends[q] < Ends[r]
  /\ \A i \in DOMAIN Groups :
       /\ MinSec <= Groups[i].s /\ Groups[i].t + Groups[i].n <= MaxSec
       /\ \A j \in DOMAIN Groups : /\ Groups[j].s + Groups[j].n <= Groups[i].t
                                   /\ i < j => /\ Groups[i].s + Groups[i].n <= Groups[j].s
                                               /\ Groups[i].t + Groups[i].n <= Groups[j].t
  /\ Last(Groups).t + Last(Groups).n = MaxSec
  /\ \A q \in Requests :
       /\ q \in [op : {"read", "write"}, start : Nat, n : Nat \ {0}, val : Values]
       /\ q.start + q.n <= Groups[1].t
  /\ Old \in Values /\ MayFail \in BOOLEAN /\ MaxRequests \in Nat /\ MaxCalls \in Nat

VARIABLES
  init,      \* bInitMover
  relocate,  \* g_bReLocate
  min, max,  \* g_dwMinSec, g_dwMaxSec
  pointer,   \* g_dwRePointer
  set,       \* regions on g_pDataRegionListHead's list, and g_dwNumDataRegionLoaded
  holds,     \* per region: whose table its buffer holds, 0 when it has no buffer
  lru,       \* g_pDataRegionLRUList
  ctl,       \* where the control program is
  copied,    \* groups it has copied
  chunk,     \* what it has read of the next one
  calls,     \* IOCTLs it has sent
  app,       \* the application's request
  made,      \* requests made
  disk,      \* contents of the sectors
  crash,     \* "no", or why the machine stopped
  stored,    \* history: what the application last wrote to each sector
  unsure,    \* history: sectors nothing is claimed of, see the actions
  again,     \* history: IOCTL_RM_BLKMOV_INIT came when regions were set
  spoiled    \* history: a table could not be read, and its region counts as loaded

flags   == <<init, relocate, min, max, pointer>>
cache   == <<set, holds, lru>>
program == <<ctl, copied, chunk, calls>>
claims  == <<stored, unsure, again, spoiled>>
vars    == <<flags, cache, program, app, made, disk, crash, claims>>

Idle == [pc |-> "idle", req |-> [op |-> "read", start |-> 0, n |-> 1, val |-> Old],
         pos |-> 0, node |-> 0, k |-> 0, plain |-> FALSE, ok |-> TRUE, buf |-> <<>>, bad |-> {}]

Of(q)   == q.start .. q.start + q.n - 1
Stop    == app.req.start + app.req.n
Working == app.pc \notin {"idle", "lower", "queued", "done"}   \* the worker serves it

Init ==
  /\ init = FALSE /\ relocate = FALSE /\ min = 0 /\ max = 0 /\ pointer = 0
  /\ set = 0 /\ holds = [r \in Tables |-> 0] /\ lru = <<>>
  /\ ctl = "idle" /\ copied = 0 /\ chunk = <<>> /\ calls = 0
  /\ app = Idle /\ made = 0
  /\ disk = [x \in Sectors |-> <<Old, x>>]
  /\ crash = "no"
  /\ stored = disk /\ unsure = {} /\ again = FALSE /\ spoiled = FALSE

-----------------------------------------------------------------------------
(* IOCTLs that are carried out by the control program's thread.            *)

Call == calls < MaxCalls /\ calls' = calls + 1

\* IOCTL_RM_BLKMOV_INIT creates an empty list whatever is loaded.
RMInit ==
  /\ ctl = "idle" /\ Call
  /\ init' = TRUE /\ lru' = <<>>
  /\ again' = (again \/ set > 0)
  /\ UNCHANGED <<relocate, min, max, pointer, set, holds, ctl, copied, chunk,
                 app, made, disk, crash, stored, unsure, spoiled>>

\* The same with reg_EAX = 0.
RMExit ==
  /\ ctl = "idle" /\ init /\ ~relocate /\ Call
  /\ init' = FALSE
  /\ UNCHANGED <<relocate, min, max, pointer, cache, ctl, copied, chunk,
                 app, made, disk, crash, claims>>

\* Mutant of Full: one region more is kept.
FullOneMore == set > MaxLoaded

\* As many regions have been loaded as may be.
Full == set >= MaxLoaded

\* RMSetGroup.  Without memory for a buffer NULL is read; when the table cannot
\* be read, or there is no memory for the region, nothing changes.
RMSetGroup ==
  /\ ctl = "idle" /\ init /\ ~relocate /\ set < Len(Ends)
  /\ \/ /\ set' = set + 1
        /\ IF Full THEN UNCHANGED <<holds, lru>>
           ELSE holds' = [holds EXCEPT ![set + 1] = set + 1] /\ lru' = Append(lru, set + 1)
        /\ UNCHANGED crash
     \/ MayFail /\ crash' = "memory" /\ UNCHANGED cache
  /\ UNCHANGED <<flags, program, app, made, disk, claims>>

\* Mutant of Enable: the end of the range is taken for its start.
EnableSwapped ==
  /\ ctl = "idle" /\ init /\ ~relocate /\ set = Len(Ends) /\ Call
  /\ min' = MaxSec /\ ctl' = "enmax" /\ copied' = 0
  /\ UNCHANGED <<init, relocate, max, pointer, cache, chunk, app, made, disk, crash, claims>>

\* IOCTL_RM_ENABLE_DISABLE_RELOCATE: the start of the range, its end, the flag ...
Enable ==
  /\ ctl = "idle" /\ init /\ ~relocate /\ set = Len(Ends) /\ Call
  /\ min' = MinSec /\ ctl' = "enmax" /\ copied' = 0
  /\ UNCHANGED <<init, relocate, max, pointer, cache, chunk, app, made, disk, crash, claims>>

EnableMax ==
  /\ ctl = "enmax"
  /\ max' = MaxSec /\ ctl' = "enflag"
  /\ UNCHANGED <<init, relocate, min, pointer, cache, copied, chunk, calls,
                 app, made, disk, crash, claims>>

EnableFlag ==
  /\ ctl = "enflag"
  /\ relocate' = TRUE /\ ctl' = "pointer"
  /\ UNCHANGED <<init, min, max, pointer, cache, copied, chunk, calls,
                 app, made, disk, crash, claims>>

\* ... and then the pointer.
EnablePointer ==
  /\ ctl = "pointer"
  /\ pointer' = 0 /\ ctl' = "idle"
  /\ UNCHANGED <<init, relocate, min, max, cache, copied, chunk, calls,
                 app, made, disk, crash, claims>>

\* The same with reg_EAX = 0: the flag, ...
Disable ==
  /\ ctl = "idle" /\ relocate /\ copied < Len(Groups)
  /\ relocate' = FALSE /\ ctl' = "min" /\ chunk' = <<>>
  /\ UNCHANGED <<init, min, max, pointer, cache, copied, calls, app, made, disk, crash, claims>>

\* ... and the range.  A request that has been found inside it is taken for one
\* after the last copy when nothing was copied: then the pointer is 0 as well.
DisableMin ==
  /\ ctl = "min"
  /\ min' = 0 /\ ctl' = "max"
  /\ UNCHANGED <<init, relocate, max, pointer, cache, copied, chunk, calls,
                 app, made, disk, crash, claims>>

DisableMax ==
  /\ ctl = "max"
  /\ max' = 0 /\ ctl' = "idle"
  /\ app' = IF app.pc = "pointer" /\ pointer = 0 THEN [app EXCEPT !.bad = Of(app.req)] ELSE app
  /\ UNCHANGED <<init, relocate, min, pointer, cache, copied, chunk, calls,
                 made, disk, crash, claims>>

-----------------------------------------------------------------------------
(* IOCTLs that the worker carries out, between two requests.               *)

Next1 == Groups[copied + 1]
Copying == ctl = "idle" /\ relocate /\ copied < Len(Groups) /\ ~Working

\* IOCTL_YG_READ; its status is success in any case, see YgWrite.
YgRead ==
  /\ Copying /\ chunk = <<>>
  /\ chunk' = [i \in 1..Next1.n |-> disk[Next1.s + i - 1]]
  /\ UNCHANGED <<flags, cache, ctl, copied, calls, app, made, disk, crash, claims>>

\* IOCTL_YG_WRITE moves the pointer whether it, or the read, has failed or not.
YgWrite ==
  LET g == Next1
  IN /\ Copying /\ chunk # <<>>
     /\ \/ /\ disk' = [x \in Sectors |-> IF x \in g.t .. g.t + g.n - 1 THEN chunk[x - g.t + 1] ELSE disk[x]]
           /\ UNCHANGED unsure
        \/ MayFail /\ unsure' = unsure \cup Span(g) /\ UNCHANGED disk
     /\ pointer' = g.t + g.n
     /\ copied' = copied + 1 /\ chunk' = <<>>
     /\ UNCHANGED <<init, relocate, min, max, cache, ctl, calls, app, made, crash,
                    stored, again, spoiled>>

-----------------------------------------------------------------------------
(* Requests.  A step sets fields of app: pos is dwCurPos, node and k are    *)
(* the RM_HANDLE, and bad are sectors whose transfer has failed or is       *)
(* missing, which no caller is told of.                                     *)

Data(x) == <<app.req.val, x>>
Writes  == app.req.op = "write"

\* The contents of the disk, and of the buffer of a read, when the sectors xs of
\* the request are transferred, each at its place at(x).
OnDisk(xs, at(_)) ==
  IF Writes THEN [y \in Sectors |-> IF \E x \in xs : at(x) = y
                                   THEN Data(CHOOSE x \in xs : at(x) = y) ELSE disk[y]]
  ELSE disk
InBuf(xs, at(_)) ==
  IF Writes THEN app.buf
  ELSE [x \in xs \cup DOMAIN app.buf |-> IF x \in xs THEN disk[at(x)] ELSE app.buf[x]]
Plain(x) == x

\* Groups whose copy has begun: a write that goes past the worker misses it, and
\* one that is served between the two halves of a copy is overwritten by it.
InChunk == IF chunk = <<>> THEN {} ELSE Span(Next1)
Begun   == IF relocate THEN InChunk \cup UNION {Span(Groups[i]) : i \in 1..copied} ELSE {}

\* The request a ends; missed are sectors of it that a copy may miss.
Finish(a, missed) ==
  /\ app' = [a EXCEPT !.pc = "done"]
  /\ IF Writes
     THEN /\ stored' = [x \in Sectors |-> IF x \in Of(a.req) THEN Data(x) ELSE stored[x]]
          /\ unsure' = unsure \cup a.bad \cup (Of(a.req) \cap missed) \cup (IF a.ok THEN {} ELSE Of(a.req))
     ELSE UNCHANGED <<stored, unsure>>
Goto(a, l) == app' = [a EXCEPT !.pc = l] /\ UNCHANGED <<stored, unsure>>

\* Bound: one transfer of a request fails.
Fails == MayFail /\ app.bad = {}

\* All sectors from pos on, at their own place: the request ends with the status.
Rest(pos, missed) ==
  LET xs == pos .. Stop - 1
  IN \/ /\ disk' = OnDisk(xs, Plain)
        /\ Finish([app EXCEPT !.buf = InBuf(xs, Plain)], missed)
     \/ Fails /\ Finish([app EXCEPT !.ok = FALSE], {}) /\ UNCHANGED disk

\* BlkMovReadWrite
Submit(q) ==
  /\ app.pc = "idle" /\ made < MaxRequests
  /\ made' = made + 1
  /\ app' = [Idle EXCEPT !.pc = IF relocate /\ init THEN "queued" ELSE "lower", !.req = q]
  /\ UNCHANGED <<flags, cache, program, disk, crash, claims>>

\* The driver below carries out what was passed down.
Lower ==
  /\ app.pc = "lower"
  /\ Rest(app.req.start, Begun)
  /\ UNCHANGED <<flags, cache, program, made, crash, again, spoiled>>

\* The caller looks at the answer.
Answer ==
  /\ app.pc = "done" /\ app' = Idle
  /\ UNCHANGED <<flags, cache, program, made, disk, crash, claims>>

\* BlkMoverRelocateReadWrite: when relocation was disabled nothing is done.
Check ==
  /\ app.pc = "queued"
  /\ app' = [app EXCEPT !.pc = IF relocate THEN "range" ELSE "done", !.ok = relocate]
  /\ UNCHANGED <<flags, cache, program, made, disk, crash, claims>>

\* DoReLocate: the range ...
RangeTest ==
  /\ app.pc = "range"
  /\ IF Stop <= min \/ app.req.start >= max THEN Rest(app.req.start, {})
     ELSE Goto(app, "pointer") /\ UNCHANGED disk
  /\ UNCHANGED <<flags, cache, program, made, crash, again, spoiled>>

\* Mutant of PointerTest: while sectors are copied a write has one place.
PointerTestOnce ==
  /\ app.pc = "pointer"
  /\ IF pointer = max THEN Goto([app EXCEPT !.pos = app.req.start], "first") /\ UNCHANGED disk
     ELSE Rest(app.req.start, InChunk)
  /\ UNCHANGED <<flags, cache, program, made, crash, again, spoiled>>

\* ... and the pointer: after the last copy a request is mapped, before it goes
\* to its own place, and a write, whatever becomes of it there, to both.
PointerTest ==
  LET xs == Of(app.req)
      a  == [app EXCEPT !.pos = app.req.start, !.plain = pointer # max]
  IN /\ app.pc = "pointer"
     /\ IF pointer = max THEN Goto(a, "first") /\ UNCHANGED disk
        ELSE IF ~Writes THEN Rest(app.req.start, {})
        ELSE \/ disk' = OnDisk(xs, Plain) /\ Goto(a, "first")
             \/ MayFail /\ Goto([a EXCEPT !.bad = xs], "first") /\ UNCHANGED disk
     /\ UNCHANGED <<flags, cache, program, made, crash, again, spoiled>>

\* The first region behind r that ends behind pos.
RegionsFrom(r, pos) == {q \in 1..set : r < q /\ pos < End(q)}
FirstOf(rs) == CHOOSE q \in rs : \A p \in rs : q <= p

\* Mutant of Reuse: the region is not put on the list.
ReuseForgets(r, table) ==
  /\ holds' = [holds EXCEPT ![Head(lru)] = 0, ![r] = table]
  /\ lru' = Tail(lru)

\* The buffer of the region that was loaded first goes to region r.
Reuse(r, table) ==
  /\ holds' = [holds EXCEPT ![Head(lru)] = 0, ![r] = table]
  /\ lru' = Append(Tail(lru), r)

\* Region r is made the current one; ok says whether its table could be read, if
\* it had to be: if not the buffer still has the other region's.
Load(r, ok) ==
  IF holds[r] # 0 THEN ok /\ UNCHANGED <<holds, lru, spoiled>>
  ELSE /\ lru # <<>>
       /\ Reuse(r, IF ok THEN r ELSE holds[Head(lru)])
       /\ spoiled' = (spoiled \/ ~ok)
NoBuffer(r) == holds[r] = 0 /\ lru = <<>>

\* SearchGroups and GetFirstSecsGroup; behind the last region nothing is done.
FirstGroup ==
  LET rs == RegionsFrom(0, app.pos)
      r  == FirstOf(rs)
      a  == [app EXCEPT !.node = r, !.k = 1]
  IN /\ app.pc = "first"
     /\ IF rs = {}
        THEN /\ Finish([app EXCEPT !.bad = IF app.plain THEN @ ELSE Of(app.req)], InChunk)
             /\ UNCHANGED <<holds, lru, spoiled, crash>>
        ELSE IF NoBuffer(r)
        THEN crash' = "null" /\ UNCHANGED <<holds, lru, spoiled, app, stored, unsure>>
        ELSE /\ UNCHANGED crash
             /\ \/ Load(r, TRUE) /\ Goto(a, "group")
                \/ Fails /\ Load(r, FALSE) /\ Finish([a EXCEPT !.ok = FALSE], {})
     /\ UNCHANGED <<flags, set, program, made, disk, again>>

\* Mutant of Entry: the first entry is used.
EntryFirst == Regions[holds[app.node]][1]

\* The current entry; behind a table that is not its own region's there is none.
Entry == LET g == Regions[holds[app.node]] IN IF app.k \in DOMAIN g THEN g[app.k] ELSE NoGroup

Least(a, b) == IF a <= b THEN a ELSE b

\* The part in front of the group, whose failure is forgotten when something
\* follows it, and the part inside the group, whose failure ends the request.
Group ==
  LET g     == Entry
      front == app.pos .. Least(Stop, g.s) - 1
      cur   == IF front = {} THEN app.pos ELSE Least(Stop, g.s)
      part  == IF cur \in Span(g) THEN cur .. Least(Stop, g.s + g.n) - 1 ELSE {}
      pos   == IF part = {} THEN cur ELSE Least(Stop, g.s + g.n)
      At(x) == IF x \in part THEN Target(g, x) ELSE x
      Go(lost) ==
        LET xs == (front \cup part) \ lost
            a  == [app EXCEPT !.pos = pos, !.buf = InBuf(xs, At), !.bad = @ \cup lost,
                              !.ok = lost = {} \/ (lost = front /\ (part # {} \/ pos < Stop))]
        IN /\ disk' = OnDisk(xs, At)
           /\ IF pos < Stop /\ a.ok THEN Goto(a, "next") ELSE Finish(a, InChunk)
  IN /\ app.pc = "group"
     /\ \/ Go({}) \/ (Fails /\ (Go(front) \/ Go(part)))
     /\ UNCHANGED <<flags, cache, program, made, crash, again, spoiled>>

\* GetNextSecsGroup; without one, or when its table cannot be read, the rest of
\* the request is taken to be unmapped.
NextGroup ==
  LET rs == RegionsFrom(app.node, app.pos)
      r  == FirstOf(rs)
      a  == [app EXCEPT !.node = r, !.k = 1]
  IN /\ app.pc = "next"
     /\ IF app.k < Len(Regions[app.node])
        THEN Goto([app EXCEPT !.k = @ + 1], "group") /\ UNCHANGED <<holds, lru, spoiled, crash>>
        ELSE IF rs = {} THEN Goto(app, "final") /\ UNCHANGED <<holds, lru, spoiled, crash>>
        ELSE IF NoBuffer(r)
        THEN crash' = "null" /\ UNCHANGED <<holds, lru, spoiled, app, stored, unsure>>
        ELSE /\ UNCHANGED crash
             /\ \/ Load(r, TRUE) /\ Goto(a, "group")
                \/ Fails /\ Load(r, FALSE) /\ Goto(a, "final")
     /\ UNCHANGED <<flags, set, program, made, disk, again>>

Final ==
  /\ app.pc = "final"
  /\ Rest(app.pos, InChunk)
  /\ UNCHANGED <<flags, cache, program, made, crash, again, spoiled>>

Worker  == Check \/ RangeTest \/ PointerTest \/ FirstGroup \/ Group \/ NextGroup \/ Final
Control == RMInit \/ RMExit \/ RMSetGroup \/ Enable \/ EnableMax \/ EnableFlag
             \/ EnablePointer \/ Disable \/ DisableMin \/ DisableMax \/ YgRead \/ YgWrite

Next ==
  /\ crash = "no"   \* the machine does not survive it
  /\ \/ Worker \/ Lower \/ Answer \/ Control
     \/ \E q \in Requests : Submit(q)

Spec == Init /\ [][Next]_vars

-----------------------------------------------------------------------------
\* Every variable has its type, and there are never more buffers than may be.
TypeOK ==
  /\ init \in BOOLEAN /\ relocate \in BOOLEAN
  /\ min \in {0, MinSec} /\ max \in {0, MaxSec} /\ pointer \in 0..MaxSec
  /\ set \in 0..Len(Ends) /\ holds \in [Tables -> 0..Len(Ends)] /\ lru \in Seq(Tables)
  /\ ctl \in {"idle", "enmax", "enflag", "pointer", "min", "max"} /\ copied \in 0..Len(Groups)
  /\ app.pc \in {"idle", "lower", "queued", "range", "pointer", "first", "group", "next", "final", "done"}
  /\ app.ok \in BOOLEAN /\ app.bad \subseteq Sectors
  /\ disk \in [Sectors -> Values \X Sectors] /\ stored \in [Sectors -> Values \X Sectors]
  /\ unsure \subseteq Sectors

Loaded == {r \in Tables : holds[r] # 0}

\* No more than MaxLoaded regions have a buffer, each has its own table in it,
\* and the list names each of them once, so that there is one to reuse; the last
\* holds until the driver is initialised again (RMSetGroup, GetFirstSecsGroup).
CacheSound ==
  /\ Cardinality(Loaded) <= MaxLoaded /\ Loaded \subseteq 1..set
  /\ spoiled \/ \A r \in Loaded : holds[r] = r
  /\ again \/ (ToSet(lru) = Loaded /\ Len(lru) = Cardinality(Loaded))

\* The worker finds no buffer to reuse only after IOCTL_RM_BLKMOV_INIT has come
\* again and thrown the list away.
CrashNeedsSecondInit == crash = "null" => again

\* Where a sector is now.
Where(x) ==
  IF relocate /\ pointer = max /\ \E g \in ToSet(Groups) : x \in Span(g)
  THEN Target(CHOOSE g \in ToSet(Groups) : x \in Span(g), x) ELSE x

InFlight == IF Writes /\ app.pc \notin {"idle", "done"} THEN Of(app.req) ELSE {}

\* Every sector's current place holds what was last written to it, at every
\* moment of the copying and after it.  Excused are transfers that fail or do not
\* happen without the caller being told, writes that were dispatched before
\* relocation was enabled or come between the halves of one copy, and tables
\* that cannot be read.
KeepsContent ==
  ~spoiled => \A x \in 0 .. Groups[1].t - 1 \ (unsure \cup InFlight) : disk[Where(x)] = stored[x]

\* A read that is reported as done returns what was last written, with the
\* same exceptions.
ReadsBack ==
  (app.pc = "done" /\ ~Writes /\ app.ok /\ ~spoiled) =>
    \A x \in Of(app.req) \ (unsure \cup app.bad) : x \in DOMAIN app.buf /\ app.buf[x] = stored[x]

=============================================================================
