---------------------------- MODULE BlkMoverMap ----------------------------
(***************************************************************************)
(* The address arithmetic of the block mover: which sectors of the disk    *)
(* carry the sectors of a request while groups of sectors are being moved. *)
(* A result is a sequence of transfers in the order the driver issues them;*)
(* [lba, at, len] moves len sectors between the disk from lba on and the   *)
(* request's buffer from sector at on.                                     *)
(*                                                                         *)
(* The mover's inputs are                                                  *)
(*   w    the group being moved, g_MovingGroup with num = g_dwMovedRecNum  *)
(*   sys  the table of system groups,  records [s, size, t]                *)
(*   data the table of data groups,    records [s, size, front, t, orig]   *)
(*   g    the array g_FinalGroup, which survives from call to call         *)
(***************************************************************************)
EXTENDS Integers, Sequences, FiniteSetsExt

CONSTANTS
  Slots,         \* entries of g_FinalGroup
  ChunkRecords,  \* records in one read of a table: ARRY_SIZE * BUFFER_OF_PAGES
  ChunkPages     \* BUFFER_OF_PAGES

ASSUME MapAssumption ==
  /\ Slots \in Nat \ {0} /\ ChunkRecords \in Nat \ {0} /\ ChunkPages \in Nat \ {0}

\* Intervals [a, a+n) and [b, b+m) have a sector in common.
Meets(a, n, b, m) == a < b + m /\ b < a + n

Span(a, n) == a .. a + n - 1

NoGroup  == [num |-> 0, front |-> FALSE, s |-> 0, t |-> 0, size |-> 0, done |-> 0]
FreeSlot == [orig |-> 0, size |-> 0, final |-> 0]

\* A search sees record k of a table if it counts it among the first num: it
\* numbers the first record of the chunk at page i as i times the records of a chunk.
Seen(k, num) == ((k - 1) % ChunkRecords) + ((k - 1) \div ChunkRecords) * ChunkPages * ChunkRecords < num

\* Sectors lo up to hi, found shift away; off takes a sector to its place in the buffer.
Piece(lo, hi, off, shift) ==
  IF lo < hi THEN <<[lba |-> lo + shift, at |-> lo + off, len |-> hi - lo]>> ELSE <<>>

\* Mutant of MovedWindow: the window grows from the wrong end.
MovedWindowSwapped(w) ==
  LET from == IF w.front THEN w.t + w.size - w.done ELSE w.t
  IN [from |-> from, to |-> from + w.size]

\* The part of the target taken as moved: it is as long as the whole group.
MovedWindow(w) ==
  LET from == IF w.front THEN w.t ELSE w.t + w.size - w.done
  IN [from |-> from, to |-> from + w.size]

\* Target sectors x up to x+n, of which the ones not moved are still at their source.
MovedGroup(w, x, n, at) ==
  LET Part(lo, hi, shift) == Piece(lo, hi, at - x, shift)
      Around(m, end) ==
        Part(x, Min({end, m.from}), w.s - w.t)
          \o Part(Max({x, m.from}), Min({end, m.to}), 0)
          \o Part(Max({x, m.to}), end, w.s - w.t)
  IN IF w.num # 0 /\ Meets(x, n, w.t, w.size) THEN Around(MovedWindow(w), x + n) ELSE Part(x, x + n, 0)

\* The first of n entries that is not before group f.
PlaceOf(g, n, f) == Min({k \in 1..n : g[k].orig >= f.orig} \cup {n + 1})

\* f put at place i in front of the rest of n entries.
Insert(g, n, i, f) ==
  [k \in DOMAIN g |-> IF k = i THEN f ELSE IF i < k /\ k <= n + 1 THEN g[k-1] ELSE g[k]]

\* Mutant of AddToFinalGroup: an entry for the same sectors is left as it is.
AddToFinalGroupFirstWins(g, n, f) ==
  LET Put(i) == IF i <= n /\ g[i].orig = f.orig THEN g ELSE Insert(g, n, i, f)
  IN Put(PlaceOf(g, n, f))

\* That entry takes f's final address if it starts at the same sector, or makes
\* room for f; nothing bounds n.
AddToFinalGroup(g, n, f) ==
  LET Put(i) == IF i <= n /\ g[i].orig = f.orig THEN [g EXCEPT ![i].final = f.final]
                                               ELSE Insert(g, n, i, f)
  IN Put(PlaceOf(g, n, f))

\* The data groups recorded so far that meet the request, sorted into g: what is
\* there after the first k records.
Collecting(w, data, g, x, n) ==
  LET Hit(k)    == Seen(k, w.num) /\ Meets(x, n, data[k].orig, data[k].size)
      Add(a, r) == [g |-> AddToFinalGroup(a.g, a.n, [orig |-> r.orig, size |-> r.size, final |-> r.t]),
                    n |-> a.n + 1]
      after[k \in 0..Len(data)] ==
        IF k = 0 THEN [g |-> g, n |-> 0]
        ELSE IF Hit(k) THEN Add(after[k-1], data[k]) ELSE after[k-1]
  IN after

Collect(w, data, g, x, n) == Collecting(w, data, g, x, n)[Len(data)]

\* From sector gap to the end of the group [s, s+size), or of the request.
Until(gap, end, s, size) == IF gap \in Span(s, size) THEN Min({end, s + size}) ELSE gap

\* Sectors lo up to hi of a request that are at shift now, or being moved from there;
\* off takes a sector to its place in the buffer.
Move(w, lo, hi, off, shift) == IF lo < hi THEN MovedGroup(w, lo + shift, hi - lo, lo + off) ELSE <<>>

\* Sectors x up to end of a request cut at the first k of the collected groups:
\* what is before a group stays where it was, what is in it is at the group's
\* final address.
Cutting(w, g, m, x, end, off) ==
  LET Cut(a, f, gap, stop) ==
        [cur |-> stop,
         out |-> a.out \o Move(w, a.cur, gap, off, 0) \o Move(w, gap, stop, off, f.final - f.orig)]
      CutAt(a, f, gap) == Cut(a, f, gap, Until(gap, end, f.orig, f.size))
      Step(a, f) == CutAt(a, f, Max({a.cur, Min({end, f.orig})}))
      after[k \in 0..m] == IF k = 0 THEN [cur |-> x, out |-> <<>>] ELSE Step(after[k-1], g[k])
  IN after

SearchFromGroup(w, data, g, x, end, off) ==
  LET Rest(a)     == a.out \o Move(w, a.cur, end, off, 0)
      Among(hits) == [g |-> hits.g, out |-> Rest(Cutting(w, hits.g, hits.n, x, end, off)[hits.n])]
  IN Among(Collect(w, data, g, x, end - x))

\* What the search leaves for sector cur when it has gone through all of the rest
\* of the request, though it goes on from sector cur.
ToEnd(w, data, a, end, off, cur) ==
  LET Rest(found) == [cur |-> cur, g |-> found.g, out |-> a.out \o found.out]
  IN Rest(SearchFromGroup(w, data, a.g, a.cur, end, off))

\* The request cut at the first k system groups.  In front of a group the whole rest
\* of the request is searched among the data groups, not only what is before it.
\* A request that ends in one chunk of the table is over: the code still makes
\* transfers of no sectors for the later chunks, which are left out.
Walking(w, sys, data, g, x, n) ==
  LET end == x + n
      In(a, r, stop) == [a EXCEPT !.cur = stop, !.out = @ \o Piece(a.cur, stop, -x, r.t - r.s)]
      AtGroup(a, r)  == In(a, r, Until(a.cur, end, r.s, r.size))
      Step(a, r) == IF a.cur = end THEN a
                    ELSE AtGroup(IF a.cur < r.s THEN ToEnd(w, data, a, end, -x, Min({end, r.s})) ELSE a, r)
      after[k \in 0..Len(sys)] ==
        IF k = 0 THEN [cur |-> x, g |-> g, out |-> <<>>]
        ELSE IF Seen(k, Len(sys)) THEN Step(after[k-1], sys[k]) ELSE after[k-1]
  IN after

SearchFromSysGroup(w, sys, data, g, x, n) ==
  LET Complete(a) == IF a.cur < x + n THEN ToEnd(w, data, a, x + n, -x, x + n) ELSE a
  IN Complete(Walking(w, sys, data, g, x, n)[Len(sys)])

\* A request that names a sector of the free space list is turned away.
IsRWToFreeSpace(free, x, n) == \E f \in free : Meets(x, n, f.start, f.size)

-----------------------------------------------------------------------------
(* What the transfers do to a disk d and to a buffer b.                    *)

\* They are made one after the other, so that the last one of a sector decides.
LastOf(out, k) == out[Max(k)]

Reading(d, n, out) ==
  LET With(i) == {k \in DOMAIN out : i \in Span(out[k].at, out[k].len)}
      Got(i, p) == d[p.lba + i - p.at]
  IN [i \in 0..n-1 |-> IF With(i) = {} THEN 0 ELSE Got(i, LastOf(out, With(i)))]

Writing(d, b, out) ==
  LET At(y) == {k \in DOMAIN out : y \in Span(out[k].lba, out[k].len)}
      Put(y, p) == b[p.at + y - p.lba]
  IN [y \in DOMAIN d |-> IF At(y) = {} THEN d[y] ELSE Put(y, LastOf(out, At(y)))]

=============================================================================
