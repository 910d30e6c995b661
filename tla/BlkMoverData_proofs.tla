------------------------ MODULE BlkMoverData_proofs ------------------------
(* Theorems about BlkMoverData, for any disk, tables, groups and requests. *)
EXTENDS BlkMoverData, FiniteSetTheorems, WellFoundedInduction, TLAPS

-----------------------------------------------------------------------------
(* Numbers.                                                                *)

Less == {p \in Nat \X Nat : p[1] < p[2]}

\* A number below n counts within n numbers from wherever they begin.
LEMMA Shifted ==
  ASSUME NEW s \in Int, NEW n \in Int, NEW i \in 0..n-1
  PROVE  s + i \in Int /\ s + i \in s..s+n-1
OBVIOUS

LEMMA Unshifted ==
  ASSUME NEW s \in Int, NEW n \in Int, NEW x \in s..s+n-1
  PROVE  x - s \in Int /\ x - s \in 0..n-1 /\ s + (x - s) = x
OBVIOUS

\* Intervals that have a number in common meet.
LEMMA MeetAt ==
  ASSUME NEW a \in Int, NEW n \in Int, NEW b \in Int, NEW m \in Int, NEW z \in Span(a, n), z \in Span(b, m)
  PROVE  Meets(a, n, b, m)
BY DEF Meets, Span

\* A set of numbers has a least one.
LEMMA Smallest ==
  ASSUME NEW T, T \subseteq Nat, T # {}
  PROVE  \E x \in T : \A y \in T : x <= y
<1>1. IsWellFoundedOn(Less, Nat)
  BY NatLessThanWellFounded DEF OpToRel, Less, IsWellFoundedOn
<1>2. PICK x \in T : \A y \in T : ~(<<y, x>> \in Less)
  BY <1>1, WFMin
<1>3. x \in Nat /\ \A y \in Nat : y < x => <<y, x>> \in Less
  BY DEF Less
<1>4. ASSUME NEW y \in T PROVE x <= y
  <2>1. y \in Nat /\ ~(y < x)
    BY <1>2, <1>3
  <2> QED BY <1>3, <2>1
<1> QED BY <1>4

\* A set of numbers with a bound has a greatest one.
LEMMA Largest ==
  ASSUME NEW n \in Nat, NEW T, T \subseteq 0..n, T # {}
  PROVE  Max(T) \in T /\ \A y \in T : y <= Max(T)
<1> DEFINE U == {b \in Nat : \A y \in T : y <= b}
<1>1. n \in U /\ U \subseteq Nat
  OBVIOUS
<1>2. PICK b \in U : \A c \in U : b <= c
  BY <1>1, Smallest
<1>3. b \in T
  <2>1. SUFFICES ASSUME b \notin T PROVE FALSE
    OBVIOUS
  <2>2. \A y \in T : y \in Nat /\ y < b
    <3>1. ASSUME NEW y \in T PROVE y \in Nat /\ y < b
      <4>1. y \in Nat /\ b \in Nat /\ y <= b /\ y # b
        BY <1>2, <2>1
      <4> QED BY <4>1
    <3> QED BY <3>1
  <2>3. b > 0 /\ b \in Nat
    <3>1. PICK y \in T : TRUE
      OBVIOUS
    <3> QED BY <1>2, <2>2, <3>1
  <2>4. b - 1 \in U
    BY <1>2, <2>2, <2>3
  <2> QED BY <1>2, <2>4
<1>4. \A y \in T : b >= y
  BY <1>2
<1>5. Max(T) \in T /\ \A y \in T : Max(T) >= y
  BY <1>3, <1>4 DEF Max
<1> QED BY <1>5

\* What holds at 0, and of a number's successor with it, holds of all numbers.
LEMMA Numbers ==
  ASSUME NEW T, 0 \in T, \A k \in Nat : k \in T => k + 1 \in T
  PROVE  Nat \subseteq T
<1>1. SUFFICES ASSUME Nat \ T # {} PROVE FALSE
  OBVIOUS
<1>2. PICK x \in Nat \ T : \A y \in Nat \ T : x <= y
  BY <1>1, Smallest
<1>3. x - 1 \in Nat /\ x - 1 \notin Nat \ T
  BY <1>2
<1> QED BY <1>2, <1>3

\* The lesser and the greater of two numbers.
LEMMA TwoNumbers ==
  ASSUME NEW a \in Int, NEW b \in Int
  PROVE  /\ Min({a, b}) = IF a <= b THEN a ELSE b
         /\ Max({a, b}) = IF a <= b THEN b ELSE a
<1> DEFINE l == IF a <= b THEN a ELSE b
           h == IF a <= b THEN b ELSE a
<1>1. /\ l \in {a, b} /\ \A y \in {a, b} : l <= y
      /\ h \in {a, b} /\ \A y \in {a, b} : h >= y
  OBVIOUS
<1>2. \A x \in {a, b} : (\A y \in {a, b} : x <= y) => x = l
  OBVIOUS
<1>3. \A x \in {a, b} : (\A y \in {a, b} : x >= y) => x = h
  OBVIOUS
<1>4. Min({a, b}) \in {a, b} /\ \A y \in {a, b} : Min({a, b}) <= y
  BY <1>1 DEF Min
<1>5. Max({a, b}) \in {a, b} /\ \A y \in {a, b} : Max({a, b}) >= y
  BY <1>1 DEF Max
<1> QED BY <1>2, <1>3, <1>4, <1>5

LEMMA Ordered ==
  ASSUME NEW a \in Int, NEW b \in Int, a <= b
  PROVE  Min({a, b}) = a /\ Min({b, a}) = a /\ Max({a, b}) = b /\ Max({b, a}) = b
<1>1. Min({a, b}) = a /\ Max({a, b}) = b
  BY TwoNumbers
<1>2. {b, a} = {a, b}
  OBVIOUS
<1> QED BY <1>1, <1>2

-----------------------------------------------------------------------------
(* Transfers.                                                              *)

Transfer == [lba : Int, at : Int, len : Nat \ {0}]

\* Transfers within sectors lo up to hi of a buffer.
Bounded(out, lo, hi) ==
  out \in Seq(Transfer) /\ \A k \in DOMAIN out : lo <= out[k].at /\ out[k].at + out[k].len <= hi

\* Where transfer p puts or takes sector i of the buffer.
At(p, i) == p.lba + i - p.at

\* All of sectors lo up to hi of a buffer, each at its place.
Exactly(out, lo, hi, place) ==
  /\ Bounded(out, lo, hi)
  /\ \A k \in DOMAIN out : \A i \in Span(out[k].at, out[k].len) : At(out[k], i) = place[i]
  /\ \A i \in lo..hi-1 : \E k \in DOMAIN out : i \in Span(out[k].at, out[k].len)

LEMMA Elements ==
  ASSUME NEW T, NEW u \in Seq(T)
  PROVE  Len(u) \in Nat /\ DOMAIN u = 1..Len(u) /\ \A k \in DOMAIN u : u[k] \in T
  OBVIOUS

LEMMA Concat ==
  ASSUME NEW T, NEW s \in Seq(T), NEW u \in Seq(T)
  PROVE  /\ s \o u \in Seq(T)
         /\ \A k \in DOMAIN s : k \in DOMAIN (s \o u) /\ (s \o u)[k] = s[k]
         /\ \A k \in DOMAIN u : Len(s) + k \in DOMAIN (s \o u) /\ (s \o u)[Len(s) + k] = u[k]
         /\ \A k \in DOMAIN (s \o u) :
              \/ k \in DOMAIN s
              \/ k - Len(s) \in DOMAIN u /\ (s \o u)[k] = u[k - Len(s)]
<1>1. /\ s \o u \in Seq(T) /\ Len(s) \in Nat /\ Len(u) \in Nat /\ Len(s \o u) = Len(s) + Len(u)
      /\ DOMAIN s = 1..Len(s) /\ DOMAIN u = 1..Len(u) /\ DOMAIN (s \o u) = 1..Len(s \o u)
  OBVIOUS
<1>2. \A k \in 1..Len(s) + Len(u) : (s \o u)[k] = IF k <= Len(s) THEN s[k] ELSE u[k - Len(s)]
  OBVIOUS
<1>3. ASSUME NEW k \in DOMAIN s PROVE k \in DOMAIN (s \o u) /\ (s \o u)[k] = s[k]
  BY <1>1, <1>2, <1>3
<1>4. ASSUME NEW k \in DOMAIN u PROVE Len(s) + k \in DOMAIN (s \o u) /\ (s \o u)[Len(s) + k] = u[k]
  <2>1. k \in Nat /\ 1 <= k /\ k <= Len(u)
    BY <1>1, <1>4
  <2>2. Len(s) + k \in 1..Len(s) + Len(u) /\ ~(Len(s) + k <= Len(s)) /\ Len(s) + k - Len(s) = k
    BY <1>1, <2>1
  <2> QED BY <1>1, <1>2, <2>2
<1>5. ASSUME NEW k \in DOMAIN (s \o u)
      PROVE  \/ k \in DOMAIN s
             \/ k - Len(s) \in DOMAIN u /\ (s \o u)[k] = u[k - Len(s)]
  <2>1. k \in 1..Len(s) + Len(u)
    BY <1>1, <1>5
  <2>2. CASE k <= Len(s)
    BY <1>1, <2>1, <2>2
  <2>3. CASE ~(k <= Len(s))
    BY <1>1, <1>2, <2>1, <2>3
  <2> QED BY <2>2, <2>3
<1> QED BY <1>1, <1>3, <1>4, <1>5

LEMMA BoundedConcat ==
  ASSUME NEW lo \in Int, NEW hi \in Int, NEW s, Bounded(s, lo, hi), NEW u, Bounded(u, lo, hi)
  PROVE  Bounded(s \o u, lo, hi)
<1>1. s \in Seq(Transfer) /\ u \in Seq(Transfer)
  BY DEF Bounded
<1>2. SUFFICES ASSUME NEW k \in DOMAIN (s \o u)
               PROVE  lo <= (s \o u)[k].at /\ (s \o u)[k].at + (s \o u)[k].len <= hi
  BY <1>1, Concat DEF Bounded
<1>3. CASE k \in DOMAIN s
  BY <1>1, <1>3, Concat DEF Bounded
<1>4. CASE k - Len(s) \in DOMAIN u /\ (s \o u)[k] = u[k - Len(s)]
  BY <1>4 DEF Bounded
<1> QED BY <1>1, <1>3, <1>4, Concat

LEMMA BoundedMore ==
  ASSUME NEW lo \in Int, NEW hi \in Int, NEW s, Bounded(s, lo, hi),
         NEW l \in Int, NEW h \in Int, l <= lo, hi <= h
  PROVE  Bounded(s, l, h)
<1>1. s \in Seq(Transfer)
  BY DEF Bounded
<1>2. SUFFICES ASSUME NEW k \in DOMAIN s PROVE l <= s[k].at /\ s[k].at + s[k].len <= h
  BY <1>1 DEF Bounded
<1>3. s[k] \in Transfer
  BY <1>1
<1>4. lo <= s[k].at /\ s[k].at + s[k].len <= hi
  BY DEF Bounded
<1> QED BY <1>3, <1>4 DEF Transfer

LEMMA ExactlyNothing ==
  ASSUME NEW lo \in Int, NEW hi \in Int, hi <= lo, NEW place
  PROVE  Exactly(<<>>, lo, hi, place)
  BY DEF Exactly, Bounded

LEMMA ExactlyBoth ==
  ASSUME NEW lo \in Int, NEW mid \in Int, NEW hi \in Int, lo <= mid, mid <= hi, NEW place,
         NEW s, Exactly(s, lo, mid, place), NEW u, Exactly(u, mid, hi, place)
  PROVE  Exactly(s \o u, lo, hi, place)
<1>1. s \in Seq(Transfer) /\ u \in Seq(Transfer) /\ Bounded(s, lo, mid) /\ Bounded(u, mid, hi)
  BY DEF Exactly, Bounded
<1>2. Bounded(s \o u, lo, hi)
  <2>1. Bounded(s, lo, hi) /\ Bounded(u, lo, hi)
    BY <1>1, BoundedMore
  <2> QED BY <2>1, BoundedConcat
<1>3. ASSUME NEW k \in DOMAIN (s \o u), NEW i \in Span((s \o u)[k].at, (s \o u)[k].len)
      PROVE  At((s \o u)[k], i) = place[i]
  <2>1. CASE k \in DOMAIN s
    <3>1. (s \o u)[k] = s[k]
      BY <1>1, <2>1, Concat
    <3> QED BY <1>3, <2>1, <3>1 DEF Exactly
  <2>2. CASE k - Len(s) \in DOMAIN u /\ (s \o u)[k] = u[k - Len(s)]
    BY <1>3, <2>2 DEF Exactly
  <2> QED BY <1>1, <2>1, <2>2, Concat
<1>4. ASSUME NEW i \in lo..hi-1
      PROVE  \E k \in DOMAIN (s \o u) : i \in Span((s \o u)[k].at, (s \o u)[k].len)
  <2>1. CASE i \in lo..mid-1
    <3>1. PICK k \in DOMAIN s : i \in Span(s[k].at, s[k].len)
      BY <2>1 DEF Exactly
    <3>2. k \in DOMAIN (s \o u) /\ (s \o u)[k] = s[k]
      BY <1>1, Concat
    <3> QED BY <3>1, <3>2
  <2>2. CASE i \in mid..hi-1
    <3>1. PICK k \in DOMAIN u : i \in Span(u[k].at, u[k].len)
      BY <2>2 DEF Exactly
    <3>2. Len(s) + k \in DOMAIN (s \o u) /\ (s \o u)[Len(s) + k] = u[k]
      BY <1>1, Concat
    <3> QED BY <3>1, <3>2
  <2> QED BY <2>1, <2>2
<1> QED BY <1>2, <1>3, <1>4 DEF Exactly

LEMMA PieceBounded ==
  ASSUME NEW lo \in Int, NEW hi \in Int, NEW off \in Int, NEW shift \in Int, NEW a \in Int, NEW b \in Int,
         lo < hi => a <= lo + off /\ hi + off <= b
  PROVE  Bounded(Piece(lo, hi, off, shift), a, b)
<1>1. CASE lo < hi
  <2> DEFINE p == [lba |-> lo + shift, at |-> lo + off, len |-> hi - lo]
  <2>1. Piece(lo, hi, off, shift) = <<p>>
    BY <1>1 DEF Piece
  <2>2. p \in Transfer /\ p.at = lo + off /\ p.len = hi - lo
    BY <1>1 DEF Transfer
  <2> HIDE DEF p
  <2>3. <<p>> \in Seq(Transfer) /\ DOMAIN <<p>> = {1} /\ <<p>>[1] = p
    BY <2>2
  <2> QED BY <1>1, <2>1, <2>2, <2>3 DEF Bounded
<1>2. CASE ~(lo < hi)
  BY <1>2 DEF Piece, Bounded
<1> QED BY <1>1, <1>2

LEMMA PieceExactly ==
  ASSUME NEW lo \in Int, NEW hi \in Int, NEW off \in Int, NEW shift \in Int, NEW place,
         \A y \in lo..hi-1 : place[y + off] = y + shift
  PROVE  Exactly(Piece(lo, hi, off, shift), lo + off, hi + off, place)
<1>1. CASE lo < hi
  <2> DEFINE p == [lba |-> lo + shift, at |-> lo + off, len |-> hi - lo]
  <2>1. Piece(lo, hi, off, shift) = <<p>>
    BY <1>1 DEF Piece
  <2>2. p.lba = lo + shift /\ p.at = lo + off /\ p.len = hi - lo
    OBVIOUS
  <2>3. Bounded(<<p>>, lo + off, hi + off)
    <3>1. Bounded(Piece(lo, hi, off, shift), lo + off, hi + off)
      BY PieceBounded
    <3> QED BY <2>1, <3>1
  <2> HIDE DEF p
  <2>4. DOMAIN <<p>> = {1} /\ <<p>>[1] = p
    OBVIOUS
  <2>5. ASSUME NEW i \in Span(p.at, p.len) PROVE At(p, i) = place[i]
    <3>1. i - off \in lo..hi-1 /\ i \in Int
      BY <1>1, <2>2 DEF Span
    <3>2. PICK y \in lo..hi-1 : y = i - off
      BY <3>1
    <3>3. place[y + off] = y + shift
      OBVIOUS
    <3>5. y + off = i
      BY <3>1, <3>2
    <3>4. p.lba + i - p.at = y + shift
      BY <2>2, <3>1, <3>2
    <3> QED BY <3>3, <3>4, <3>5 DEF At
  <2>6. \A i \in lo+off..hi+off-1 : i \in Span(p.at, p.len)
    BY <2>2 DEF Span
  <2> QED BY <2>1, <2>3, <2>4, <2>5, <2>6 DEF Exactly
<1>2. CASE ~(lo < hi)
  BY <1>2, ExactlyNothing DEF Piece
<1> QED BY <1>1, <1>2

LEMMA PieceInPlace ==
  ASSUME NEW lo \in Int, NEW hi \in Int, NEW off \in Int, NEW place,
         \A y \in lo..hi-1 : place[y + off] = y
  PROVE  Exactly(Piece(lo, hi, off, 0), lo + off, hi + off, place)
<1>1. \A y \in lo..hi-1 : y + 0 = y
  OBVIOUS
<1>2. PICK zero \in Int : zero = 0
  OBVIOUS
<1>3. \A y \in lo..hi-1 : place[y + off] = y + zero
  BY <1>2
<1>4. Exactly(Piece(lo, hi, off, zero), lo + off, hi + off, place)
  BY <1>3, PieceExactly
<1> QED BY <1>2, <1>4

\* What the group being moved is made of.
WindowType ==
  /\ w.s \in Int /\ w.t \in Int /\ w.size \in Nat /\ w.done \in 0..w.size
  /\ w.num = 0 <=> w.size = 0

\* Where the transfers find what belongs at sector z.
Placed(z) ==
  IF z \in Span(w.t, w.size) /\ z < w.t + w.size - w.done THEN z - w.t + w.s ELSE z

LEMMA MovedBounded ==
  ASSUME WindowType, NEW x \in Int, NEW n \in Nat, NEW at \in Int
  PROVE  Bounded(MovedGroup(w, x, n, at), at, at + n)
<1> DEFINE m == MovedWindow(w)
           end == x + n
           off == at - x
           shift == w.s - w.t
           a == Piece(x, Min({end, m.from}), off, shift)
           b == Piece(Max({x, m.from}), Min({end, m.to}), off, 0)
           c == Piece(Max({x, m.to}), end, off, shift)
<1>1. m.from \in Int /\ m.to \in Int
  BY DEF WindowType, MovedWindow
<1>2. MovedGroup(w, x, n, at) = IF w.num # 0 /\ Meets(x, n, w.t, w.size) THEN a \o b \o c ELSE Piece(x, end, off, 0)
  BY DEF MovedGroup
<1> HIDE DEF m
<1>3. end \in Int /\ off \in Int /\ shift \in Int /\ x + off = at /\ end + off = at + n
  BY DEF WindowType
<1> HIDE DEF end, off, shift
<1>5. Bounded(a, at, at + n)
  <2>1. PICK hi : hi = Min({end, m.from})
    OBVIOUS
  <2>2. hi \in Int /\ hi <= end
    BY <1>1, <1>3, <2>1, TwoNumbers
  <2> QED BY <1>3, <2>1, <2>2, PieceBounded
<1>6. Bounded(b, at, at + n)
  <2>1. PICK lo : lo = Max({x, m.from})
    OBVIOUS
  <2>2. PICK hi : hi = Min({end, m.to})
    OBVIOUS
  <2>3. lo \in Int /\ x <= lo
    <3>1. PICK f \in Int : f = m.from
      BY <1>1
    <3>2. Max({x, f}) = IF x <= f THEN f ELSE x
      BY TwoNumbers
    <3> QED BY <2>1, <3>1, <3>2
  <2>4. hi \in Int /\ hi <= end
    BY <1>1, <1>3, <2>2, TwoNumbers
  <2>5. at <= lo + off /\ hi + off <= at + n
    BY <1>3, <2>3, <2>4
  <2>6. Bounded(Piece(lo, hi, off, 0), at, at + n)
    BY <1>3, <2>3, <2>4, <2>5, PieceBounded
  <2> QED BY <2>1, <2>2, <2>6
<1>7. Bounded(c, at, at + n)
  <2>1. PICK lo : lo = Max({x, m.to})
    OBVIOUS
  <2>2. lo \in Int /\ x <= lo
    BY <1>1, <1>3, <2>1, TwoNumbers
  <2> QED BY <1>3, <2>1, <2>2, PieceBounded
<1>8. Bounded(Piece(x, end, off, 0), at, at + n)
  BY <1>3, PieceBounded
<1> HIDE DEF a, b, c
<1>9. Bounded(a \o b \o c, at, at + n)
  BY <1>5, <1>6, <1>7, BoundedConcat
<1> QED BY <1>2, <1>8, <1>9

LEMMA MovedExactly ==
  ASSUME WindowType, ~w.front, NEW x \in Int, NEW n \in Nat, n > 0, NEW at \in Int, NEW place,
         \/ \A z \in Span(x, n) : z \in Span(w.t, w.size)
         \/ \A z \in Span(x, n) : z \notin Span(w.t, w.size),
         \A z \in Span(x, n) : place[z + at - x] = Placed(z)
  PROVE  Exactly(MovedGroup(w, x, n, at), at, at + n, place)
<1> DEFINE from == w.t + w.size - w.done
           to == from + w.size
           end == x + n
           off == at - x
           shift == w.s - w.t
           a == Piece(x, Min({end, from}), off, shift)
           b == Piece(Max({x, from}), Min({end, to}), off, 0)
           c == Piece(Max({x, to}), end, off, shift)
           out == MovedGroup(w, x, n, at)
<1>1. /\ from \in Int /\ to \in Int /\ end \in Int /\ off \in Int /\ shift \in Int
      /\ x + off = at /\ end + off = at + n /\ x < end /\ Span(x, n) = x..end-1
      /\ Span(w.t, w.size) = w.t .. w.t + w.size - 1
      /\ w.t \in Int /\ w.size \in Nat /\ from >= w.t /\ to >= w.t + w.size
  BY DEF WindowType, Span
<1>2. out = IF w.num # 0 /\ Meets(x, n, w.t, w.size) THEN a \o b \o c ELSE Piece(x, end, off, 0)
  BY DEF MovedGroup, MovedWindow
<1>3. ASSUME NEW z \in x..end-1 PROVE place[z + off] = Placed(z)
  <2>1. z + off = z + at - x /\ z \in Span(x, n)
    BY <1>1
  <2> QED BY <2>1
<1>4. /\ \A z \in Span(w.t, w.size) : z < from => Placed(z) = z + shift
      /\ \A z \in Span(w.t, w.size) : z >= from => Placed(z) = z
      /\ \A z : z \notin Span(w.t, w.size) => Placed(z) = z
  <2>1. ASSUME NEW z \in Span(w.t, w.size), z < from PROVE Placed(z) = z + shift
    <3>1. Placed(z) = z - w.t + w.s
      BY <2>1 DEF Placed
    <3>2. z \in Int /\ w.s \in Int /\ w.t \in Int
      BY <1>1 DEF WindowType
    <3>3. z - w.t + w.s = z + (w.s - w.t)
      BY <3>2
    <3> QED BY <3>1, <3>3
  <2>2. \A z \in Span(w.t, w.size) : z >= from => Placed(z) = z
    BY <1>1 DEF Placed, WindowType
  <2> QED BY <2>1, <2>2 DEF Placed
<1>5. Meets(x, n, w.t, w.size) <=> x < w.t + w.size /\ w.t < end
  BY DEF Meets
<1>6. w.num # 0 => w.size > 0
  BY DEF WindowType
<1> HIDE DEF from, to, end, off, shift
<1>7. CASE w.num # 0 /\ Meets(x, n, w.t, w.size)
  <2>1. \A z \in x..end-1 : z \in Span(w.t, w.size)
    <3>1. CASE x >= w.t
      <4>1. x \in Span(x, n) /\ x \in Span(w.t, w.size)
        BY <1>1, <1>5, <1>7, <3>1
      <4> QED BY <1>1, <4>1
    <3>2. CASE ~(x >= w.t)
      <4>1. w.t \in Span(x, n)
        BY <1>1, <1>5, <1>7, <3>2
      <4>2. w.t \in Span(w.t, w.size)
        BY <1>1, <1>6, <1>7
      <4> QED BY <1>1, <4>1, <4>2
    <3> QED BY <3>1, <3>2
  <2>2. x >= w.t /\ end <= w.t + w.size
    <3>1. x \in x..end-1 /\ end - 1 \in x..end-1
      BY <1>1
    <3>2. x \in Span(w.t, w.size) /\ end - 1 \in Span(w.t, w.size)
      BY <2>1, <3>1
    <3> QED BY <1>1, <3>2
  <2>3. Min({end, to}) = end /\ Max({x, to}) = to /\ end <= to
    <3>1. end <= to /\ x <= to
      BY <1>1, <2>2
    <3> QED BY <1>1, <3>1, Ordered
  <2>4. c = <<>>
    BY <1>1, <2>3 DEF Piece
  <2>5. CASE end <= from
    <3>1. Min({end, from}) = end /\ Max({x, from}) = from
      <4>1. end <= from /\ x <= from
        BY <1>1, <2>5
      <4> QED BY <1>1, <4>1, Ordered
    <3>2. \A z \in x..end-1 : place[z + off] = z + shift
      <4> SUFFICES ASSUME NEW z \in x..end-1 PROVE place[z + off] = z + shift
        OBVIOUS
      <4>1. z < from /\ z \in Span(w.t, w.size)
        BY <1>1, <2>1, <2>5
      <4> QED BY <1>3, <1>4, <4>1
    <3>3. a = Piece(x, end, off, shift) /\ b = <<>>
      <4>1. ~(from < end) /\ b = Piece(from, end, off, 0)
        BY <1>1, <2>3, <2>5, <3>1
      <4> QED BY <3>1, <4>1 DEF Piece
    <3>4. Exactly(Piece(x, end, off, shift), at, at + n, place)
      <4>1. Exactly(Piece(x, end, off, shift), x + off, end + off, place)
        BY <1>1, <3>2, PieceExactly
      <4> QED BY <1>1, <4>1
    <3>5. Piece(x, end, off, shift) \in Seq(Transfer)
      BY <3>4 DEF Exactly, Bounded
    <3> HIDE DEF a, b, c, out
    <3>6. a \o b \o c = a
      BY <2>4, <3>3, <3>5
    <3> QED BY <1>2, <1>7, <3>3, <3>4, <3>6 DEF out
  <2>6. CASE from < end /\ x < from
    <3>1. Min({end, from}) = from /\ Max({x, from}) = from
      <4>1. from <= end /\ x <= from
        BY <1>1, <2>6
      <4> QED BY <1>1, <4>1, Ordered
    <3>2. \A z \in x..from-1 : place[z + off] = z + shift
      <4> SUFFICES ASSUME NEW z \in x..from-1 PROVE place[z + off] = z + shift
        OBVIOUS
      <4>1. z < from /\ z \in x..end-1
        BY <1>1, <2>6
      <4>2. z \in Span(w.t, w.size)
        BY <2>1, <4>1
      <4> QED BY <1>3, <1>4, <4>1, <4>2
    <3>3. \A z \in from..end-1 : place[z + off] = z
      <4> SUFFICES ASSUME NEW z \in from..end-1 PROVE place[z + off] = z
        OBVIOUS
      <4>1. z >= from /\ z \in x..end-1
        BY <1>1, <2>6
      <4>2. z \in Span(w.t, w.size)
        BY <2>1, <4>1
      <4> QED BY <1>3, <1>4, <4>1, <4>2
    <3>4. a = Piece(x, from, off, shift) /\ b = Piece(from, end, off, 0)
      BY <2>3, <3>1
    <3>5. Exactly(Piece(x, from, off, shift), at, from + off, place)
      <4>1. Exactly(Piece(x, from, off, shift), x + off, from + off, place)
        BY <1>1, <3>2, PieceExactly
      <4> QED BY <1>1, <4>1
    <3>6. Exactly(Piece(from, end, off, 0), from + off, at + n, place)
      <4>1. Exactly(Piece(from, end, off, 0), from + off, end + off, place)
        BY <1>1, <3>3, PieceInPlace
      <4> QED BY <1>1, <4>1
    <3>7. at <= from + off /\ from + off <= at + n /\ from + off \in Int /\ at + n \in Int
      BY <1>1, <2>6
    <3> HIDE DEF a, b, c, out
    <3>8. Exactly(a \o b, at, at + n, place)
      BY <3>4, <3>5, <3>6, <3>7, ExactlyBoth
    <3>9. a \o b \in Seq(Transfer)
      BY <3>8 DEF Exactly, Bounded
    <3>10. a \o b \o c = a \o b
      BY <2>4, <3>9
    <3> QED BY <1>2, <1>7, <3>8, <3>10 DEF out
  <2>7. CASE from <= x
    <3>1. Min({end, from}) = from /\ Max({x, from}) = x
      <4>1. from <= end /\ from <= x
        BY <1>1, <2>7
      <4> QED BY <1>1, <4>1, Ordered
    <3>2. \A z \in x..end-1 : place[z + off] = z
      <4> SUFFICES ASSUME NEW z \in x..end-1 PROVE place[z + off] = z
        OBVIOUS
      <4>1. z >= from
        BY <1>1, <2>7
      <4>2. z \in Span(w.t, w.size)
        BY <2>1
      <4> QED BY <1>3, <1>4, <4>1, <4>2
    <3>3. a = <<>> /\ b = Piece(x, end, off, 0)
      <4>1. ~(x < from) /\ a = Piece(x, from, off, shift)
        BY <1>1, <2>7, <3>1
      <4> QED BY <2>3, <3>1, <4>1 DEF Piece
    <3>4. Exactly(Piece(x, end, off, 0), at, at + n, place)
      <4>1. Exactly(Piece(x, end, off, 0), x + off, end + off, place)
        BY <1>1, <3>2, PieceInPlace
      <4> QED BY <1>1, <4>1
    <3>5. Piece(x, end, off, 0) \in Seq(Transfer)
      BY <3>4 DEF Exactly, Bounded
    <3> HIDE DEF a, b, c, out
    <3>6. a \o b \o c = b
      BY <2>4, <3>3, <3>5
    <3> QED BY <1>2, <1>7, <3>3, <3>4, <3>6 DEF out
  <2> QED BY <1>1, <2>5, <2>6, <2>7
<1>8. CASE ~(w.num # 0 /\ Meets(x, n, w.t, w.size))
  <2>1. \A z \in x..end-1 : z \notin Span(w.t, w.size)
    <3> SUFFICES ASSUME NEW z \in x..end-1, z \in Span(w.t, w.size) PROVE FALSE
      OBVIOUS
    <3>2. w.size # 0
      BY <1>1
    <3>3. w.num # 0
      BY <3>2 DEF WindowType
    <3>4. Meets(x, n, w.t, w.size)
      <4>1. z \in Span(x, n) /\ w.t \in Int /\ w.size \in Int
        BY <1>1
      <4> QED BY <4>1, MeetAt
    <3> QED BY <1>8, <3>3, <3>4
  <2>2. \A z \in x..end-1 : place[z + off] = z
    <3> SUFFICES ASSUME NEW z \in x..end-1 PROVE place[z + off] = z
      OBVIOUS
    <3> QED BY <1>3, <1>4, <2>1
  <2>3. Exactly(Piece(x, end, off, 0), x + off, end + off, place)
    BY <1>1, <2>2, PieceInPlace
  <2> QED BY <1>1, <1>2, <1>8, <2>3
<1> QED BY <1>7, <1>8

LEMMA MoveBounded ==
  ASSUME WindowType, NEW lo \in Int, NEW hi \in Int, NEW off \in Int, NEW shift \in Int,
         NEW a \in Int, NEW b \in Int, lo < hi => a <= lo + off /\ hi + off <= b
  PROVE  Bounded(Move(w, lo, hi, off, shift), a, b)
<1>1. CASE lo < hi
  <2>1. hi - lo \in Nat /\ lo + shift \in Int /\ lo + off \in Int /\ (lo + off) + (hi - lo) = hi + off
    BY <1>1
  <2>2. Bounded(MovedGroup(w, lo + shift, hi - lo, lo + off), lo + off, (lo + off) + (hi - lo))
    BY <2>1, MovedBounded
  <2>3. Bounded(MovedGroup(w, lo + shift, hi - lo, lo + off), lo + off, hi + off)
    BY <2>1, <2>2
  <2>4. Bounded(MovedGroup(w, lo + shift, hi - lo, lo + off), a, b)
    BY <1>1, <2>1, <2>3, BoundedMore
  <2> QED BY <1>1, <2>4 DEF Move
<1>2. CASE ~(lo < hi)
  BY <1>2 DEF Move, Bounded
<1> QED BY <1>1, <1>2

LEMMA MoveExactly ==
  ASSUME WindowType, ~w.front, NEW lo \in Int, NEW hi \in Int, NEW off \in Int, NEW shift \in Int, NEW place,
         \/ \A y \in lo..hi-1 : y + shift \in Span(w.t, w.size)
         \/ \A y \in lo..hi-1 : y + shift \notin Span(w.t, w.size),
         \A y \in lo..hi-1 : place[y + off] = Placed(y + shift)
  PROVE  Exactly(Move(w, lo, hi, off, shift), lo + off, hi + off, place)
<1>1. CASE lo < hi
  <2>1. PICK x \in Int : x = lo + shift
    OBVIOUS
  <2>2. PICK n \in Nat : n = hi - lo
    BY <1>1
  <2>3. PICK at \in Int : at = lo + off
    OBVIOUS
  <2>4. n > 0 /\ at + n = hi + off
    BY <1>1, <2>2, <2>3
  <2>5. ASSUME NEW z \in Span(x, n)
        PROVE  /\ z - shift \in lo..hi-1 /\ (z - shift) + shift = z
               /\ (z - shift) + off = z + at - x
    BY <2>1, <2>2, <2>3 DEF Span
  <2>6. \A z \in Span(x, n) : \E y \in lo..hi-1 : y + shift = z /\ y + off = z + at - x
    BY <2>5
  <2>7. \/ \A z \in Span(x, n) : z \in Span(w.t, w.size)
        \/ \A z \in Span(x, n) : z \notin Span(w.t, w.size)
    BY <2>6
  <2>8. \A z \in Span(x, n) : place[z + at - x] = Placed(z)
    BY <2>6
  <2>9. Exactly(MovedGroup(w, x, n, at), at, at + n, place)
    BY <2>4, <2>7, <2>8, MovedExactly
  <2> QED BY <1>1, <2>1, <2>2, <2>3, <2>4, <2>9 DEF Move
<1>2. CASE ~(lo < hi)
  BY <1>2, ExactlyNothing DEF Move
<1> QED BY <1>1, <1>2

-----------------------------------------------------------------------------
(* The groups a search collects.                                           *)

\* What a table makes of the groups collected so far.
EntryOf(r) == [orig |-> r.orig, size |-> r.size, final |-> r.t]
Hit(d, x, n, k) == Seen(k, w.num) /\ Meets(x, n, d[k].orig, d[k].size)
Added(a, r) == [g |-> AddToFinalGroup(a.g, a.n, EntryOf(r)), n |-> a.n + 1]

LEMMA CollectSteps ==
  ASSUME NEW d, Len(d) \in Nat, NEW g, NEW x, NEW n
  PROVE  LET c == Collecting(w, d, g, x, n)
         IN c = [k \in 0..Len(d) |->
                   IF k = 0 THEN [g |-> g, n |-> 0]
                   ELSE IF Hit(d, x, n, k) THEN Added(c[k-1], d[k]) ELSE c[k-1]]
<1> DEFINE Goes(a, k) == IF Hit(d, x, n, k) THEN Added(a, d[k]) ELSE a
           Follows(f, m) == f = [k \in 0..m |-> IF k = 0 THEN [g |-> g, n |-> 0] ELSE Goes(f[k-1], k)]
           T == {m \in Nat : \E f : Follows(f, m)}
<1>1. Collecting(w, d, g, x, n) = CHOOSE f : Follows(f, Len(d))
  BY DEF Collecting, Hit, Added, EntryOf
<1> HIDE DEF Goes
<1>2. 0 \in T
  <2>1. Follows([k \in 0..0 |-> [g |-> g, n |-> 0]], 0)
    OBVIOUS
  <2> QED BY <2>1
<1>3. ASSUME NEW m \in Nat, m \in T PROVE m + 1 \in T
  <2>1. PICK f : Follows(f, m)
    BY <1>3
  <2> DEFINE h == [k \in 0..m+1 |-> IF k <= m THEN f[k] ELSE Goes(f[m], k)]
  <2>2. \A k \in 0..m+1 : h[k] = IF k = 0 THEN [g |-> g, n |-> 0] ELSE Goes(h[k-1], k)
    <3> SUFFICES ASSUME NEW k \in 0..m+1
                 PROVE h[k] = IF k = 0 THEN [g |-> g, n |-> 0] ELSE Goes(h[k-1], k)
      OBVIOUS
    <3>1. CASE k = 0
      BY <2>1, <3>1
    <3>2. CASE k # 0 /\ k <= m
      <4>1. k - 1 \in 0..m /\ h[k-1] = f[k-1] /\ h[k] = f[k]
        BY <3>2
      <4> HIDE DEF h
      <4> QED BY <2>1, <3>2, <4>1
    <3>3. CASE k = m + 1
      <4>1. k - 1 = m /\ h[m] = f[m] /\ h[k] = Goes(f[m], k)
        BY <3>3
      <4> HIDE DEF h
      <4> QED BY <3>3, <4>1
    <3> QED BY <3>1, <3>2, <3>3
  <2>3. Follows(h, m + 1)
    BY <2>2
  <2> HIDE DEF h
  <2>4. \E e : Follows(e, m + 1)
    BY <2>3
  <2> HIDE DEF Follows
  <2> QED BY <2>4
<1>4. Len(d) \in T
  BY <1>2, <1>3, Numbers
<1>5. \E f : Follows(f, Len(d))
  BY <1>4
<1>6. Follows(Collecting(w, d, g, x, n), Len(d))
  BY <1>1, <1>5
<1> QED BY <1>6 DEF Goes

Array == [1..Slots -> Entry]

LEMMA EntryType ==
  ASSUME NEW e \in Entry
  PROVE  e.orig \in Int /\ e.orig >= 0 /\ e.size \in Int /\ e.size >= 0 /\ e.final \in Int
<1>1. Size \in Int
  BY DataAssumption
<1> QED BY <1>1 DEF Entry, Disk

LEMMA Least ==
  ASSUME NEW T, T \subseteq Nat, T # {}
  PROVE  Min(T) \in T /\ \A y \in T : Min(T) <= y
<1>1. \E x \in T : \A y \in T : x <= y
  BY Smallest
<1> QED BY <1>1 DEF Min

\* An entry's place is behind all entries that come before it.
LEMMA PlaceFacts ==
  ASSUME NEW g \in Array, NEW n \in Nat, n < Slots, NEW f \in Entry
  PROVE  LET i == PlaceOf(g, n, f)
         IN /\ i \in 1..n+1
            /\ \A k \in 1..n : k < i => g[k].orig < f.orig
            /\ i <= n => g[i].orig >= f.orig
<1> DEFINE T == {k \in 1..n : g[k].orig >= f.orig} \cup {n + 1}
           i == PlaceOf(g, n, f)
<1>1. T \subseteq Nat /\ T # {} /\ i = Min(T)
  BY DEF PlaceOf
<1>2. i \in T /\ \A y \in T : i <= y
  BY <1>1, Least
<1>3. \A k \in 1..n : g[k] \in Entry
  BY MapAssumption DEF Array
<1>4. f.orig \in Int /\ \A k \in 1..n : g[k].orig \in Int
  BY <1>3 DEF Entry, Disk
<1>5. ASSUME NEW k \in 1..n, k < i PROVE g[k].orig < f.orig
  <2>1. i \in Nat /\ ~(i <= k)
    BY <1>2, <1>5
  <2>2. k \notin T
    BY <1>2, <2>1
  <2>3. ~(g[k].orig >= f.orig)
    BY <2>2
  <2> QED BY <1>4, <2>3
<1> HIDE DEF i
<1> QED BY <1>2, <1>5 DEF i

\* It is put there, or what is there takes its address.
LEMMA AddPlaces ==
  ASSUME NEW g \in Array, NEW n \in Nat, n < Slots, NEW f \in Entry
  PROVE  LET i == PlaceOf(g, n, f)
             h == AddToFinalGroup(g, n, f)
         IN /\ h \in Array
            /\ \/ /\ i <= n /\ g[i].orig = f.orig
                  /\ h[i].orig = g[i].orig /\ h[i].size = g[i].size /\ h[i].final = f.final
                  /\ \A k \in 1..Slots : k # i => h[k] = g[k]
               \/ /\ i <= n => g[i].orig > f.orig
                  /\ h[i] = f
                  /\ \A k \in 1..Slots : k < i \/ k > n + 1 => h[k] = g[k]
                  /\ \A k \in i..n : h[k+1] = g[k]
<1> DEFINE i == PlaceOf(g, n, f)
           h == AddToFinalGroup(g, n, f)
<1>1. i \in 1..n+1 /\ (i <= n => g[i].orig >= f.orig)
  BY PlaceFacts
<1>2. h = IF i <= n /\ g[i].orig = f.orig THEN [g EXCEPT ![i].final = f.final] ELSE Insert(g, n, i, f)
  BY DEF AddToFinalGroup
<1> HIDE DEF h, i
<1>3. n + 1 \in 1..Slots /\ i \in 1..Slots /\ DOMAIN g = 1..Slots
  BY <1>1, MapAssumption DEF Array
<1>n. Slots \in Nat /\ i \in Nat /\ i >= 1 /\ n + 1 <= Slots
  BY <1>1, MapAssumption
<1>4. CASE i <= n /\ g[i].orig = f.orig
  <2>1. h = [g EXCEPT ![i].final = f.final]
    BY <1>2, <1>4
  <2>2. h[i] = [g[i] EXCEPT !.final = f.final] /\ \A k \in 1..Slots : k # i => h[k] = g[k]
    BY <1>3, <2>1 DEF Array
  <2>3. g[i] \in Entry
    BY <1>3 DEF Array
  <2>4. h[i].orig = g[i].orig /\ h[i].size = g[i].size /\ h[i].final = f.final
    BY <2>2, <2>3 DEF Entry
  <2>5. [g[i] EXCEPT !.final = f.final] \in Entry
    BY <2>3 DEF Entry
  <2>6. \A k \in 1..Slots : h[k] \in Entry
    BY <2>2, <2>5 DEF Array
  <2>7. h \in Array
    BY <1>3, <2>1, <2>6 DEF Array
  <2> QED BY <1>4, <2>2, <2>4, <2>7 DEF h, i
<1>5. CASE ~(i <= n /\ g[i].orig = f.orig)
  <2>1. h = Insert(g, n, i, f)
    BY <1>2, <1>5
  <2>2. h = [k \in 1..Slots |-> IF k = i THEN f ELSE IF i < k /\ k <= n + 1 THEN g[k-1] ELSE g[k]]
    BY <1>3, <2>1 DEF Insert
  <2>3. h[i] = f /\ \A k \in 1..Slots : k < i \/ k > n + 1 => h[k] = g[k]
    BY <1>1, <1>3, <2>2
  <2>4. ASSUME NEW k \in i..n PROVE h[k+1] = g[k]
    <3>1. k + 1 \in 1..Slots /\ k + 1 # i /\ i < k + 1 /\ k + 1 <= n + 1 /\ (k + 1) - 1 = k
      BY <1>n, <2>4
    <3>2. h[k+1] = g[(k+1)-1]
      BY <2>2, <3>1
    <3> QED BY <3>1, <3>2
  <2>5. ASSUME NEW k \in 1..Slots PROVE h[k] \in Entry
    <3>1. CASE k = i
      BY <2>3, <3>1
    <3>2. CASE i < k /\ k <= n + 1
      <4>1. k - 1 \in 1..Slots /\ k # i
        BY <1>n, <3>2
      <4>2. h[k] = g[k-1]
        BY <2>2, <3>2, <4>1
      <4> QED BY <4>1, <4>2 DEF Array
    <3>3. CASE k # i /\ ~(i < k /\ k <= n + 1)
      <4>1. h[k] = g[k]
        BY <2>2, <3>3
      <4> QED BY <4>1 DEF Array
    <3> QED BY <3>1, <3>2, <3>3
  <2>6. h \in Array
    BY <2>2, <2>5 DEF Array
  <2>7. i <= n => g[i].orig > f.orig
    <3>1. SUFFICES ASSUME i <= n PROVE g[i].orig > f.orig
      OBVIOUS
    <3>2. g[i] \in Entry
      BY <1>3 DEF Array
    <3>3. g[i].orig \in Int /\ f.orig \in Int
      BY <3>2 DEF Entry, Disk
    <3>4. g[i].orig >= f.orig /\ g[i].orig # f.orig
      BY <1>1, <1>5, <3>1
    <3> QED BY <3>3, <3>4
  <2> QED BY <2>3, <2>4, <2>6, <2>7 DEF h, i
<1> QED BY <1>4, <1>5

\* A data table that fits g_FinalGroup.
Table(d) ==
  /\ d \in Seq(Group) /\ Len(d) <= Slots
  /\ \A k \in DOMAIN d : EntryOf(d[k]) \in Entry

LEMMA CollectType ==
  ASSUME NEW d, Table(d), NEW g \in Array, NEW x, NEW n
  PROVE  LET c == Collecting(w, d, g, x, n)
         IN \A k \in 0..Len(d) : c[k].g \in Array /\ c[k].n \in 0..k
<1> DEFINE c == Collecting(w, d, g, x, n)
           T == {k \in Nat : k \in 0..Len(d) => c[k].g \in Array /\ c[k].n \in 0..k}
<1>1. Len(d) \in Nat /\ DOMAIN d = 1..Len(d) /\ Len(d) <= Slots
  BY DEF Table
<1>2. c = [k \in 0..Len(d) |-> IF k = 0 THEN [g |-> g, n |-> 0]
                               ELSE IF Hit(d, x, n, k) THEN Added(c[k-1], d[k]) ELSE c[k-1]]
  BY <1>1, CollectSteps
<1> HIDE DEF c
<1>3. 0 \in T
  <2>1. c[0] = [g |-> g, n |-> 0]
    BY <1>1, <1>2
  <2> QED BY <2>1
<1>4. ASSUME NEW k \in Nat, k \in T PROVE k + 1 \in T
  <2>1. SUFFICES ASSUME k + 1 \in 0..Len(d) PROVE c[k+1].g \in Array /\ c[k+1].n \in 0..k+1
    OBVIOUS
  <2>2. k \in 0..Len(d) /\ k + 1 # 0 /\ (k + 1) - 1 = k /\ k + 1 \in 1..Len(d) /\ k < Slots
    BY <1>1, <2>1, MapAssumption
  <2>3. c[k].g \in Array /\ c[k].n \in 0..k
    BY <1>4, <2>2
  <2>4. c[k+1] = IF Hit(d, x, n, k+1) THEN Added(c[k], d[k+1]) ELSE c[k]
    BY <1>2, <2>1, <2>2
  <2>5. CASE Hit(d, x, n, k+1)
    <3>1. EntryOf(d[k+1]) \in Entry
      BY <1>1, <2>2 DEF Table
    <3>2. c[k].n \in Nat /\ c[k].n < Slots
      BY <2>2, <2>3, MapAssumption
    <3>3. AddToFinalGroup(c[k].g, c[k].n, EntryOf(d[k+1])) \in Array
      BY <2>3, <3>1, <3>2, AddPlaces
    <3> QED BY <2>3, <2>4, <2>5, <3>3 DEF Added
  <2>6. CASE ~Hit(d, x, n, k+1)
    BY <2>3, <2>4, <2>6
  <2> QED BY <2>5, <2>6
<1>5. Nat \subseteq T
  BY <1>3, <1>4, Numbers
<1> QED BY <1>1, <1>5 DEF c

-----------------------------------------------------------------------------
(* What is known of the groups.                                            *)

Last == data[Len(data)]

\* The original addresses of the group being moved.
Own == IF data = <<>> THEN {} ELSE Span(Last.orig, Last.size)

\* The mover works on the last group of the table.
MoverInv ==
  /\ data \in Seq(Groups) /\ Len(data) <= MaxGroups
  /\ phase = "working" <=> data # <<>>
  /\ IF data = <<>> THEN w = NoGroup
     ELSE /\ w.done \in 0..w.size
          /\ w = [num |-> Len(data), front |-> Last.front, s |-> Last.s, t |-> Last.t,
                  size |-> Last.size, done |-> w.done]

\* Groups are sectors of applications, wherever they are and go; two of them
\* are the same sectors or apart.
GroupInv ==
  /\ \A j \in DOMAIN data :
       LET r == data[j]
       IN /\ Span(r.orig, r.size) \subseteq App
          /\ Span(r.s, r.size) \subseteq Disk /\ Span(r.t, r.size) \subseteq Disk
          /\ \A x \in Span(r.orig, r.size) : ~InSys(x)
  /\ \A i, j \in DOMAIN data :
       Meets(data[i].orig, data[i].size, data[j].orig, data[j].size)
         => data[i].orig = data[j].orig /\ data[i].size = data[j].size

LEMMA GroupFacts ==
  ASSUME MoverInv, GroupInv
  PROVE  /\ Len(data) \in Nat /\ Len(data) <= Slots /\ DOMAIN data = 1..Len(data)
         /\ \A j \in DOMAIN data : data[j] \in Groups /\ data[j] \in Group
         /\ \A j \in DOMAIN data : EntryOf(data[j]) \in Entry
<1>1. data \in Seq(Groups) /\ Groups \subseteq Group
  BY DataAssumption DEF MoverInv
<1>2. Len(data) \in Nat /\ DOMAIN data = 1..Len(data) /\ \A j \in DOMAIN data : data[j] \in Groups /\ data[j] \in Group
  BY <1>1
<1>3. Len(data) <= Slots
  BY <1>2, DataAssumption, MapAssumption DEF MoverInv
<1>4. ASSUME NEW j \in DOMAIN data PROVE EntryOf(data[j]) \in Entry
  <2>1. PICK r : r = data[j]
    OBVIOUS
  <2>2. r.orig \in Disk /\ r.t \in Disk /\ r.size \in Nat /\ r.size > 0
    BY <1>2, <2>1 DEF Group
  <2>3. r.orig + r.size - 1 \in Span(r.orig, r.size)
    BY <2>2 DEF Span, Disk
  <2>4. Span(r.orig, r.size) \subseteq App
    BY <1>4, <2>1 DEF GroupInv
  <2>5. r.orig + r.size - 1 \in Disk
    BY <2>3, <2>4 DEF App
  <2>6. r.size \in 0..Size
    BY <2>2, <2>5, DataAssumption DEF Disk
  <2> QED BY <2>1, <2>2, <2>6 DEF EntryOf, Entry
<1> QED BY <1>2, <1>3, <1>4

LEMMA Tables ==
  ASSUME MoverInv, GroupInv
  PROVE  Table(data) /\ Table(<<>>)
<1>1. data \in Seq(Group)
  BY DataAssumption DEF MoverInv
<1>2. Table(data)
  BY <1>1, GroupFacts DEF Table
<1>3. Table(<<>>)
  BY MapAssumption DEF Table
<1> QED BY <1>2, <1>3

LEMMA WindowFacts ==
  ASSUME MoverInv
  PROVE  /\ WindowType /\ w.num = Len(data)
         /\ data # <<>> => /\ Last \in Groups /\ w.s = Last.s /\ w.t = Last.t /\ w.size = Last.size
                           /\ w.front = Last.front /\ w.size > 0
<1>1. CASE data = <<>>
  <2>1. w = NoGroup
    BY <1>1 DEF MoverInv
  <2> QED BY <1>1, <2>1 DEF NoGroup, WindowType
<1>2. CASE data # <<>>
  <2>1. data \in Seq(Groups) /\ Groups \subseteq Group
    BY DataAssumption DEF MoverInv
  <2>2. Len(data) \in DOMAIN data /\ Len(data) # 0 /\ Len(data) \in Nat
    BY <1>2, <2>1
  <2>3. Last \in Groups /\ Last \in Group
    BY <2>1, <2>2 DEF Last
  <2>4. w.num = Len(data) /\ w.s = Last.s /\ w.t = Last.t /\ w.size = Last.size /\ w.front = Last.front /\ w.done \in 0..w.size
    BY <1>2 DEF MoverInv
  <2>5. Last.s \in Int /\ Last.t \in Int /\ Last.size \in Nat /\ Last.size > 0
    BY <2>3 DEF Group, Disk
  <2> QED BY <2>2, <2>3, <2>4, <2>5 DEF WindowType
<1> QED BY <1>1, <1>2

-----------------------------------------------------------------------------
(* What a search among the data groups does.                               *)

\* Two groups at the same address are of the same size.
LEMMA SameSize ==
  ASSUME MoverInv, GroupInv, NEW i \in DOMAIN data, NEW j \in DOMAIN data, data[i].orig = data[j].orig
  PROVE  data[i].size = data[j].size
<1>1. data[i] \in Group /\ data[j] \in Group
  BY GroupFacts
<1>2. /\ data[i].orig \in Int /\ data[i].size \in Nat /\ data[i].size > 0
      /\ data[j].size \in Nat /\ data[j].size > 0
  BY <1>1 DEF Group, Disk
<1>3. Meets(data[i].orig, data[i].size, data[j].orig, data[j].size)
  BY <1>2 DEF Meets
<1> QED BY <1>3 DEF GroupInv

\* What g_FinalGroup may hold: groups of the table with any address.
Fits(g) ==
  /\ g \in Array
  /\ \A k \in 1..Slots : \/ g[k].orig = 0 /\ g[k].size = 0
                         \/ \E j \in DOMAIN data : data[j].orig = g[k].orig /\ data[j].size = g[k].size

\* Group r is among the first n entries, and all entries before it are of earlier groups.
Listed(g, n, r) ==
  \E p \in 1..n :
    /\ g[p].orig = r.orig /\ g[p].size = r.size /\ g[p].final = r.t
    /\ \A q \in 1..p-1 : g[q].orig < r.orig

\* Adding a group keeps the others and the order.
LEMMA AddKeeps ==
  ASSUME NEW g \in Array, NEW n \in Nat, n < Slots, NEW f \in Entry,
         NEW r \in Group, r.orig # f.orig, Listed(g, n, r)
  PROVE  Listed(AddToFinalGroup(g, n, f), n + 1, r)
<1> DEFINE i == PlaceOf(g, n, f)
           h == AddToFinalGroup(g, n, f)
<1>1. i \in 1..n+1 /\ (\A k \in 1..n : k < i => g[k].orig < f.orig) /\ (i <= n => g[i].orig >= f.orig)
  BY PlaceFacts
<1>2. \/ /\ i <= n /\ g[i].orig = f.orig
         /\ h[i].orig = g[i].orig /\ h[i].size = g[i].size /\ h[i].final = f.final
         /\ \A k \in 1..Slots : k # i => h[k] = g[k]
      \/ /\ i <= n => g[i].orig > f.orig
         /\ h[i] = f
         /\ \A k \in 1..Slots : k < i \/ k > n + 1 => h[k] = g[k]
         /\ \A k \in i..n : h[k+1] = g[k]
  BY AddPlaces
<1> HIDE DEF i, h
<1>3. PICK p \in 1..n : /\ g[p].orig = r.orig /\ g[p].size = r.size /\ g[p].final = r.t
                        /\ \A q \in 1..p-1 : g[q].orig < r.orig
  BY DEF Listed
<1>4. Slots \in Nat /\ n + 1 <= Slots
  BY MapAssumption
<1>5. r.orig \in Int /\ f.orig \in Int /\ \A k \in 1..n : g[k].orig \in Int
  BY <1>4 DEF Array, Entry, Group, Disk
<1>6. CASE /\ i <= n /\ g[i].orig = f.orig
           /\ h[i].orig = g[i].orig /\ \A k \in 1..Slots : k # i => h[k] = g[k]
  <2>1. p # i /\ p \in 1..Slots /\ p \in 1..n+1
    BY <1>3, <1>4, <1>6
  <2>2. h[p] = g[p]
    BY <1>6, <2>1
  <2>3. ASSUME NEW q \in 1..p-1 PROVE h[q].orig < r.orig
    <3>1. q \in 1..Slots
      BY <1>4
    <3>2. h[q].orig = g[q].orig
      BY <1>6, <3>1
    <3> QED BY <1>3, <3>2
  <2> QED BY <1>3, <2>1, <2>2, <2>3 DEF Listed, h
<1>7. CASE /\ i <= n => g[i].orig > f.orig
           /\ h[i] = f
           /\ \A k \in 1..Slots : k < i \/ k > n + 1 => h[k] = g[k]
           /\ \A k \in i..n : h[k+1] = g[k]
  <2>1. CASE p < i
    <3>1. p \in 1..Slots /\ p \in 1..n+1
      BY <1>4
    <3>2. h[p] = g[p]
      BY <1>7, <2>1, <3>1
    <3>3. ASSUME NEW q \in 1..p-1 PROVE h[q].orig < r.orig
      <4>1. q \in 1..Slots /\ q < i
        BY <1>1, <1>4, <2>1
      <4>2. h[q] = g[q]
        BY <1>7, <4>1
      <4> QED BY <1>3, <4>2
    <3> QED BY <1>3, <3>1, <3>2, <3>3 DEF Listed, h
  <2>2. CASE p >= i
    <3>1. p \in i..n /\ p + 1 \in 1..n+1 /\ i <= n
      BY <1>1, <2>2
    <3>2. h[p+1] = g[p]
      BY <1>7, <3>1
    <3>3. f.orig < r.orig
      <4>1. CASE p = i
        BY <1>1, <1>3, <1>5, <3>1, <4>1
      <4>2. CASE p # i
        <5>1. i \in 1..p-1 /\ i \in 1..n
          BY <1>1, <3>1, <4>2
        <5>2. g[i].orig < r.orig /\ g[i].orig > f.orig
          BY <1>3, <1>7, <3>1, <5>1
        <5> QED BY <1>5, <5>1, <5>2
      <4> QED BY <4>1, <4>2
    <3>4. ASSUME NEW q \in 1..(p+1)-1 PROVE h[q].orig < r.orig
      <4>1. CASE q < i
        <5>1. q \in 1..Slots /\ q \in 1..p-1
          BY <1>1, <1>4, <3>1, <4>1
        <5>2. h[q] = g[q]
          BY <1>7, <4>1, <5>1
        <5> QED BY <1>3, <5>1, <5>2
      <4>2. CASE q = i
        BY <1>7, <3>3, <4>2
      <4>3. CASE q > i
        <5>1. q - 1 \in i..n /\ (q - 1) + 1 = q /\ q - 1 \in 1..p-1
          BY <1>1, <3>1, <4>3
        <5>2. h[(q-1)+1] = g[q-1]
          BY <1>7, <5>1
        <5>3. h[q] = g[q-1]
          BY <5>1, <5>2
        <5> QED BY <1>3, <5>1, <5>3
      <4> QED BY <1>1, <4>1, <4>2, <4>3
    <3> QED BY <1>3, <3>1, <3>2, <3>4 DEF Listed, h
  <2> QED BY <1>1, <2>1, <2>2
<1> QED BY <1>2, <1>6, <1>7

\* Adding a group of the table lists it with its address, and leaves no entry of another kind.
LEMMA AddLists ==
  ASSUME MoverInv, GroupInv, NEW g, Fits(g), NEW n \in Nat, n < Slots, n > 0 => g[1].size > 0,
         NEW j \in DOMAIN data
  PROVE  LET h == AddToFinalGroup(g, n, EntryOf(data[j]))
         IN Fits(h) /\ h[1].size > 0 /\ Listed(h, n + 1, data[j])
<1> DEFINE r == data[j]
           f == EntryOf(r)
           i == PlaceOf(g, n, f)
           h == AddToFinalGroup(g, n, f)
<1>1. f \in Entry /\ r \in Group /\ f.orig = r.orig /\ f.size = r.size /\ f.final = r.t
  BY GroupFacts DEF EntryOf
<1>2. g \in Array /\ Slots \in Nat /\ n + 1 <= Slots
  BY MapAssumption DEF Fits
<1>3. r.orig \in Int /\ r.orig >= 0 /\ r.size > 0
  BY <1>1 DEF Group, Disk
<1> HIDE DEF f, r
<1>4. i \in 1..n+1 /\ (\A k \in 1..n : k < i => g[k].orig < f.orig) /\ (i <= n => g[i].orig >= f.orig)
  BY <1>1, <1>2, PlaceFacts
<1>5. /\ h \in Array
      /\ \/ /\ i <= n /\ g[i].orig = f.orig
            /\ h[i].orig = g[i].orig /\ h[i].size = g[i].size /\ h[i].final = f.final
            /\ \A k \in 1..Slots : k # i => h[k] = g[k]
         \/ /\ i <= n => g[i].orig > f.orig
            /\ h[i] = f
            /\ \A k \in 1..Slots : k < i \/ k > n + 1 => h[k] = g[k]
            /\ \A k \in i..n : h[k+1] = g[k]
  BY <1>1, <1>2, AddPlaces
<1> HIDE DEF h, i
<1>6. i \in 1..Slots /\ i \in Nat /\ 1 \in 1..Slots
  BY <1>2, <1>4
<1> DEFINE Fit(e) == \/ e.orig = 0 /\ e.size = 0
                     \/ \E l \in DOMAIN data : data[l].orig = e.orig /\ data[l].size = e.size
<1>7. \A k \in 1..Slots : Fit(g[k])
  BY DEF Fits
<1>8. Fit(f)
  BY <1>1 DEF r
<1>9. CASE /\ i <= n /\ g[i].orig = f.orig
           /\ h[i].orig = g[i].orig /\ h[i].size = g[i].size /\ h[i].final = f.final
           /\ \A k \in 1..Slots : k # i => h[k] = g[k]
  <2>1. \A k \in 1..Slots : h[k].orig = g[k].orig /\ h[k].size = g[k].size
    BY <1>9
  <2>2. Fits(h)
    BY <1>5, <1>7, <2>1 DEF Fits
  <2>3. h[1].size > 0
    <3>1. n > 0
      BY <1>6, <1>9
    <3> QED BY <1>6, <2>1, <3>1
  <2>4. h[i].size = r.size
    <3>1. CASE g[i].orig = 0 /\ g[i].size = 0
      <4>1. i = 1
        <5>1. SUFFICES ASSUME i > 1 PROVE FALSE
          BY <1>6
        <5>2. 1 \in 1..n /\ 1 < i
          BY <1>6, <1>9, <5>1
        <5>3. g[1].orig < f.orig
          BY <1>4, <5>2
        <5>4. g[1] \in Entry
          BY <1>2, <1>6 DEF Array
        <5> QED BY <1>9, <3>1, <5>3, <5>4 DEF Entry, Disk
      <4>2. n > 0
        BY <1>6, <1>9
      <4> QED BY <3>1, <4>1, <4>2
    <3>2. CASE \E l \in DOMAIN data : data[l].orig = g[i].orig /\ data[l].size = g[i].size
      <4>1. PICK l \in DOMAIN data : data[l].orig = g[i].orig /\ data[l].size = g[i].size
        BY <3>2
      <4>2. data[l].orig = data[j].orig
        BY <1>1, <1>9, <4>1 DEF r
      <4>3. data[l].size = data[j].size
        BY <4>2, SameSize
      <4> QED BY <1>9, <4>1, <4>3 DEF r
    <3> QED BY <1>6, <1>7, <3>1, <3>2
  <2>5. \A q \in 1..i-1 : h[q].orig < r.orig
    <3> SUFFICES ASSUME NEW q \in 1..i-1 PROVE h[q].orig < r.orig
      OBVIOUS
    <3>1. q \in 1..Slots /\ q \in 1..n /\ q < i
      BY <1>2, <1>4, <1>6, <1>9
    <3> QED BY <1>1, <1>4, <2>1, <3>1
  <2>6. Listed(h, n + 1, r)
    BY <1>1, <1>4, <1>9, <2>4, <2>5 DEF Listed
  <2> QED BY <2>2, <2>3, <2>6 DEF h, f, r
<1>10. CASE /\ i <= n => g[i].orig > f.orig
            /\ h[i] = f
            /\ \A k \in 1..Slots : k < i \/ k > n + 1 => h[k] = g[k]
            /\ \A k \in i..n : h[k+1] = g[k]
  <2>1. ASSUME NEW k \in 1..Slots PROVE Fit(h[k])
    <3>1. CASE k < i \/ k > n + 1
      <4>1. h[k] = g[k]
        BY <1>10, <3>1
      <4> QED BY <1>7, <4>1
    <3>2. CASE k = i
      BY <1>8, <1>10, <3>2
    <3>3. CASE i < k /\ k <= n + 1
      <4>1. k - 1 \in i..n /\ (k - 1) + 1 = k /\ k - 1 \in 1..Slots
        BY <1>2, <1>6, <3>3
      <4>2. h[(k-1)+1] = g[k-1]
        BY <1>10, <4>1
      <4>3. h[k] = g[k-1]
        BY <4>1, <4>2
      <4> QED BY <1>7, <4>1, <4>3
    <3> QED BY <1>2, <1>6, <3>1, <3>2, <3>3
  <2>2. Fits(h)
    BY <1>5, <2>1 DEF Fits
  <2>3. h[1].size > 0
    <3>1. CASE i = 1
      BY <1>1, <1>3, <1>10, <3>1
    <3>2. CASE i > 1
      <4>1. h[1] = g[1]
        BY <1>6, <1>10, <3>2
      <4>2. n > 0
        BY <1>4, <3>2
      <4> QED BY <4>1, <4>2
    <3> QED BY <1>6, <3>1, <3>2
  <2>4. \A q \in 1..i-1 : h[q].orig < r.orig
    <3> SUFFICES ASSUME NEW q \in 1..i-1 PROVE h[q].orig < r.orig
      OBVIOUS
    <3>1. q \in 1..Slots /\ q \in 1..n /\ q < i
      BY <1>2, <1>4, <1>6
    <3>2. h[q] = g[q]
      BY <1>10, <3>1
    <3> QED BY <1>1, <1>4, <3>1, <3>2
  <2>5. Listed(h, n + 1, r)
    BY <1>1, <1>4, <1>10, <2>4 DEF Listed
  <2> QED BY <2>2, <2>3, <2>5 DEF h, f, r
<1> QED BY <1>5, <1>9, <1>10

\* A search sees all records of a table of one chunk.
LEMMA AllSeen ==
  ASSUME NEW num \in Nat, num <= ChunkRecords, NEW k \in 1..num
  PROVE  Seen(k, num)
<1>1. ChunkRecords \in Nat /\ ChunkRecords > 0 /\ k - 1 \in Nat /\ k - 1 < ChunkRecords /\ k - 1 < num
  BY MapAssumption
<1>2. (k - 1) % ChunkRecords = k - 1 /\ (k - 1) \div ChunkRecords = 0
  BY <1>1
<1>3. ChunkPages \in Nat
  BY MapAssumption
<1>4. 0 * ChunkPages = 0 /\ 0 * ChunkRecords = 0
  BY <1>1, <1>3
<1> QED BY <1>1, <1>2, <1>4 DEF Seen

\* The last record of its sectors.
Newest(k, j) == \A l \in j+1..k : data[l].orig # data[j].orig

\* A search lists the groups that meet the request with their last addresses.
LEMMA CollectLists ==
  ASSUME MoverInv, GroupInv, Len(data) <= ChunkRecords, NEW g, Fits(g), NEW x, NEW n
  PROVE  LET c == Collect(w, data, g, x, n)
         IN /\ Fits(c.g) /\ c.n \in Nat /\ c.n <= Slots
            /\ \A j \in DOMAIN data :
                 Meets(x, n, data[j].orig, data[j].size) /\ Newest(Len(data), j) => Listed(c.g, c.n, data[j])
<1> DEFINE c == Collecting(w, data, g, x, n)
           m == Len(data)
           Knows(k) == /\ Fits(c[k].g) /\ c[k].n \in 0..k /\ (c[k].n > 0 => c[k].g[1].size > 0)
                       /\ \A j \in 1..k : Meets(x, n, data[j].orig, data[j].size) /\ Newest(k, j)
                                            => Listed(c[k].g, c[k].n, data[j])
           T == {k \in Nat : k \in 0..m => Knows(k)}
<1>1. m \in Nat /\ DOMAIN data = 1..m /\ m <= Slots /\ Slots \in Nat
  BY GroupFacts, MapAssumption
<1>2. c = [k \in 0..m |-> IF k = 0 THEN [g |-> g, n |-> 0]
                          ELSE IF Hit(data, x, n, k) THEN Added(c[k-1], data[k]) ELSE c[k-1]]
  BY <1>1, CollectSteps
<1>3. \A k \in 1..m : Hit(data, x, n, k) <=> Meets(x, n, data[k].orig, data[k].size)
  BY <1>1, AllSeen, WindowFacts DEF Hit
<1> HIDE DEF c, m
<1>4. 0 \in T
  <2>1. c[0] = [g |-> g, n |-> 0]
    BY <1>1, <1>2
  <2> QED BY <2>1
<1>5. ASSUME NEW k \in Nat, k \in T PROVE k + 1 \in T
  <2>1. SUFFICES ASSUME k + 1 \in 0..m PROVE Knows(k+1)
    OBVIOUS
  <2>2. k \in 0..m /\ k + 1 # 0 /\ (k + 1) - 1 = k /\ k + 1 \in 1..m /\ k < Slots
    BY <1>1, <2>1
  <2>3. Knows(k)
    BY <1>5, <2>2
  <2>4. c[k+1] = IF Hit(data, x, n, k+1) THEN Added(c[k], data[k+1]) ELSE c[k]
    BY <1>2, <2>1, <2>2
  <2>5. PICK a : a = c[k]
    OBVIOUS
  <2>6. /\ Fits(a.g) /\ a.n \in 0..k /\ (a.n > 0 => a.g[1].size > 0)
        /\ \A j \in 1..k : Meets(x, n, data[j].orig, data[j].size) /\ Newest(k, j) => Listed(a.g, a.n, data[j])
    BY <2>3, <2>5
  <2>7. ASSUME NEW j \in 1..k, Newest(k+1, j)
        PROVE  Newest(k, j) /\ data[j].orig # data[k+1].orig
    <3>1. k + 1 \in j+1..k+1 /\ \A l \in j+1..k : l \in j+1..k+1
      OBVIOUS
    <3> QED BY <2>7, <3>1 DEF Newest
  <2>8. CASE Hit(data, x, n, k+1)
    <3>1. k + 1 \in DOMAIN data
      BY <1>1, <2>2
    <3>2. PICK f \in Entry : f = EntryOf(data[k+1]) /\ f.orig = data[k+1].orig
      BY <3>1, GroupFacts DEF EntryOf
    <3>3. PICK h : h = AddToFinalGroup(a.g, a.n, f)
      OBVIOUS
    <3>4. a.n \in Nat /\ a.n < Slots /\ a.g \in Array
      BY <1>1, <2>2, <2>6 DEF Fits
    <3>5. Fits(h) /\ h[1].size > 0 /\ Listed(h, a.n + 1, data[k+1])
      BY <2>6, <3>1, <3>2, <3>3, <3>4, AddLists
    <3>6. c[k+1].g = h /\ c[k+1].n = a.n + 1
      BY <2>4, <2>5, <2>8, <3>2, <3>3 DEF Added
    <3>7. ASSUME NEW j \in 1..k+1, Meets(x, n, data[j].orig, data[j].size), Newest(k+1, j)
          PROVE  Listed(h, a.n + 1, data[j])
      <4>1. CASE j = k + 1
        BY <3>5, <4>1
      <4>2. CASE j \in 1..k
        <5>1. Listed(a.g, a.n, data[j]) /\ data[j].orig # f.orig
          BY <2>6, <2>7, <3>2, <3>7, <4>2
        <5>2. j \in DOMAIN data
          BY <1>1, <2>2, <4>2
        <5>3. data[j] \in Group
          BY <5>2, GroupFacts
        <5> QED BY <3>2, <3>3, <3>4, <5>1, <5>3, AddKeeps
      <4> QED BY <4>1, <4>2
    <3>8. a.n + 1 \in 0..k+1
      BY <2>6
    <3> QED BY <3>5, <3>6, <3>7, <3>8
  <2>9. CASE ~Hit(data, x, n, k+1)
    <3>1. c[k+1] = a
      BY <2>4, <2>5, <2>9
    <3>2. ASSUME NEW j \in 1..k+1, Meets(x, n, data[j].orig, data[j].size), Newest(k+1, j)
          PROVE  Listed(a.g, a.n, data[j])
      <4>1. j # k + 1
        BY <1>3, <2>2, <2>9, <3>2
      <4>2. j \in 1..k
        BY <4>1
      <4> QED BY <2>6, <2>7, <3>2, <4>2
    <3>3. a.n \in 0..k+1
      BY <2>6
    <3> QED BY <2>6, <3>1, <3>2, <3>3
  <2> QED BY <2>8, <2>9
<1>6. Nat \subseteq T
  BY <1>4, <1>5, Numbers
<1>7. Knows(m)
  BY <1>1, <1>6
<1>8. Collect(w, data, g, x, n) = c[m]
  BY DEF Collect, c, m
<1>9. c[m].n <= Slots /\ c[m].n \in Nat
  BY <1>1, <1>7
<1> QED BY <1>1, <1>7, <1>8, <1>9 DEF m

-----------------------------------------------------------------------------
(* A request cut at the collected groups.                                  *)

\* What an entry adds: nothing that is not between a.cur and the end.
Gap(a, f, end)  == Max({a.cur, Min({end, f.orig})})
Stop(a, f, end) == Until(Gap(a, f, end), end, f.orig, f.size)
CutBy(a, f, end, off) ==
  [cur |-> Stop(a, f, end),
   out |-> a.out \o Move(w, a.cur, Gap(a, f, end), off, 0)
                 \o Move(w, Gap(a, f, end), Stop(a, f, end), off, f.final - f.orig)]

LEMMA CutSteps ==
  ASSUME NEW g, NEW m \in Nat, NEW x, NEW end, NEW off
  PROVE  LET c == Cutting(w, g, m, x, end, off)
         IN c = [k \in 0..m |-> IF k = 0 THEN [cur |-> x, out |-> <<>>] ELSE CutBy(c[k-1], g[k], end, off)]
<1> DEFINE Goes(a, k) == CutBy(a, g[k], end, off)
           Follows(f, l) == f = [k \in 0..l |-> IF k = 0 THEN [cur |-> x, out |-> <<>>] ELSE Goes(f[k-1], k)]
           T == {l \in Nat : \E f : Follows(f, l)}
<1>1. Cutting(w, g, m, x, end, off) = CHOOSE f : Follows(f, m)
  BY DEF Cutting, CutBy, Gap, Stop
<1> HIDE DEF Goes
<1>2. 0 \in T
  <2>1. Follows([k \in 0..0 |-> [cur |-> x, out |-> <<>>]], 0)
    OBVIOUS
  <2> QED BY <2>1
<1>3. ASSUME NEW l \in Nat, l \in T PROVE l + 1 \in T
  <2>1. PICK f : Follows(f, l)
    BY <1>3
  <2> DEFINE h == [k \in 0..l+1 |-> IF k <= l THEN f[k] ELSE Goes(f[l], k)]
  <2>2. \A k \in 0..l+1 : h[k] = IF k = 0 THEN [cur |-> x, out |-> <<>>] ELSE Goes(h[k-1], k)
    <3> SUFFICES ASSUME NEW k \in 0..l+1
                 PROVE h[k] = IF k = 0 THEN [cur |-> x, out |-> <<>>] ELSE Goes(h[k-1], k)
      OBVIOUS
    <3>1. CASE k = 0
      BY <2>1, <3>1
    <3>2. CASE k # 0 /\ k <= l
      <4>1. k - 1 \in 0..l /\ h[k-1] = f[k-1] /\ h[k] = f[k]
        BY <3>2
      <4> HIDE DEF h
      <4> QED BY <2>1, <3>2, <4>1
    <3>3. CASE k = l + 1
      <4>1. k - 1 = l /\ h[l] = f[l] /\ h[k] = Goes(f[l], k)
        BY <3>3
      <4> HIDE DEF h
      <4> QED BY <3>3, <4>1
    <3> QED BY <3>1, <3>2, <3>3
  <2>3. Follows(h, l + 1)
    BY <2>2
  <2> HIDE DEF h
  <2>4. \E e : Follows(e, l + 1)
    BY <2>3
  <2> HIDE DEF Follows
  <2> QED BY <2>4
<1>4. m \in T
  BY <1>2, <1>3, Numbers
<1>5. \E f : Follows(f, m)
  BY <1>4
<1>6. Follows(Cutting(w, g, m, x, end, off), m)
  BY <1>1, <1>5
<1> QED BY <1>6 DEF Goes

\* The next cut is at the start of the group if that is still to come, and goes
\* to its end if the cut is inside.
LEMMA CutPoints ==
  ASSUME NEW cur \in Int, NEW end \in Int, cur <= end, NEW f \in Entry, NEW a, a.cur = cur
  PROVE  LET gap  == Gap(a, f, end)
             stop == Stop(a, f, end)
         IN /\ gap \in Int /\ stop \in Int /\ cur <= gap /\ gap <= stop /\ stop <= end
            /\ cur < gap => gap <= f.orig
            /\ gap < stop => f.size > 0 /\ f.orig <= gap /\ stop <= f.orig + f.size
            /\ f.orig < end => f.orig <= gap /\ (stop >= f.orig + f.size \/ stop = end)
<1> DEFINE gap == Gap(a, f, end)
           stop == Stop(a, f, end)
<1>1. f.orig \in Int /\ f.size \in Int /\ f.size >= 0
  BY DataAssumption DEF Entry, Disk
<1>2. PICK b \in Int : b = Min({end, f.orig}) /\ b = IF end <= f.orig THEN end ELSE f.orig
  BY <1>1, TwoNumbers
<1>3. gap = Max({cur, b})
  BY <1>2 DEF Gap
<1>4. gap = IF cur <= b THEN b ELSE cur
  BY <1>2, <1>3, TwoNumbers
<1>5. gap \in Int /\ cur <= gap /\ gap <= end /\ (cur < gap => gap <= f.orig) /\ (f.orig < end => f.orig <= gap)
  BY <1>1, <1>2, <1>4
<1>6. stop = IF gap \in Span(f.orig, f.size) THEN Min({end, f.orig + f.size}) ELSE gap
  BY DEF Stop, Until
<1> HIDE DEF gap, stop
<1>7. CASE gap \in Span(f.orig, f.size)
  <2>1. stop = Min({end, f.orig + f.size})
    BY <1>6, <1>7
  <2>2. stop = IF end <= f.orig + f.size THEN end ELSE f.orig + f.size
    BY <1>1, <2>1, TwoNumbers
  <2>3. f.orig <= gap /\ gap < f.orig + f.size
    BY <1>1, <1>5, <1>7 DEF Span
  <2> QED BY <1>1, <1>5, <2>2, <2>3 DEF gap, stop
<1>8. CASE gap \notin Span(f.orig, f.size)
  <2>1. stop = gap
    BY <1>6, <1>8
  <2>2. f.orig < end => gap >= f.orig + f.size
    BY <1>1, <1>5, <1>8 DEF Span
  <2> QED BY <1>1, <1>5, <2>1, <2>2 DEF gap, stop
<1> QED BY <1>7, <1>8

LEMMA CutBounded ==
  ASSUME WindowType, NEW x \in Int, NEW end \in Int, NEW off \in Int,
         NEW a, a.cur \in Int, x <= a.cur, a.cur <= end, Bounded(a.out, x + off, end + off), NEW f \in Entry
  PROVE  LET b == CutBy(a, f, end, off)
         IN b.cur \in Int /\ x <= b.cur /\ b.cur <= end /\ Bounded(b.out, x + off, end + off)
<1> DEFINE gap == Gap(a, f, end)
           stop == Stop(a, f, end)
<1>1. gap \in Int /\ stop \in Int /\ a.cur <= gap /\ gap <= stop /\ stop <= end
  BY CutPoints
<1> HIDE DEF gap, stop
<1>2. PICK cur \in Int : cur = a.cur
  OBVIOUS
<1>3. f.final - f.orig \in Int /\ x + off \in Int /\ end + off \in Int
  BY DEF Entry, Disk
<1>4. x + off <= cur + off /\ gap + off <= end + off /\ x + off <= gap + off /\ stop + off <= end + off
  BY <1>1, <1>2
<1>5. Bounded(Move(w, cur, gap, off, 0), x + off, end + off)
  BY <1>1, <1>3, <1>4, MoveBounded
<1>6. Bounded(Move(w, gap, stop, off, f.final - f.orig), x + off, end + off)
  BY <1>1, <1>3, <1>4, MoveBounded
<1>7. Bounded(a.out \o Move(w, cur, gap, off, 0), x + off, end + off)
  BY <1>3, <1>5, BoundedConcat
<1>8. Bounded(a.out \o Move(w, cur, gap, off, 0) \o Move(w, gap, stop, off, f.final - f.orig), x + off, end + off)
  BY <1>3, <1>6, <1>7, BoundedConcat
<1>9. x <= stop
  BY <1>1
<1> QED BY <1>1, <1>2, <1>8, <1>9 DEF CutBy, gap, stop

LEMMA CutType ==
  ASSUME WindowType, NEW g \in Array, NEW m \in Nat, m <= Slots, NEW x \in Int, NEW end \in Int, x <= end, NEW off \in Int
  PROVE  LET c == Cutting(w, g, m, x, end, off)
         IN \A k \in 0..m : c[k].cur \in Int /\ x <= c[k].cur /\ c[k].cur <= end /\ Bounded(c[k].out, x + off, end + off)
<1> DEFINE c == Cutting(w, g, m, x, end, off)
           T == {k \in Nat : k \in 0..m => c[k].cur \in Int /\ x <= c[k].cur /\ c[k].cur <= end
                                           /\ Bounded(c[k].out, x + off, end + off)}
<1>1. c = [k \in 0..m |-> IF k = 0 THEN [cur |-> x, out |-> <<>>] ELSE CutBy(c[k-1], g[k], end, off)]
  BY CutSteps
<1> HIDE DEF c
<1>2. 0 \in T
  <2>1. c[0] = [cur |-> x, out |-> <<>>]
    BY <1>1
  <2>2. Bounded(<<>>, x + off, end + off)
    BY DEF Bounded
  <2> QED BY <2>1, <2>2
<1>3. ASSUME NEW k \in Nat, k \in T PROVE k + 1 \in T
  <2>1. CASE k + 1 \in 0..m
    <3>1. k \in 0..m /\ k + 1 # 0 /\ (k + 1) - 1 = k /\ k + 1 \in 1..Slots
      BY <2>1, MapAssumption
    <3>2. c[k+1] = CutBy(c[k], g[k+1], end, off)
      BY <1>1, <2>1, <3>1
    <3>3. g[k+1] \in Entry
      BY <3>1 DEF Array
    <3>4. c[k].cur \in Int /\ x <= c[k].cur /\ c[k].cur <= end /\ Bounded(c[k].out, x + off, end + off)
      BY <1>3, <3>1
    <3>5. PICK a, f : a = c[k] /\ f = g[k+1]
      OBVIOUS
    <3>6. f \in Entry /\ a.cur \in Int /\ x <= a.cur /\ a.cur <= end /\ Bounded(a.out, x + off, end + off)
      BY <3>3, <3>4, <3>5
    <3>7. PICK b : b = CutBy(a, f, end, off)
      OBVIOUS
    <3>8. b.cur \in Int /\ x <= b.cur /\ b.cur <= end /\ Bounded(b.out, x + off, end + off)
      BY <3>6, <3>7, CutBounded, Zenon
    <3>9. c[k+1] = b
      BY <3>2, <3>5, <3>7
    <3> QED BY <3>8, <3>9
  <2>2. CASE k + 1 \notin 0..m
    BY <2>2
  <2> QED BY <2>1, <2>2
<1>4. Nat \subseteq T
  BY <1>2, <1>3, Numbers
<1> QED BY <1>4 DEF c

LEMMA SearchType ==
  ASSUME WindowType, NEW d, Table(d), NEW g \in Array, NEW x \in Int, NEW end \in Int, x <= end, NEW off \in Int
  PROVE  LET f == SearchFromGroup(w, d, g, x, end, off)
         IN f.g \in Array /\ Bounded(f.out, x + off, end + off)
<1>1. PICK hits : hits = Collect(w, d, g, x, end - x)
  OBVIOUS
<1>2. Len(d) \in Nat /\ Len(d) <= Slots
  BY DEF Table
<1>3. hits.g \in Array /\ hits.n \in 0..Len(d)
  BY <1>1, <1>2, CollectType DEF Collect
<1>4. hits.n \in Nat /\ hits.n <= Slots /\ hits.n \in 0..hits.n
  BY <1>2, <1>3, MapAssumption
<1>5. PICK a : a = Cutting(w, hits.g, hits.n, x, end, off)[hits.n]
  OBVIOUS
<1>6. a.cur \in Int /\ x <= a.cur /\ a.cur <= end /\ Bounded(a.out, x + off, end + off)
  BY <1>3, <1>4, <1>5, CutType
<1>7. Bounded(Move(w, a.cur, end, off, 0), x + off, end + off)
  <2>1. PICK cur \in Int : cur = a.cur
    BY <1>6
  <2>2. x + off <= cur + off /\ end + off <= end + off /\ x + off \in Int /\ end + off \in Int
    BY <1>6, <2>1
  <2>3. Bounded(Move(w, cur, end, off, 0), x + off, end + off)
    BY <2>2, MoveBounded
  <2> QED BY <2>1, <2>3
<1>8. Bounded(a.out \o Move(w, a.cur, end, off, 0), x + off, end + off)
  BY <1>6, <1>7, BoundedConcat
<1>9. /\ SearchFromGroup(w, d, g, x, end, off).g = hits.g
      /\ SearchFromGroup(w, d, g, x, end, off).out = a.out \o Move(w, a.cur, end, off, 0)
  BY <1>1, <1>5 DEF SearchFromGroup
<1> QED BY <1>3, <1>8, <1>9

-----------------------------------------------------------------------------
(* Where a search among the data groups finds a sector.                    *)

\* Home of a sector of no system group.
DataHome(x) ==
  IF Moves(x) = {} THEN x
  ELSE LET j == Max(Moves(x))
           i == x - data[j].orig
       IN IF j = Len(data) /\ ~Arrived(i) THEN data[j].s + i ELSE data[j].t + i

\* The places of a request's sectors, by their numbers in the buffer.
HomeOf(off) == [i \in Int |-> DataHome(i - off)]

\* The last record of a sector's group.
LEMMA LastMove ==
  ASSUME MoverInv, GroupInv, NEW x \in Int, Moves(x) # {}
  PROVE  LET j == Max(Moves(x))
         IN /\ j \in DOMAIN data /\ x \in Span(data[j].orig, data[j].size)
            /\ Newest(Len(data), j) /\ \A l \in Moves(x) : l <= j
<1> DEFINE j == Max(Moves(x))
<1>1. Len(data) \in Nat /\ DOMAIN data = 1..Len(data)
  BY GroupFacts
<1>2. Moves(x) \subseteq 0..Len(data) /\ Moves(x) \subseteq DOMAIN data
  BY <1>1 DEF Moves
<1>3. j \in Moves(x) /\ \A l \in Moves(x) : l <= j
  BY <1>1, <1>2, Largest
<1> HIDE DEF j
<1>4. j \in DOMAIN data /\ x \in Span(data[j].orig, data[j].size)
  BY <1>3 DEF Moves
<1>5. ASSUME NEW l \in j+1..Len(data), data[l].orig = data[j].orig PROVE FALSE
  <2>1. l \in DOMAIN data /\ j \in Int /\ ~(l <= j)
    BY <1>1, <1>4
  <2>2. data[l].size = data[j].size
    BY <1>4, <1>5, <2>1, SameSize
  <2>3. l \in Moves(x)
    BY <1>4, <1>5, <2>1, <2>2 DEF Moves
  <2> QED BY <1>3, <2>1, <2>3
<1> QED BY <1>3, <1>4, <1>5 DEF Newest, j

\* A sector of a group has the group's last record.
LEMMA MoveIs ==
  ASSUME MoverInv, GroupInv, NEW x \in Int, NEW j \in DOMAIN data,
         x \in Span(data[j].orig, data[j].size), Newest(Len(data), j)
  PROVE  Moves(x) # {} /\ Max(Moves(x)) = j
<1>1. Len(data) \in Nat /\ DOMAIN data = 1..Len(data)
  BY GroupFacts
<1>2. j \in Moves(x)
  BY DEF Moves
<1>3. PICK l : l = Max(Moves(x))
  OBVIOUS
<1>4. l \in DOMAIN data /\ x \in Span(data[l].orig, data[l].size) /\ j <= l
  BY <1>2, <1>3, LastMove
<1>5. data[l].orig = data[j].orig
  <2>1. Meets(data[l].orig, data[l].size, data[j].orig, data[j].size)
    <3>1. data[l] \in Group /\ data[j] \in Group
      BY <1>4, GroupFacts
    <3>2. /\ data[l].orig \in Int /\ data[l].size \in Int /\ data[j].orig \in Int /\ data[j].size \in Int
      BY <3>1 DEF Group, Disk
    <3>3. data[l].orig <= x /\ x < data[l].orig + data[l].size
      BY <1>4, <3>2 DEF Span
    <3>4. data[j].orig <= x /\ x < data[j].orig + data[j].size
      BY <3>2 DEF Span
    <3> QED BY <3>2, <3>3, <3>4 DEF Meets
  <2> QED BY <1>4, <2>1 DEF GroupInv
<1>6. ~(l \in j+1..Len(data))
  BY <1>5 DEF Newest
<1>7. l = j
  BY <1>1, <1>4, <1>6
<1> QED BY <1>2, <1>3, <1>7

\* The target of the group being moved is no other sector's place.
PlaceInv == \A x \in App \ Own : DataHome(x) \notin Span(w.t, w.size)

\* The sectors of a group are found at its target and those that have not
\* arrived there at its source.
LEMMA GroupPlaced ==
  ASSUME MoverInv, GroupInv, PlaceInv, ~w.front, NEW j \in DOMAIN data, Newest(Len(data), j)
  PROVE  LET r == data[j]
             shift == r.t - r.orig
         IN /\ \/ \A y \in Span(r.orig, r.size) : y + shift \in Span(w.t, w.size)
               \/ \A y \in Span(r.orig, r.size) : y + shift \notin Span(w.t, w.size)
            /\ \A y \in Span(r.orig, r.size) : DataHome(y) = Placed(y + shift)
<1> DEFINE r == data[j]
           shift == r.t - r.orig
<1>1. r \in Group /\ Len(data) \in Nat /\ DOMAIN data = 1..Len(data) /\ WindowType
  BY GroupFacts, WindowFacts
<1>2. r.orig \in Int /\ r.t \in Int /\ r.s \in Int /\ r.size \in Nat /\ r.size > 0
  BY <1>1 DEF Group, Disk
<1>3. ASSUME NEW y \in Span(r.orig, r.size)
      PROVE  /\ y \in Int /\ y \in App /\ ~InSys(y)
             /\ DataHome(y) = IF j = Len(data) /\ ~Arrived(y - r.orig) THEN r.s + (y - r.orig) ELSE r.t + (y - r.orig)
  <2>1. y \in Int /\ y \in App /\ ~InSys(y)
    BY <1>2, <1>3 DEF GroupInv, Span
  <2>2. Moves(y) # {} /\ Max(Moves(y)) = j
    BY <1>3, <2>1, MoveIs
  <2> QED BY <2>1, <2>2 DEF DataHome
<1>4. CASE j = Len(data)
  <2>1. data # <<>> /\ r = Last
    BY <1>4 DEF Last
  <2>2. w.s = r.s /\ w.t = r.t /\ w.size = r.size
    BY <2>1, WindowFacts
  <2>3. \A y \in Span(r.orig, r.size) : y + shift \in Span(w.t, w.size)
    BY <1>2, <2>2 DEF Span
  <2>4. ASSUME NEW y \in Span(r.orig, r.size) PROVE DataHome(y) = Placed(y + shift)
    <3>1. w.done \in Int
      BY <1>1 DEF WindowType
    <3>2. y \in Int /\ r.orig <= y /\ y < r.orig + r.size
      BY <1>2, <2>4 DEF Span
    <3>3. PICK i \in Int : i = y - r.orig
      BY <1>2, <3>2
    <3>4. Arrived(i) <=> i >= w.size - w.done
      BY DEF Arrived
    <3>5. PICK z \in Int : z = y + shift
      BY <1>2, <3>2
    <3>6. z = r.t + i
      BY <1>2, <3>2, <3>3, <3>5
    <3>7. z \in Span(w.t, w.size)
      BY <2>3, <2>4, <3>5
    <3>8. z < w.t + w.size - w.done <=> ~Arrived(i)
      BY <1>2, <2>2, <3>1, <3>4, <3>6
    <3>9. z - w.t + w.s = r.s + i
      BY <1>2, <2>2, <3>6
    <3>10. Placed(z) = IF ~Arrived(i) THEN r.s + i ELSE r.t + i
      BY <3>6, <3>7, <3>8, <3>9 DEF Placed
    <3>11. DataHome(y) = IF ~Arrived(i) THEN r.s + i ELSE r.t + i
      BY <1>3, <1>4, <2>4, <3>3
    <3> QED BY <3>5, <3>10, <3>11
  <2> QED BY <2>3, <2>4
<1>5. CASE j # Len(data)
  <2>1. ASSUME NEW y \in Span(r.orig, r.size) PROVE y + shift \notin Span(w.t, w.size) /\ DataHome(y) = y + shift
    <3>1. DataHome(y) = r.t + (y - r.orig)
      BY <1>3, <1>5, <2>1
    <3>2. y \in Int /\ y \in App
      BY <1>3, <2>1
    <3>3. DataHome(y) = y + shift
      BY <1>2, <3>1, <3>2
    <3>4. y \notin Own
      <4>1. SUFFICES ASSUME y \in Own PROVE FALSE
        OBVIOUS
      <4>2. data # <<>> /\ y \in Span(Last.orig, Last.size)
        BY <4>1 DEF Own
      <4>3. Len(data) \in DOMAIN data
        BY <1>1, <4>2, GroupFacts
      <4>4. Newest(Len(data), Len(data))
        BY <1>1 DEF Newest
      <4>5. Max(Moves(y)) = Len(data)
        BY <3>2, <4>2, <4>3, <4>4, MoveIs DEF Last
      <4>6. Max(Moves(y)) = j
        BY <2>1, <3>2, MoveIs
      <4> QED BY <1>5, <4>5, <4>6
    <3> QED BY <3>2, <3>3, <3>4 DEF PlaceInv
  <2>2. ASSUME NEW y \in Span(r.orig, r.size) PROVE DataHome(y) = Placed(y + shift)
    BY <2>1, <2>2 DEF Placed
  <2> QED BY <2>1, <2>2
<1> QED BY <1>4, <1>5

\* Sectors of no group are found where they always were.
LEMMA OthersPlaced ==
  ASSUME MoverInv, GroupInv, PlaceInv, NEW y \in App, Moves(y) = {}
  PROVE  y \notin Span(w.t, w.size) /\ DataHome(y) = Placed(y)
<1>1. DataHome(y) = y
  BY DEF DataHome
<1>2. y \notin Own
  <2>1. SUFFICES ASSUME y \in Own PROVE FALSE
    OBVIOUS
  <2>2. data # <<>> /\ y \in Span(Last.orig, Last.size)
    BY <2>1 DEF Own
  <2>3. Len(data) \in DOMAIN data
    BY <2>2, GroupFacts, MapAssumption DEF MoverInv
  <2> QED BY <2>2, <2>3 DEF Moves, Last
<1>3. y \notin Span(w.t, w.size)
  BY <1>1, <1>2 DEF PlaceInv
<1> QED BY <1>1, <1>3 DEF Placed

\* Entries that start in front of the end are behind sector cur.
Passed(g, k, cur, end) ==
  \A q \in 1..k : g[q].orig < end => cur >= g[q].orig + g[q].size \/ cur = end

\* The groups that meet sectors x up to end are listed.
ListsAll(g, m, x, end) ==
  \A j \in DOMAIN data :
    Meets(x, end - x, data[j].orig, data[j].size) /\ Newest(Len(data), j) => Listed(g, m, data[j])

\* The group of a sector that is not passed is listed behind what is passed.
LEMMA StillToCome ==
  ASSUME MoverInv, GroupInv, NEW x \in Int, NEW end \in Int, NEW g, NEW m \in Nat, ListsAll(g, m, x, end),
         NEW k \in 0..m, NEW cur \in Int, x <= cur, Passed(g, k, cur, end),
         NEW y \in cur..end-1, Moves(y) # {}
  PROVE  LET r == data[Max(Moves(y))]
         IN \E p \in k+1..m : /\ g[p].orig = r.orig /\ g[p].size = r.size /\ g[p].final = r.t
                              /\ \A q \in 1..p-1 : g[q].orig < r.orig
<1>1. PICK j : j = Max(Moves(y))
  OBVIOUS
<1>2. j \in DOMAIN data /\ y \in Span(data[j].orig, data[j].size) /\ Newest(Len(data), j)
  BY <1>1, LastMove
<1>3. data[j] \in Group
  BY <1>2, GroupFacts
<1>4. data[j].orig \in Int /\ data[j].size \in Nat
  BY <1>3 DEF Group, Disk
<1>5. data[j].orig <= y /\ y < data[j].orig + data[j].size
  BY <1>2, <1>4 DEF Span
<1>6. Meets(x, end - x, data[j].orig, data[j].size)
  BY <1>4, <1>5 DEF Meets
<1>7. PICK p \in 1..m : /\ g[p].orig = data[j].orig /\ g[p].size = data[j].size /\ g[p].final = data[j].t
                        /\ \A q \in 1..p-1 : g[q].orig < data[j].orig
  BY <1>2, <1>6 DEF ListsAll, Listed
<1>8. p > k
  <2>1. SUFFICES ASSUME p \in 1..k PROVE FALSE
    OBVIOUS
  <2>2. g[p].orig < end
    BY <1>4, <1>5, <1>7
  <2>3. cur >= g[p].orig + g[p].size \/ cur = end
    BY <2>1, <2>2 DEF Passed
  <2> QED BY <1>4, <1>5, <1>7, <2>3
<1>9. p \in k+1..m
  BY <1>8
<1> QED BY <1>1, <1>7, <1>9

\* An entry leaves nothing in front of its group but sectors of no group, and
\* finds those of its group.
LEMMA CutPlaces ==
  ASSUME MoverInv, GroupInv, PlaceInv, ~w.front,
         NEW x \in Int, NEW end \in Int, x <= end, x..end-1 \subseteq App, NEW off \in Int,
         NEW g, Fits(g), NEW m \in Nat, m <= Slots, ListsAll(g, m, x, end),
         NEW k \in Nat, k < m, NEW a, a.cur \in Int, x <= a.cur, a.cur <= end,
         Exactly(a.out, x + off, a.cur + off, HomeOf(off)), Passed(g, k, a.cur, end)
  PROVE  LET b == CutBy(a, g[k+1], end, off)
         IN Exactly(b.out, x + off, b.cur + off, HomeOf(off)) /\ Passed(g, k + 1, b.cur, end)
<1>1. PICK f \in Entry : f = g[k+1]
  BY MapAssumption DEF Fits, Array
<1>2. PICK cur \in Int : cur = a.cur
  OBVIOUS
<1>3. PICK gap : gap = Gap(a, f, end)
  OBVIOUS
<1>4. PICK stop : stop = Stop(a, f, end)
  OBVIOUS
<1>5. /\ gap \in Int /\ stop \in Int /\ cur <= gap /\ gap <= stop /\ stop <= end
      /\ cur < gap => gap <= f.orig
      /\ gap < stop => f.size > 0 /\ f.orig <= gap /\ stop <= f.orig + f.size
      /\ f.orig < end => f.orig <= gap /\ (stop >= f.orig + f.size \/ stop = end)
  BY <1>2, <1>3, <1>4, CutPoints
<1>6. f.orig \in Int /\ f.size \in Int /\ f.final \in Int /\ f.size >= 0 /\ k + 1 \in 1..m /\ k \in 0..m
  BY DataAssumption DEF Entry, Disk
<1>7. WindowType
  BY WindowFacts
<1>8. \A y \in Int : HomeOf(off)[y + off] = DataHome(y)
  <2> SUFFICES ASSUME NEW y \in Int PROVE HomeOf(off)[y + off] = DataHome(y)
    OBVIOUS
  <2>1. y + off \in Int /\ (y + off) - off = y
    OBVIOUS
  <2> QED BY <2>1 DEF HomeOf
<1>9. \A y \in cur..end-1 : y \in Int /\ y \in App
  BY <1>2
<1>10. Exactly(Move(w, cur, gap, off, 0), cur + off, gap + off, HomeOf(off))
  <2>1. ASSUME NEW y \in cur..gap-1 PROVE Moves(y) = {}
    <3>1. SUFFICES ASSUME Moves(y) # {} PROVE FALSE
      OBVIOUS
    <3>2. y \in cur..end-1 /\ y < f.orig
      BY <1>5, <1>6
    <3>3. PICK j : j = Max(Moves(y))
      OBVIOUS
    <3>4. PICK p \in k+1..m : g[p].orig = data[j].orig /\ \A q \in 1..p-1 : g[q].orig < data[j].orig
      BY <1>2, <1>6, <3>1, <3>2, <3>3, StillToCome
    <3>5. j \in DOMAIN data /\ y \in Span(data[j].orig, data[j].size)
      BY <3>1, <3>3, LastMove
    <3>6. data[j] \in Group
      BY <3>5, GroupFacts
    <3>7. data[j].orig \in Int /\ data[j].orig <= y
      BY <3>5, <3>6 DEF Group, Disk, Span
    <3>8. p # k + 1
      BY <1>1, <1>6, <3>2, <3>4, <3>7
    <3>9. k + 1 \in 1..p-1
      BY <3>8
    <3> QED BY <1>1, <1>6, <3>2, <3>4, <3>7, <3>9
  <2>2. ASSUME NEW y \in cur..gap-1 PROVE y + 0 \notin Span(w.t, w.size) /\ DataHome(y) = Placed(y + 0)
    <3>1. y \in App /\ y + 0 = y
      BY <1>5, <1>9
    <3> QED BY <2>1, <3>1, OthersPlaced
  <2>3. PICK zero \in Int : zero = 0
    OBVIOUS
  <2>4. \A y \in cur..gap-1 : y + zero \notin Span(w.t, w.size)
    BY <2>2, <2>3
  <2>5. \A y \in cur..gap-1 : HomeOf(off)[y + off] = Placed(y + zero)
    BY <1>8, <2>2, <2>3
  <2>6. Exactly(Move(w, cur, gap, off, zero), cur + off, gap + off, HomeOf(off))
    BY <1>5, <1>7, <2>4, <2>5, MoveExactly
  <2> QED BY <2>3, <2>6
<1>11. Exactly(Move(w, gap, stop, off, f.final - f.orig), gap + off, stop + off, HomeOf(off))
  <2>1. CASE gap < stop
    <3>1. gap \in cur..end-1 /\ gap \in Span(f.orig, f.size) /\ f.size # 0
      BY <1>5, <1>6, <2>1 DEF Span
    <3>2. PICK l \in DOMAIN data : data[l].orig = f.orig /\ data[l].size = f.size
      BY <1>1, <1>6, <3>1, MapAssumption DEF Fits
    <3>3. Moves(gap) # {}
      BY <3>1, <3>2 DEF Moves
    <3>4. PICK j : j = Max(Moves(gap))
      OBVIOUS
    <3>5. j \in DOMAIN data /\ gap \in Span(data[j].orig, data[j].size) /\ Newest(Len(data), j)
      BY <1>5, <3>3, <3>4, LastMove
    <3>6. PICK p \in k+1..m : /\ g[p].orig = data[j].orig /\ g[p].size = data[j].size /\ g[p].final = data[j].t
                              /\ \A q \in 1..p-1 : g[q].orig < data[j].orig
      BY <1>2, <1>6, <3>1, <3>3, <3>4, StillToCome
    <3>7. data[j] \in Group
      BY <3>5, GroupFacts
    <3>8. data[j].orig \in Int /\ data[j].size \in Int /\ data[j].t \in Int
      BY <3>7 DEF Group, Disk
    <3>9. data[l].orig = data[j].orig
      <4>1. data[j].orig <= gap /\ gap < data[j].orig + data[j].size
        <5>1. gap \in data[j].orig .. data[j].orig + data[j].size - 1
          BY <3>5 DEF Span
        <5> PICK o \in Int, r \in Int : o = data[j].orig /\ r = data[j].size
          BY <3>8
        <5>2. o <= gap /\ gap < o + r
          BY <1>5, <5>1
        <5> QED  BY <5>2
      <4>2. f.orig <= gap /\ gap < f.orig + f.size
        BY <1>6, <3>1 DEF Span
      <4>3. Meets(f.orig, f.size, data[j].orig, data[j].size)
        BY <1>5, <1>6, <3>8, <4>1, <4>2 DEF Meets
      <4>4. Meets(data[l].orig, data[l].size, data[j].orig, data[j].size)
        BY <3>2, <4>3
      <4> QED BY <3>5, <4>4 DEF GroupInv
    <3>10. p = k + 1
      <4>1. SUFFICES ASSUME p # k + 1 PROVE FALSE
        OBVIOUS
      <4>2. k + 1 \in 1..p-1
        BY <4>1
      <4>3. g[k+1].orig < data[j].orig
        BY <3>6, <4>2
      <4>4. g[k+1].orig = data[j].orig
        BY <1>1, <3>2, <3>9
      <4> QED BY <3>8, <4>3, <4>4
    <3>11. f.orig = data[j].orig /\ f.size = data[j].size /\ f.final = data[j].t
      BY <1>1, <3>6, <3>10
    <3>12. PICK shift \in Int : shift = f.final - f.orig
      BY <1>6
    <3>13. ASSUME NEW y \in gap..stop-1 PROVE y \in Span(data[j].orig, data[j].size) /\ y \in Int
      BY <1>5, <1>6, <2>1, <3>11 DEF Span
    <3>14. /\ \/ \A y \in Span(data[j].orig, data[j].size) : y + shift \in Span(w.t, w.size)
              \/ \A y \in Span(data[j].orig, data[j].size) : y + shift \notin Span(w.t, w.size)
           /\ \A y \in Span(data[j].orig, data[j].size) : DataHome(y) = Placed(y + shift)
      BY <3>5, <3>11, <3>12, GroupPlaced
    <3>15. \/ \A y \in gap..stop-1 : y + shift \in Span(w.t, w.size)
           \/ \A y \in gap..stop-1 : y + shift \notin Span(w.t, w.size)
      BY <3>13, <3>14
    <3>16. \A y \in gap..stop-1 : HomeOf(off)[y + off] = Placed(y + shift)
      BY <1>8, <3>13, <3>14
    <3>17. Exactly(Move(w, gap, stop, off, shift), gap + off, stop + off, HomeOf(off))
      BY <1>5, <1>7, <3>15, <3>16, MoveExactly
    <3> QED BY <3>12, <3>17
  <2>2. CASE ~(gap < stop)
    <3>1. Move(w, gap, stop, off, f.final - f.orig) = <<>>
      BY <2>2 DEF Move
    <3> QED BY <1>5, <2>2, <3>1, ExactlyNothing
  <2> QED BY <2>1, <2>2
<1>12. Exactly(a.out \o Move(w, cur, gap, off, 0) \o Move(w, gap, stop, off, f.final - f.orig),
               x + off, stop + off, HomeOf(off))
  <2>1. /\ x + off <= cur + off /\ cur + off <= gap + off /\ gap + off <= stop + off /\ x + off <= gap + off
        /\ x + off \in Int /\ cur + off \in Int /\ gap + off \in Int /\ stop + off \in Int
    BY <1>2, <1>5
  <2>2. Exactly(a.out \o Move(w, cur, gap, off, 0), x + off, gap + off, HomeOf(off))
    BY <1>2, <1>10, <2>1, ExactlyBoth
  <2> QED BY <1>11, <2>1, <2>2, ExactlyBoth
<1>13. Passed(g, k + 1, stop, end)
  <2> SUFFICES ASSUME NEW q \in 1..k+1, g[q].orig < end PROVE stop >= g[q].orig + g[q].size \/ stop = end
    BY DEF Passed
  <2>1. CASE q = k + 1
    BY <1>1, <1>5, <2>1
  <2>2. CASE q \in 1..k
    <3>1. cur >= g[q].orig + g[q].size \/ cur = end
      BY <1>2, <2>2 DEF Passed
    <3>2. g[q] \in Entry
      BY MapAssumption DEF Fits, Array
    <3>3. g[q].orig + g[q].size \in Int
      BY <3>2, EntryType
    <3> QED BY <1>5, <3>1, <3>3
  <2> QED BY <2>1, <2>2
<1> QED BY <1>1, <1>2, <1>3, <1>4, <1>12, <1>13 DEF CutBy

\* A search among the data groups finds every sector of the request.
LEMMA SearchFinds ==
  ASSUME MoverInv, GroupInv, PlaceInv, ~w.front, Len(data) <= ChunkRecords,
         NEW g, Fits(g), NEW x \in Int, NEW end \in Int, x <= end, x..end-1 \subseteq App, NEW off \in Int
  PROVE  LET f == SearchFromGroup(w, data, g, x, end, off)
         IN Fits(f.g) /\ Exactly(f.out, x + off, end + off, HomeOf(off))
<1>1. PICK hits : hits = Collect(w, data, g, x, end - x)
  OBVIOUS
<1>2. PICK h : h = hits.g
  OBVIOUS
<1>3. PICK m : m = hits.n
  OBVIOUS
<1>4. Fits(h) /\ m \in Nat /\ m <= Slots /\ ListsAll(h, m, x, end)
  BY <1>1, <1>2, <1>3, CollectLists DEF ListsAll
<1> DEFINE c == Cutting(w, h, m, x, end, off)
           Good(a, k) == /\ a.cur \in Int /\ x <= a.cur /\ a.cur <= end
                         /\ Exactly(a.out, x + off, a.cur + off, HomeOf(off)) /\ Passed(h, k, a.cur, end)
           T == {k \in Nat : k \in 0..m => Good(c[k], k)}
<1>5. c = [k \in 0..m |-> IF k = 0 THEN [cur |-> x, out |-> <<>>] ELSE CutBy(c[k-1], h[k], end, off)]
  BY <1>4, CutSteps
<1>6. \A k \in 0..m : c[k].cur \in Int /\ x <= c[k].cur /\ c[k].cur <= end
  BY <1>4, CutType, WindowFacts DEF Fits
<1> HIDE DEF c
<1>7. 0 \in T
  <2>1. c[0] = [cur |-> x, out |-> <<>>]
    BY <1>4, <1>5
  <2>2. Exactly(<<>>, x + off, x + off, HomeOf(off))
    BY ExactlyNothing
  <2>3. Passed(h, 0, x, end)
    BY DEF Passed
  <2> QED BY <2>1, <2>2, <2>3
<1>8. ASSUME NEW k \in Nat, k \in T PROVE k + 1 \in T
  <2>1. SUFFICES ASSUME k + 1 \in 0..m PROVE Good(c[k+1], k + 1)
    OBVIOUS
  <2>2. k \in 0..m /\ k < m /\ k + 1 # 0 /\ (k + 1) - 1 = k
    BY <1>4, <2>1
  <2>3. c[k+1] = CutBy(c[k], h[k+1], end, off)
    BY <1>5, <2>1, <2>2
  <2>4. PICK a : a = c[k]
    OBVIOUS
  <2>5. Good(a, k)
    BY <1>8, <2>2, <2>4
  <2>6. PICK b : b = CutBy(a, h[k+1], end, off)
    OBVIOUS
  <2>7. Exactly(b.out, x + off, b.cur + off, HomeOf(off)) /\ Passed(h, k + 1, b.cur, end)
    BY <1>4, <2>2, <2>5, <2>6, CutPlaces
  <2> QED BY <1>6, <2>1, <2>3, <2>4, <2>6, <2>7
<1>9. Nat \subseteq T
  BY <1>7, <1>8, Numbers
<1>10. PICK a : a = c[m]
  OBVIOUS
<1>11. Good(a, m)
  BY <1>4, <1>9, <1>10
<1>12. PICK cur \in Int : cur = a.cur
  BY <1>11
<1>13. \A y \in Int : HomeOf(off)[y + off] = DataHome(y)
  <2> SUFFICES ASSUME NEW y \in Int PROVE HomeOf(off)[y + off] = DataHome(y)
    OBVIOUS
  <2>1. y + off \in Int /\ (y + off) - off = y
    OBVIOUS
  <2> QED BY <2>1 DEF HomeOf
<1>14. ASSUME NEW y \in cur..end-1
       PROVE  y + 0 \notin Span(w.t, w.size) /\ HomeOf(off)[y + off] = Placed(y + 0)
  <2>1. y \in App /\ y + 0 = y
    BY <1>11, <1>12
  <2>2. Moves(y) = {}
    <3>1. SUFFICES ASSUME Moves(y) # {} PROVE FALSE
      OBVIOUS
    <3>2. \E p \in m+1..m : TRUE
      BY <1>4, <1>11, <1>12, <3>1, StillToCome
    <3> QED BY <1>4, <3>2
  <2>3. y \notin Span(w.t, w.size) /\ DataHome(y) = Placed(y)
    BY <2>1, <2>2, OthersPlaced
  <2>4. y \in Int
    OBVIOUS
  <2>5. HomeOf(off)[y + off] = DataHome(y)
    BY <1>13, <2>4
  <2> QED BY <2>1, <2>3, <2>5
<1>15. Exactly(Move(w, cur, end, off, 0), cur + off, end + off, HomeOf(off))
  <2>1. PICK zero \in Int : zero = 0
    OBVIOUS
  <2>2. \A y \in cur..end-1 : y + zero \notin Span(w.t, w.size)
    BY <1>14, <2>1
  <2>3. \A y \in cur..end-1 : HomeOf(off)[y + off] = Placed(y + zero)
    BY <1>14, <2>1
  <2>4. Exactly(Move(w, cur, end, off, zero), cur + off, end + off, HomeOf(off))
    BY <2>2, <2>3, MoveExactly, WindowFacts
  <2> QED BY <2>1, <2>4
<1>16. Exactly(a.out \o Move(w, cur, end, off, 0), x + off, end + off, HomeOf(off))
  <2>1. x + off <= cur + off /\ cur + off <= end + off /\ x + off \in Int /\ cur + off \in Int /\ end + off \in Int
    BY <1>11, <1>12
  <2> QED BY <1>11, <1>12, <1>15, <2>1, ExactlyBoth
<1>17. /\ SearchFromGroup(w, data, g, x, end, off).g = h
       /\ SearchFromGroup(w, data, g, x, end, off).out = a.out \o Move(w, cur, end, off, 0)
  BY <1>1, <1>2, <1>3, <1>10, <1>12 DEF SearchFromGroup, c
<1> QED BY <1>4, <1>16, <1>17

-----------------------------------------------------------------------------
(* A request cut at the system groups.                                     *)

SysTable(s) == s \in Seq([s : Disk, size : Nat \ {0}, t : Disk])

\* What a system group adds, and what is searched in front of it.
Inside(a, r, x, end) ==
  [a EXCEPT !.cur = Until(a.cur, end, r.s, r.size),
            !.out = @ \o Piece(a.cur, Until(a.cur, end, r.s, r.size), -x, r.t - r.s)]
InFront(d, a, r, x, end) == IF a.cur < r.s THEN ToEnd(w, d, a, end, -x, Min({end, r.s})) ELSE a
WalkBy(d, a, r, x, end)  == IF a.cur = end THEN a ELSE Inside(InFront(d, a, r, x, end), r, x, end)

LEMMA WalkSteps ==
  ASSUME NEW s, Len(s) \in Nat, NEW d, NEW g, NEW x, NEW n
  PROVE  LET c == Walking(w, s, d, g, x, n)
         IN c = [k \in 0..Len(s) |->
                   IF k = 0 THEN [cur |-> x, g |-> g, out |-> <<>>]
                   ELSE IF Seen(k, Len(s)) THEN WalkBy(d, c[k-1], s[k], x, x + n) ELSE c[k-1]]
<1> DEFINE a0 == [cur |-> x, g |-> g, out |-> <<>>]
           Goes(a, k) == IF Seen(k, Len(s)) THEN WalkBy(d, a, s[k], x, x + n) ELSE a
           Follows(f, l) == f = [k \in 0..l |-> IF k = 0 THEN a0 ELSE Goes(f[k-1], k)]
           T == {l \in Nat : \E f : Follows(f, l)}
<1>1. Walking(w, s, d, g, x, n) = CHOOSE f : Follows(f, Len(s))
  BY DEF Walking, WalkBy, Inside, InFront
<1> HIDE DEF Goes, a0
<1>2. 0 \in T
  <2>1. Follows([k \in 0..0 |-> a0], 0)
    OBVIOUS
  <2> QED BY <2>1
<1>3. ASSUME NEW l \in Nat, l \in T PROVE l + 1 \in T
  <2>1. PICK f : Follows(f, l)
    BY <1>3
  <2> DEFINE h == [k \in 0..l+1 |-> IF k <= l THEN f[k] ELSE Goes(f[l], k)]
  <2>2. \A k \in 0..l+1 : h[k] = IF k = 0 THEN a0 ELSE Goes(h[k-1], k)
    <3> SUFFICES ASSUME NEW k \in 0..l+1 PROVE h[k] = IF k = 0 THEN a0 ELSE Goes(h[k-1], k)
      OBVIOUS
    <3>1. CASE k = 0
      BY <2>1, <3>1
    <3>2. CASE k # 0 /\ k <= l
      <4>1. k - 1 \in 0..l /\ h[k-1] = f[k-1] /\ h[k] = f[k]
        BY <3>2
      <4> HIDE DEF h
      <4> QED BY <2>1, <3>2, <4>1
    <3>3. CASE k = l + 1
      <4>1. k - 1 = l /\ h[l] = f[l] /\ h[k] = Goes(f[l], k)
        BY <3>3
      <4> HIDE DEF h
      <4> QED BY <3>3, <4>1
    <3> QED BY <3>1, <3>2, <3>3
  <2>3. Follows(h, l + 1)
    BY <2>2
  <2> HIDE DEF h
  <2>4. \E e : Follows(e, l + 1)
    BY <2>3
  <2> HIDE DEF Follows
  <2> QED BY <2>4
<1>4. Len(s) \in T
  BY <1>2, <1>3, Numbers
<1>5. \E f : Follows(f, Len(s))
  BY <1>4
<1>6. Follows(Walking(w, s, d, g, x, n), Len(s))
  BY <1>1, <1>5
<1> QED BY <1>6 DEF Goes, a0

\* How far a request has been walked: its sectors up to cur, and what its
\* transfers and g_FinalGroup may be.
Walked(a, x, n) ==
  /\ a \in [cur : Int, g : Array, out : Seq(Transfer)]
  /\ x <= a.cur /\ a.cur <= x + n
  /\ Bounded(a.out, 0, n)

LEMMA ToEndType ==
  ASSUME WindowType, NEW d, Table(d), NEW x \in Int, NEW n \in Nat, NEW a, Walked(a, x, n),
         NEW cur \in Int, a.cur <= cur, cur <= x + n
  PROVE  Walked(ToEnd(w, d, a, x + n, -x, cur), x, n)
<1>1. PICK f : f = SearchFromGroup(w, d, a.g, a.cur, x + n, -x)
  OBVIOUS
<1>2. PICK c \in Int : c = a.cur /\ x <= c /\ c <= x + n
  BY DEF Walked
<1>3. PICK off \in Int : off = -x
  OBVIOUS
<1>4. PICK end \in Int : end = x + n
  OBVIOUS
<1>5. a.g \in Array
  BY DEF Walked
<1>6. f.g \in Array /\ Bounded(f.out, c + off, end + off)
  BY <1>1, <1>2, <1>3, <1>4, <1>5, SearchType
<1>7. 0 <= c + off /\ end + off = n /\ c + off \in Int /\ end + off \in Int
  BY <1>2, <1>3, <1>4
<1>8. Bounded(f.out, 0, n)
  BY <1>6, <1>7, BoundedMore
<1>9. Bounded(a.out \o f.out, 0, n)
  BY <1>8, BoundedConcat DEF Walked
<1>10. ToEnd(w, d, a, x + n, -x, cur) = [cur |-> cur, g |-> f.g, out |-> a.out \o f.out]
  BY <1>1 DEF ToEnd
<1>11. x <= cur
  BY <1>2
<1>12. a.out \o f.out \in Seq(Transfer)
  BY <1>9 DEF Bounded
<1>13. PICK o \in Seq(Transfer) : o = a.out \o f.out
  BY <1>12
<1>14. Walked([cur |-> cur, g |-> f.g, out |-> o], x, n)
  BY <1>6, <1>9, <1>11, <1>13 DEF Walked
<1> QED BY <1>10, <1>13, <1>14

LEMMA WalkType ==
  ASSUME WindowType, NEW d, Table(d), NEW x \in Int, NEW n \in Nat, NEW a, Walked(a, x, n),
         NEW r \in [s : Disk, size : Nat \ {0}, t : Disk]
  PROVE  /\ Walked(InFront(d, a, r, x, x + n), x, n)
         /\ Walked(WalkBy(d, a, r, x, x + n), x, n)
<1>1. r.s \in Int /\ r.t \in Int /\ r.size \in Nat /\ x + n \in Int
  BY DEF Disk
<1>2. a.cur \in Int /\ x <= a.cur /\ a.cur <= x + n
  BY DEF Walked
<1>3. Walked(InFront(d, a, r, x, x + n), x, n)
  <2>1. CASE a.cur < r.s
    <3>1. PICK cur : cur = Min({x + n, r.s})
      OBVIOUS
    <3>2. PICK end \in Int : end = x + n
      OBVIOUS
    <3>3. cur = IF end <= r.s THEN end ELSE r.s
      BY <1>1, <3>1, <3>2, TwoNumbers
    <3>4. cur \in Int /\ a.cur <= cur /\ cur <= x + n
      BY <1>1, <1>2, <2>1, <3>2, <3>3
    <3> QED BY <2>1, <3>1, <3>4, ToEndType DEF InFront
  <2>2. CASE ~(a.cur < r.s)
    BY <2>2 DEF InFront
  <2> QED BY <2>1, <2>2
<1>4. PICK b : b = InFront(d, a, r, x, x + n)
  OBVIOUS
<1>5. b \in [cur : Int, g : Array, out : Seq(Transfer)] /\ x <= b.cur /\ b.cur <= x + n /\ Bounded(b.out, 0, n)
  BY <1>3, <1>4 DEF Walked
<1>6. PICK cur \in Int : cur = b.cur
  BY <1>5
<1>7. PICK stop : stop = Until(b.cur, x + n, r.s, r.size)
  OBVIOUS
<1>8. stop \in Int /\ cur <= stop /\ stop <= x + n
  <2>1. CASE cur \in Span(r.s, r.size)
    <3>1. PICK e \in Int : e = r.s + r.size /\ cur < e
      BY <1>1, <2>1 DEF Span
    <3>2. PICK end \in Int : end = x + n
      OBVIOUS
    <3>3. stop = Min({end, e})
      BY <1>6, <1>7, <2>1, <3>1, <3>2 DEF Until
    <3>4. stop = IF end <= e THEN end ELSE e
      BY <3>3, TwoNumbers
    <3> QED BY <1>5, <1>6, <3>1, <3>2, <3>4
  <2>2. CASE cur \notin Span(r.s, r.size)
    BY <1>5, <1>6, <1>7, <2>2 DEF Until
  <2> QED BY <2>1, <2>2
<1>9. Bounded(Piece(cur, stop, -x, r.t - r.s), 0, n)
  <2>1. PICK off \in Int : off = -x
    OBVIOUS
  <2>2. 0 <= cur + off /\ stop + off <= n /\ r.t - r.s \in Int
    BY <1>1, <1>5, <1>6, <1>8, <2>1
  <2>3. PICK shift \in Int : shift = r.t - r.s
    BY <2>2
  <2>4. Bounded(Piece(cur, stop, off, shift), 0, n)
    BY <1>8, <2>2, PieceBounded
  <2> QED BY <2>1, <2>3, <2>4
<1>10. Bounded(b.out \o Piece(cur, stop, -x, r.t - r.s), 0, n)
  BY <1>5, <1>9, BoundedConcat
<1>11. Inside(b, r, x, x + n) = [cur |-> stop, g |-> b.g, out |-> b.out \o Piece(cur, stop, -x, r.t - r.s)]
  <2>1. PICK p : p = Piece(cur, stop, -x, r.t - r.s)
    OBVIOUS
  <2>2. Inside(b, r, x, x + n) = [b EXCEPT !.cur = stop, !.out = @ \o p]
    BY <1>6, <1>7, <2>1 DEF Inside
  <2> QED BY <1>5, <2>1, <2>2
<1>12. x <= stop
  BY <1>5, <1>6, <1>8
<1>14. b.out \o Piece(cur, stop, -x, r.t - r.s) \in Seq(Transfer)
  BY <1>10 DEF Bounded
<1>13. Walked(Inside(b, r, x, x + n), x, n)
  <2>1. PICK o \in Seq(Transfer) : o = b.out \o Piece(cur, stop, -x, r.t - r.s)
    BY <1>14
  <2>2. Bounded(o, 0, n)
    BY <1>10, <2>1
  <2>3. Walked([cur |-> stop, g |-> b.g, out |-> o], x, n)
    BY <1>5, <1>8, <1>12, <2>2 DEF Walked
  <2> QED BY <1>11, <2>1, <2>3
<1> QED BY <1>3, <1>4, <1>13 DEF WalkBy

LEMMA LookupType ==
  ASSUME WindowType, NEW d, Table(d), NEW s, SysTable(s), NEW g \in Array, NEW x \in Int, NEW n \in Nat
  PROVE  Walked(SearchFromSysGroup(w, s, d, g, x, n), x, n)
<1> DEFINE c == Walking(w, s, d, g, x, n)
           T == {k \in Nat : k \in 0..Len(s) => Walked(c[k], x, n)}
<1>1. Len(s) \in Nat /\ DOMAIN s = 1..Len(s) /\ \A k \in DOMAIN s : s[k] \in [s : Disk, size : Nat \ {0}, t : Disk]
  BY Elements DEF SysTable
<1>2. c = [k \in 0..Len(s) |->
             IF k = 0 THEN [cur |-> x, g |-> g, out |-> <<>>]
             ELSE IF Seen(k, Len(s)) THEN WalkBy(d, c[k-1], s[k], x, x + n) ELSE c[k-1]]
  BY <1>1, WalkSteps
<1> HIDE DEF c
<1>3. 0 \in T
  <2>1. c[0] = [cur |-> x, g |-> g, out |-> <<>>]
    BY <1>1, <1>2
  <2>2. Walked([cur |-> x, g |-> g, out |-> <<>>], x, n)
    BY DEF Walked, Bounded
  <2> QED BY <2>1, <2>2
<1>4. ASSUME NEW k \in Nat, k \in T PROVE k + 1 \in T
  <2>1. SUFFICES ASSUME k + 1 \in 0..Len(s) PROVE Walked(c[k+1], x, n)
    OBVIOUS
  <2>2. k \in 0..Len(s) /\ k + 1 # 0 /\ (k + 1) - 1 = k /\ k + 1 \in 1..Len(s)
    BY <1>1, <2>1
  <2>3. c[k+1] = IF Seen(k+1, Len(s)) THEN WalkBy(d, c[k], s[k+1], x, x + n) ELSE c[k]
    BY <1>2, <2>1, <2>2
  <2>4. Walked(c[k], x, n)
    BY <1>4, <2>2
  <2>5. s[k+1] \in [s : Disk, size : Nat \ {0}, t : Disk]
    BY <1>1, <2>2
  <2>6. PICK r \in [s : Disk, size : Nat \ {0}, t : Disk] : r = s[k+1]
    BY <2>5
  <2>7. PICK a : a = c[k]
    OBVIOUS
  <2>8. Walked(WalkBy(d, a, r, x, x + n), x, n)
    BY <2>4, <2>7, WalkType
  <2> QED BY <2>3, <2>4, <2>6, <2>7, <2>8
<1>5. Nat \subseteq T
  BY <1>3, <1>4, Numbers
<1>6. PICK a : a = c[Len(s)]
  OBVIOUS
<1>7. Walked(a, x, n)
  BY <1>1, <1>5, <1>6
<1>8. PICK f : f = SearchFromSysGroup(w, s, d, g, x, n)
  OBVIOUS
<1>9. f = IF a.cur < x + n THEN ToEnd(w, d, a, x + n, -x, x + n) ELSE a
  BY <1>6, <1>8 DEF SearchFromSysGroup, c
<1>10. Walked(f, x, n)
  <2>1. x + n \in Int /\ x + n <= x + n /\ a.cur <= x + n
    BY <1>7 DEF Walked
  <2>2. Walked(ToEnd(w, d, a, x + n, -x, x + n), x, n)
    BY <1>7, <2>1, ToEndType
  <2> QED BY <1>7, <1>9, <2>2
<1> QED BY <1>8, <1>10

-----------------------------------------------------------------------------
(* Where a search finds a sector.                                          *)

\* Transfers find sector i of a request from x on; they cover it.
Right(out, x, i) ==
  \A k \in DOMAIN out : i \in Span(out[k].at, out[k].len) => At(out[k], i) = Home(x + i)
Covered(out, i) == \E k \in DOMAIN out : i \in Span(out[k].at, out[k].len)

\* The last transfer of sector i finds it.
Found(out, x, i) ==
  \E k \in DOMAIN out :
    /\ i \in Span(out[k].at, out[k].len) /\ At(out[k], i) = Home(x + i)
    /\ \A l \in DOMAIN out : l > k /\ i \in Span(out[l].at, out[l].len) => At(out[l], i) = Home(x + i)

\* No transfer is anywhere else than where its sector is, or where a sector of
\* the system was.
Near(out, x) ==
  \A k \in DOMAIN out : \A i \in Span(out[k].at, out[k].len) :
    At(out[k], i) = Home(x + i) \/ (InSys(x + i) /\ At(out[k], i) = x + i)

LEMMA FoundConcat ==
  ASSUME NEW s \in Seq(Transfer), NEW u \in Seq(Transfer), NEW x, NEW i,
         Right(u, x, i), Found(s, x, i) \/ Covered(u, i)
  PROVE  Found(s \o u, x, i)
<1>1. /\ Len(s) \in Nat /\ DOMAIN s = 1..Len(s) /\ Len(u) \in Nat /\ DOMAIN u = 1..Len(u)
      /\ DOMAIN (s \o u) \subseteq Nat
  OBVIOUS
<1>2. /\ \A k \in DOMAIN s : k \in DOMAIN (s \o u) /\ (s \o u)[k] = s[k]
      /\ \A k \in DOMAIN u : Len(s) + k \in DOMAIN (s \o u) /\ (s \o u)[Len(s) + k] = u[k]
      /\ \A k \in DOMAIN (s \o u) :
           \/ k \in DOMAIN s
           \/ k - Len(s) \in DOMAIN u /\ (s \o u)[k] = u[k - Len(s)]
  BY Concat
<1>3. CASE Covered(u, i)
  <2>1. PICK k \in DOMAIN u : i \in Span(u[k].at, u[k].len)
    BY <1>3 DEF Covered
  <2>2. Len(s) + k \in DOMAIN (s \o u) /\ (s \o u)[Len(s) + k] = u[k]
    BY <1>2
  <2>3. At(u[k], i) = Home(x + i)
    BY <2>1 DEF Right
  <2>4. ASSUME NEW l \in DOMAIN (s \o u), l > Len(s) + k, i \in Span((s \o u)[l].at, (s \o u)[l].len)
        PROVE  At((s \o u)[l], i) = Home(x + i)
    <3>1. l \notin DOMAIN s
      BY <1>1, <2>4
    <3>2. l - Len(s) \in DOMAIN u /\ (s \o u)[l] = u[l - Len(s)]
      BY <1>2, <3>1
    <3> QED BY <2>4, <3>2 DEF Right
  <2> QED BY <2>1, <2>2, <2>3, <2>4 DEF Found
<1>4. CASE Found(s, x, i)
  <2>1. PICK k \in DOMAIN s :
          /\ i \in Span(s[k].at, s[k].len) /\ At(s[k], i) = Home(x + i)
          /\ \A l \in DOMAIN s : l > k /\ i \in Span(s[l].at, s[l].len) => At(s[l], i) = Home(x + i)
    BY <1>4 DEF Found
  <2>2. k \in DOMAIN (s \o u) /\ (s \o u)[k] = s[k]
    BY <1>2
  <2>3. ASSUME NEW l \in DOMAIN (s \o u), l > k, i \in Span((s \o u)[l].at, (s \o u)[l].len)
        PROVE  At((s \o u)[l], i) = Home(x + i)
    <3>1. CASE l \in DOMAIN s
      <4>1. (s \o u)[l] = s[l]
        BY <1>2, <3>1
      <4> QED BY <2>1, <2>3, <3>1, <4>1
    <3>2. CASE l - Len(s) \in DOMAIN u /\ (s \o u)[l] = u[l - Len(s)]
      BY <2>3, <3>2 DEF Right
    <3> QED BY <1>2, <3>1, <3>2
  <2> QED BY <2>1, <2>2, <2>3 DEF Found
<1> QED BY <1>3, <1>4

LEMMA NearConcat ==
  ASSUME NEW s \in Seq(Transfer), NEW u \in Seq(Transfer), NEW x, Near(s, x), Near(u, x)
  PROVE  Near(s \o u, x)
<1>1. \A k \in DOMAIN (s \o u) :
        \/ k \in DOMAIN s /\ (s \o u)[k] = s[k]
        \/ k - Len(s) \in DOMAIN u /\ (s \o u)[k] = u[k - Len(s)]
  BY Concat
<1>2. SUFFICES ASSUME NEW k \in DOMAIN (s \o u), NEW i \in Span((s \o u)[k].at, (s \o u)[k].len)
               PROVE  At((s \o u)[k], i) = Home(x + i) \/ (InSys(x + i) /\ At((s \o u)[k], i) = x + i)
  BY DEF Near
<1>3. CASE k \in DOMAIN s /\ (s \o u)[k] = s[k]
  BY <1>3 DEF Near
<1>4. CASE k - Len(s) \in DOMAIN u /\ (s \o u)[k] = u[k - Len(s)]
  BY <1>4 DEF Near
<1> QED BY <1>1, <1>3, <1>4

\* All sectors in front of cur have been found.
Settled(out, x, n, cur) == \A i \in 0..n-1 : x + i < cur => Found(out, x, i)

\* Transfers of what comes next leave what was found before.
LEMMA Onward ==
  ASSUME NEW x \in Int, NEW n \in Nat, NEW cur \in Int, NEW next \in Int, x <= cur, cur <= next,
         NEW s \in Seq(Transfer), Near(s, x), Settled(s, x, n, cur),
         NEW u, Bounded(u, cur - x, n), Near(u, x),
         \A i \in 0..n-1 : cur <= x + i /\ x + i < next => Covered(u, i) /\ Right(u, x, i)
  PROVE  Near(s \o u, x) /\ Settled(s \o u, x, n, next)
<1>1. u \in Seq(Transfer)
  BY DEF Bounded
<1>2. Near(s \o u, x)
  BY <1>1, NearConcat
<1>3. ASSUME NEW i \in 0..n-1, x + i < next PROVE Found(s \o u, x, i)
  <2>1. CASE cur <= x + i
    BY <1>1, <1>3, <2>1, FoundConcat
  <2>2. CASE ~(cur <= x + i)
    <3>1. Found(s, x, i)
      BY <2>2 DEF Settled
    <3>2. Right(u, x, i)
      <4> SUFFICES ASSUME NEW k \in DOMAIN u, i \in Span(u[k].at, u[k].len) PROVE FALSE
        BY DEF Right
      <4>1. cur - x <= u[k].at /\ u[k] \in Transfer
        BY <1>1, Elements DEF Bounded
      <4>2. u[k].at <= i
        BY <4>1 DEF Span, Transfer
      <4>3. u[k].at \in Int
        BY <4>1 DEF Transfer
      <4> QED BY <2>2, <4>1, <4>2, <4>3
    <3> QED BY <1>1, <3>1, <3>2, FoundConcat
  <2> QED BY <2>1, <2>2
<1> QED BY <1>2, <1>3 DEF Settled

LEMMA SysFacts ==
  /\ Len(Sys) \in Nat /\ DOMAIN Sys = 1..Len(Sys)
  /\ \A k \in DOMAIN Sys : /\ Sys[k] \in [s : Disk, size : Nat \ {0}, t : Disk]
                           /\ Sys[k].s \in Nat /\ Sys[k].size \in Nat \ {0} /\ Sys[k].t \in Nat
  /\ SysTable(Sys) /\ SysTable(<<>>)
<1> DEFINE T == [s : Disk, size : Nat \ {0}, t : Disk]
<1>1. Sys \in Seq(T)
  BY DataAssumption
<1>2. Len(Sys) \in Nat /\ DOMAIN Sys = 1..Len(Sys) /\ \A k \in DOMAIN Sys : Sys[k] \in T
  <2> HIDE DEF T
  <2> QED  BY <1>1, Elements
<1>3. <<>> \in Seq(T)
  <2> HIDE DEF T
  <2> QED  OBVIOUS
<1>4. Disk \subseteq Nat
  BY DataAssumption DEF Disk
<1> QED  BY <1>1, <1>2, <1>3, <1>4 DEF SysTable

LEMMA TargetIs ==
  ASSUME NEW x \in Int, NEW k \in DOMAIN Sys, x \in Span(Sys[k].s, Sys[k].size)
  PROVE  InSys(x) /\ Target(x) = x - Sys[k].s + Sys[k].t
<1> DEFINE c == CHOOSE l \in DOMAIN Sys : x \in Span(Sys[l].s, Sys[l].size)
<1>1. c \in DOMAIN Sys /\ x \in Span(Sys[c].s, Sys[c].size)
  OBVIOUS
<1>2. PICK l \in DOMAIN Sys : l = c
  BY <1>1
<1>3. x \in Span(Sys[l].s, Sys[l].size)
  BY <1>1, <1>2
<1>4. l \in Int /\ k \in Int
  BY SysFacts
<1>5. ~(k < l) /\ ~(l < k)
  <2>1. \A i, j \in DOMAIN Sys : i < j => Sys[i].s + Sys[i].size <= Sys[j].s
    BY DataAssumption
  <2>2. Sys[k].s \in Int /\ Sys[k].size \in Int /\ Sys[l].s \in Int /\ Sys[l].size \in Int
    BY SysFacts
  <2> QED  BY <1>3, <2>1, <2>2 DEF Span
<1>6. c = k
  BY <1>2, <1>4, <1>5
<1> QED  BY <1>6 DEF InSys, Target

LEMMA HomeIs ==
  ASSUME MoverInv, GroupInv, NEW x \in Int
  PROVE  /\ InSys(x) => DataHome(x) = x /\ Home(x) = Target(x)
         /\ ~InSys(x) => Home(x) = DataHome(x)
<1>1. InSys(x) => Moves(x) = {}
  BY DEF GroupInv, Moves
<1> QED  BY <1>1 DEF Home, DataHome

\* Transfers that are exactly where the sectors of a request are.
PlaceOfHome(x) == [i \in Int |-> Home(x + i)]

LEMMA ExactlyNear ==
  ASSUME NEW x \in Int, NEW lo \in Int, NEW hi \in Int, NEW u, Exactly(u, lo, hi, PlaceOfHome(x))
  PROVE  /\ u \in Seq(Transfer) /\ Near(u, x)
         /\ \A i \in lo..hi-1 : Covered(u, i) /\ Right(u, x, i)
<1>1. u \in Seq(Transfer)
  BY DEF Exactly, Bounded
<1>2. \A k \in DOMAIN u : u[k].at \in Int /\ u[k].len \in Int
  <2>1. \A k \in DOMAIN u : u[k] \in Transfer
    BY <1>1, Elements
  <2> QED  BY <2>1 DEF Transfer
<1>3. ASSUME NEW k \in DOMAIN u, NEW i \in Span(u[k].at, u[k].len)
      PROVE  At(u[k], i) = Home(x + i)
  <2>1. i \in Int
    BY <1>2 DEF Span
  <2> QED  BY <2>1 DEF Exactly, PlaceOfHome
<1>4. Near(u, x)
  <2> SUFFICES ASSUME NEW k \in DOMAIN u, NEW i \in Span(u[k].at, u[k].len)
               PROVE  At(u[k], i) = Home(x + i) \/ (InSys(x + i) /\ At(u[k], i) = x + i)
    BY DEF Near
  <2> QED  BY <1>3
<1>5. ASSUME NEW i \in lo..hi-1  PROVE  Covered(u, i) /\ Right(u, x, i)
  <2>1. Covered(u, i)
    BY DEF Exactly, Covered
  <2>2. Right(u, x, i)
    BY <1>3 DEF Right
  <2> QED  BY <2>1, <2>2
<1> QED  BY <1>1, <1>4, <1>5

\* A search among the data groups finds the sectors that are not the system's;
\* the others it takes to be where they were.
LEMMA DataNear ==
  ASSUME MoverInv, GroupInv, NEW x \in Int, NEW off, off = -x, NEW lo \in Int, NEW hi \in Int,
         NEW u, Exactly(u, lo, hi, HomeOf(off))
  PROVE  /\ u \in Seq(Transfer) /\ Near(u, x)
         /\ \A i \in lo..hi-1 : Covered(u, i) /\ (~InSys(x + i) => Right(u, x, i))
<1>1. u \in Seq(Transfer)
  BY DEF Exactly, Bounded
<1>2. \A k \in DOMAIN u : u[k].at \in Int /\ u[k].len \in Int
  <2>1. \A k \in DOMAIN u : u[k] \in Transfer
    BY <1>1, Elements
  <2> QED  BY <2>1 DEF Transfer
<1>3. ASSUME NEW k \in DOMAIN u, NEW i \in Span(u[k].at, u[k].len)
      PROVE  IF InSys(x + i) THEN At(u[k], i) = x + i ELSE At(u[k], i) = Home(x + i)
  <2>1. i \in Int
    BY <1>2 DEF Span
  <2>2. At(u[k], i) = HomeOf(off)[i]
    BY DEF Exactly
  <2>3. HomeOf(off)[i] = DataHome(i - off)
    BY <2>1 DEF HomeOf
  <2>4. i - off = x + i /\ x + i \in Int
    BY <2>1
  <2> QED  BY <2>2, <2>3, <2>4, HomeIs
<1>4. Near(u, x)
  <2> SUFFICES ASSUME NEW k \in DOMAIN u, NEW i \in Span(u[k].at, u[k].len)
               PROVE  At(u[k], i) = Home(x + i) \/ (InSys(x + i) /\ At(u[k], i) = x + i)
    BY DEF Near
  <2> QED  BY <1>3
<1>5. ASSUME NEW i \in lo..hi-1  PROVE  Covered(u, i) /\ (~InSys(x + i) => Right(u, x, i))
  <2>1. Covered(u, i)
    BY DEF Exactly, Covered
  <2>2. ~InSys(x + i) => Right(u, x, i)
    BY <1>3 DEF Right
  <2> QED  BY <2>1, <2>2
<1> QED  BY <1>1, <1>4, <1>5

\* What a search has found so far of a request from x on.
Walks(a, x, n) == Walked(a, x, n) /\ Fits(a.g) /\ Near(a.out, x) /\ Settled(a.out, x, n, a.cur)

LEMMA ToEndWalks ==
  ASSUME MoverInv, GroupInv, PlaceInv, ~w.front, Len(data) <= ChunkRecords,
         NEW x \in Int, NEW n \in Nat, x..x+n-1 \subseteq App, NEW a, Walks(a, x, n),
         NEW cur \in Int, a.cur <= cur, cur <= x + n, \A y \in a.cur..cur-1 : ~InSys(y)
  PROVE  LET b == ToEnd(w, data, a, x + n, -x, cur)
         IN Walks(b, x, n) /\ b.cur = cur
<1> PICK off \in Int : off = -x
  OBVIOUS
<1> PICK end \in Int : end = x + n
  OBVIOUS
<1> PICK from \in Int : from = a.cur
  BY DEF Walks, Walked
<1> DEFINE f == SearchFromGroup(w, data, a.g, from, end, off)
           b == ToEnd(w, data, a, x + n, -x, cur)
<1>1. x <= from /\ from <= end /\ from..end-1 \subseteq App
  BY DEF Walks, Walked
<1>2. Fits(f.g) /\ Exactly(f.out, from + off, end + off, HomeOf(off))
  BY <1>1, SearchFinds DEF Walks
<1>3. from + off = from - x /\ end + off = n
  OBVIOUS
<1>4. Exactly(f.out, from - x, n, HomeOf(off))
  BY <1>2, <1>3
<1>5. PICK u : u = f.out
  OBVIOUS
<1>6. Exactly(u, from - x, n, HomeOf(off)) /\ from - x \in Int
  BY <1>4, <1>5
<1>7. /\ u \in Seq(Transfer) /\ Near(u, x)
      /\ \A i \in from-x..n-1 : Covered(u, i) /\ (~InSys(x + i) => Right(u, x, i))
  <2> PICK lo \in Int : lo = from - x
    BY <1>6
  <2>1. Exactly(u, lo, n, HomeOf(off)) /\ n \in Int
    BY <1>6
  <2>2. /\ u \in Seq(Transfer) /\ Near(u, x)
        /\ \A i \in lo..n-1 : Covered(u, i) /\ (~InSys(x + i) => Right(u, x, i))
    <3> HIDE DEF f, b
    <3> QED  BY <2>1, DataNear
  <2> QED  BY <2>2
<1>8. Bounded(u, from - x, n)
  BY <1>6 DEF Exactly
<1>9. \A i \in 0..n-1 : from <= x + i /\ x + i < cur => Covered(u, i) /\ Right(u, x, i)
  <2> SUFFICES ASSUME NEW i \in 0..n-1, from <= x + i, x + i < cur
               PROVE  Covered(u, i) /\ Right(u, x, i)
    OBVIOUS
  <2>1. i \in from-x..n-1 /\ x + i \in a.cur..cur-1
    OBVIOUS
  <2> QED  BY <1>7, <2>1
<1>10. a.out \in Seq(Transfer) /\ Near(a.out, x) /\ Settled(a.out, x, n, from)
  BY DEF Walks, Walked
<1>11. Near(a.out \o u, x) /\ Settled(a.out \o u, x, n, cur)
  BY <1>1, <1>7, <1>8, <1>9, <1>10, Onward
<1>12. b = [cur |-> cur, g |-> f.g, out |-> a.out \o u]
  BY <1>5 DEF ToEnd
<1>13. Walked(b, x, n)
  BY WindowFacts, Tables, ToEndType DEF Walks
<1>14. PICK c : c = b
  OBVIOUS
<1>15. c.cur = cur /\ c.g = f.g /\ c.out = a.out \o u
  BY <1>12, <1>14
<1>16. Walks(c, x, n)
  <2> HIDE DEF b, f
  <2> QED  BY <1>2, <1>11, <1>13, <1>14, <1>15 DEF Walks
<1> QED  BY <1>14, <1>15, <1>16

\* The first k groups are behind.
Behind(k, cur, end) == \A q \in DOMAIN Sys : q <= k => cur >= Sys[q].s + Sys[q].size \/ cur = end

LEMMA InsideWalks ==
  ASSUME MoverInv, GroupInv, NEW x \in Int, NEW n \in Nat, NEW a, Walks(a, x, n),
         NEW k \in DOMAIN Sys
  PROVE  LET b == Inside(a, Sys[k], x, x + n)
         IN /\ Walks(b, x, n) /\ a.cur <= b.cur
            /\ a.cur >= Sys[k].s \/ a.cur = x + n => b.cur >= Sys[k].s + Sys[k].size \/ b.cur = x + n
<1> PICK end \in Int : end = x + n
  OBVIOUS
<1> PICK from \in Int : from = a.cur
  BY DEF Walks, Walked
<1> PICK s \in Int, size \in Int, t \in Int : s = Sys[k].s /\ size = Sys[k].size /\ t = Sys[k].t /\ size > 0
  BY SysFacts
<1>1. x <= from /\ from <= end
  BY DEF Walks, Walked
<1>2. Min({end, s + size}) = IF end <= s + size THEN end ELSE s + size
  <2> PICK m \in Int : m = s + size
    OBVIOUS
  <2>1. Min({end, m}) = IF end <= m THEN end ELSE m
    BY TwoNumbers
  <2> QED  BY <2>1
<1>3. PICK stop \in Int : stop = Until(from, end, s, size)
  BY <1>2 DEF Until
<1>4. from <= stop /\ stop <= end /\ (from >= s \/ from = end => stop >= s + size \/ stop = end)
  BY <1>1, <1>2, <1>3 DEF Until, Span
<1>5. \A y \in from..stop-1 : y \in Span(s, size)
  BY <1>1, <1>2, <1>3 DEF Until, Span
<1> PICK off \in Int : off = -x
  OBVIOUS
<1> PICK shift \in Int : shift = t - s
  OBVIOUS
<1>6. PICK place : place = PlaceOfHome(x)
  OBVIOUS
<1>7. \A y \in from..stop-1 : place[y + off] = y + shift
  <2> SUFFICES ASSUME NEW y \in from..stop-1  PROVE  place[y + off] = y + shift
    OBVIOUS
  <2>1. InSys(y) /\ Target(y) = y - s + t
    BY <1>5, TargetIs
  <2>2. Home(y) = y - s + t
    BY <2>1, HomeIs
  <2>3. place[y + off] = Home(x + (y + off))
    BY <1>6 DEF PlaceOfHome
  <2>4. x + (y + off) = y
    OBVIOUS
  <2> QED  BY <2>2, <2>3, <2>4
<1>8. PICK u : u = Piece(from, stop, off, shift)
  OBVIOUS
<1>9. Exactly(u, from + off, stop + off, place)
  BY <1>7, <1>8, PieceExactly
<1> PICK lo \in Int, hi \in Int : lo = from + off /\ hi = stop + off
  OBVIOUS
<1>10. /\ u \in Seq(Transfer) /\ Near(u, x)
       /\ \A i \in lo..hi-1 : Covered(u, i) /\ Right(u, x, i)
  BY <1>6, <1>9, ExactlyNear
<1>11. Bounded(u, from - x, n)
  <2>1. Bounded(u, lo, hi)
    BY <1>9 DEF Exactly
  <2>2. lo = from - x /\ hi <= n
    BY <1>4
  <2>3. Bounded(u, lo, n)
    BY <2>1, <2>2, BoundedMore
  <2> QED  BY <2>2, <2>3
<1>12. \A i \in 0..n-1 : from <= x + i /\ x + i < stop => Covered(u, i) /\ Right(u, x, i)
  <2> SUFFICES ASSUME NEW i \in 0..n-1, from <= x + i, x + i < stop
               PROVE  Covered(u, i) /\ Right(u, x, i)
    OBVIOUS
  <2>1. i \in lo..hi-1
    OBVIOUS
  <2> QED  BY <1>10, <2>1
<1>13. a.out \in Seq(Transfer) /\ Near(a.out, x) /\ Settled(a.out, x, n, from)
  BY DEF Walks, Walked
<1>14. Near(a.out \o u, x) /\ Settled(a.out \o u, x, n, stop)
  BY <1>1, <1>4, <1>10, <1>11, <1>12, <1>13, Onward
<1>15. PICK b : b = Inside(a, Sys[k], x, x + n)
  OBVIOUS
<1>16. b = [cur |-> stop, g |-> a.g, out |-> a.out \o u]
  <2>1. b = [a EXCEPT !.cur = stop, !.out = @ \o u]
    BY <1>3, <1>8, <1>15 DEF Inside
  <2>2. a \in [cur : Int, g : Array, out : Seq(Transfer)]
    BY DEF Walks, Walked
  <2> QED  BY <2>1, <2>2
<1>17. b.cur = stop /\ b.g = a.g /\ b.out = a.out \o u
  BY <1>16
<1>18. Walked(b, x, n)
  <2>1. b \in [cur : Int, g : Array, out : Seq(Transfer)]
    <3>1. a.out \o u \in Seq(Transfer)
      BY <1>10, <1>13, Concat
    <3>2. a.g \in Array
      BY DEF Walks, Walked
    <3> QED  BY <1>16, <3>1, <3>2
  <2>2. Bounded(u, 0, n)
    <3> PICK l \in Int : l = from - x
      OBVIOUS
    <3>1. 0 \in Int /\ 0 <= l
      BY <1>1
    <3> QED  BY <1>11, <3>1, BoundedMore
  <2>3. Bounded(a.out, 0, n)
    BY DEF Walks, Walked
  <2>4. Bounded(b.out, 0, n)
    BY <1>17, <2>2, <2>3, BoundedConcat
  <2>5. x <= b.cur /\ b.cur <= x + n
    BY <1>1, <1>4, <1>17
  <2> QED  BY <2>1, <2>4, <2>5 DEF Walked
<1>19. Walks(b, x, n)
  BY <1>14, <1>17, <1>18 DEF Walks
<1> QED  BY <1>4, <1>15, <1>17, <1>19

\* No sector in front of the next system group is the system's.
LEMMA InFrontOfSys ==
  ASSUME NEW k \in 1..Len(Sys)+1, NEW cur \in Int, NEW end \in Int, cur < end, Behind(k - 1, cur, end),
         NEW stop \in Int, k <= Len(Sys) => stop <= Sys[k].s
  PROVE  \A y \in cur..stop-1 : ~InSys(y)
<1> SUFFICES ASSUME NEW y \in cur..stop-1, NEW q \in DOMAIN Sys, y \in Span(Sys[q].s, Sys[q].size)
             PROVE  FALSE
  BY DEF InSys
<1>1. Sys[q].s \in Int /\ Sys[q].size \in Int /\ q \in 1..Len(Sys) /\ Len(Sys) \in Nat
  BY SysFacts
<1>2. CASE q <= k - 1
  <2>1. cur >= Sys[q].s + Sys[q].size
    BY <1>2 DEF Behind
  <2> QED  BY <1>1, <2>1 DEF Span
<1>3. CASE q > k - 1
  <2>1. k \in DOMAIN Sys /\ Sys[k].s \in Int /\ Sys[k].size \in Int /\ Sys[k].size > 0
    BY <1>1, <1>3, SysFacts
  <2>2. q = k \/ Sys[k].s + Sys[k].size <= Sys[q].s
    <3>1. \A i, j \in DOMAIN Sys : i < j => Sys[i].s + Sys[i].size <= Sys[j].s
      BY DataAssumption
    <3>2. q = k \/ k < q
      BY <1>1, <1>3
    <3> QED  BY <2>1, <3>1, <3>2
  <2>3. Sys[k].s <= Sys[q].s
    <3>1. CASE q = k
      BY <1>1, <3>1
    <3>2. CASE Sys[k].s + Sys[k].size <= Sys[q].s
      BY <1>1, <2>1, <3>2
    <3> QED  BY <2>2, <3>1, <3>2
  <2>4. stop <= Sys[k].s
    BY <1>1, <1>3
  <2>5. Sys[q].s <= y
    BY <1>1 DEF Span
  <2> PICK i \in Int, j \in Int, z \in Int : i = Sys[k].s /\ j = Sys[q].s /\ z = y
    BY <1>1, <2>1
  <2>6. stop <= i /\ i <= j /\ j <= z /\ z < stop
    BY <2>3, <2>4, <2>5
  <2> QED  BY <2>6
<1> QED  BY <1>1, <1>2, <1>3

LEMMA WalkWalks ==
  ASSUME MoverInv, GroupInv, PlaceInv, ~w.front, Len(data) <= ChunkRecords,
         NEW x \in Int, NEW n \in Nat, x..x+n-1 \subseteq App, NEW a, Walks(a, x, n),
         NEW k \in DOMAIN Sys, Behind(k - 1, a.cur, x + n)
  PROVE  LET b == WalkBy(data, a, Sys[k], x, x + n)
         IN Walks(b, x, n) /\ Behind(k, b.cur, x + n)
<1> PICK end \in Int : end = x + n
  OBVIOUS
<1> PICK from \in Int : from = a.cur
  BY DEF Walks, Walked
<1> PICK s \in Int, size \in Int : s = Sys[k].s /\ size = Sys[k].size /\ size > 0
  BY SysFacts
<1>1. x <= from /\ from <= end /\ k \in 1..Len(Sys) /\ Len(Sys) \in Nat
  BY SysFacts DEF Walks, Walked
<1>2. CASE from = end
  <2>1. WalkBy(data, a, Sys[k], x, x + n) = a
    BY <1>2 DEF WalkBy
  <2>2. Behind(k, a.cur, x + n)
    BY <1>2 DEF Behind
  <2> QED  BY <2>1, <2>2
<1>3. CASE from # end
  <2>1. PICK c : c = InFront(data, a, Sys[k], x, x + n)
    OBVIOUS
  <2>2. Walks(c, x, n) /\ from <= c.cur /\ (c.cur >= s \/ c.cur = end)
    <3>1. CASE from < s
      <4>1. Min({end, s}) = IF end <= s THEN end ELSE s
        BY TwoNumbers
      <4>2. PICK stop \in Int : stop = Min({end, s})
        BY <4>1
      <4>3. from <= stop /\ stop <= end /\ stop <= s /\ (stop = s \/ stop = end)
        <5>1. stop = IF end <= s THEN end ELSE s
          BY <4>1, <4>2
        <5>2. from <= end
          BY <1>1
        <5> QED  BY <3>1, <5>1, <5>2
      <4>4. \A y \in a.cur..stop-1 : ~InSys(y)
        <5>0. k \in 1..Len(Sys)+1
          BY <1>1
        <5> PICK q \in 1..Len(Sys)+1 : q = k
          BY <5>0
        <5>1. from < end
          BY <1>1, <1>3, SMTT(40)
        <5>3. Behind(q - 1, from, end) /\ (q <= Len(Sys) => stop <= Sys[q].s)
          BY <4>3
        <5>2. \A y \in from..stop-1 : ~InSys(y)
          BY <5>1, <5>3, InFrontOfSys
        <5> QED  BY <5>2
      <4>5. PICK b : b = ToEnd(w, data, a, x + n, -x, stop)
        OBVIOUS
      <4>6. a.cur <= stop /\ stop <= x + n
        BY <4>3
      <4>7. Walks(ToEnd(w, data, a, x + n, -x, stop), x, n) /\ ToEnd(w, data, a, x + n, -x, stop).cur = stop
        BY <4>4, <4>6, ToEndWalks, SMTT(60)
      <4>8. Walks(b, x, n) /\ b.cur = stop
        BY <4>5, <4>7
      <4>9. c = b
        BY <2>1, <3>1, <4>2, <4>5 DEF InFront
      <4> QED  BY <4>3, <4>8, <4>9
    <3>2. CASE ~(from < s)
      <4>1. c = a
        BY <2>1, <3>2 DEF InFront
      <4> QED  BY <3>2, <4>1
    <3> QED  BY <3>1, <3>2
  <2>3. PICK b : b = Inside(c, Sys[k], x, x + n)
    OBVIOUS
  <2>4. Walks(b, x, n) /\ c.cur <= b.cur /\ (b.cur >= s + size \/ b.cur = end)
    BY <2>2, <2>3, InsideWalks
  <2>5. b = WalkBy(data, a, Sys[k], x, x + n)
    BY <1>3, <2>1, <2>3 DEF WalkBy
  <2>6. Behind(k, b.cur, end)
    <3> SUFFICES ASSUME NEW q \in DOMAIN Sys, q <= k
                 PROVE  b.cur >= Sys[q].s + Sys[q].size \/ b.cur = end
      BY DEF Behind
    <3>1. b.cur \in Int /\ c.cur \in Int /\ Sys[q].s \in Int /\ Sys[q].size \in Int /\ q \in Int /\ k \in Int
      BY <2>2, <2>4, SysFacts DEF Walks, Walked
    <3>2. CASE q = k
      BY <2>4, <3>2
    <3>3. CASE q # k
      <4>1. q <= k - 1
        BY <3>1, <3>3
      <4>2. from >= Sys[q].s + Sys[q].size
        BY <1>3, <4>1 DEF Behind
      <4>3. from <= c.cur /\ c.cur <= b.cur
        BY <2>2, <2>4
      <4>0. Sys[q].s + Sys[q].size \in Int /\ b.cur \in Int /\ c.cur \in Int
        BY <3>1
      <4> PICK u \in Int, v \in Int, z \in Int : u = b.cur /\ v = c.cur /\ z = Sys[q].s + Sys[q].size
        BY <4>0, Zenon
      <4>4. (from >= z \/ from = end) /\ from <= v /\ v <= u /\ u <= end
        <5>1. b.cur <= end
          BY <2>4 DEF Walks, Walked
        <5> QED  BY <4>2, <4>3, <5>1
      <4>5. u >= z \/ u = end
        BY <4>4
      <4> QED  BY <4>5
    <3> QED  BY <3>2, <3>3
  <2> QED  BY <2>4, <2>5, <2>6
<1> QED  BY <1>2, <1>3

\* With both tables read and no group moved from its front, a lookup finds every
\* sector of the request, and it touches no sector of the applications that the
\* request does not name.
LEMMA SearchWalks ==
  ASSUME MoverInv, GroupInv, PlaceInv, ~w.front, Len(data) <= ChunkRecords, Len(Sys) <= ChunkRecords,
         NEW x \in Int, NEW n \in Nat, x..x+n-1 \subseteq App, NEW g, Fits(g)
  PROVE  LET b == SearchFromSysGroup(w, Sys, data, g, x, n)
         IN /\ b.g \in Array /\ Fits(b.g) /\ Bounded(b.out, 0, n) /\ Near(b.out, x)
            /\ \A i \in 0..n-1 : Found(b.out, x, i)
<1> PICK end \in Int : end = x + n
  OBVIOUS
<1> PICK m \in Nat : m = Len(Sys) /\ DOMAIN Sys = 1..m /\ m <= ChunkRecords
  BY SysFacts
<1>1. PICK c : c = Walking(w, Sys, data, g, x, n)
  OBVIOUS
<1>2. c = [k \in 0..m |->
             IF k = 0 THEN [cur |-> x, g |-> g, out |-> <<>>]
             ELSE IF Seen(k, m) THEN WalkBy(data, c[k-1], Sys[k], x, x + n) ELSE c[k-1]]
  BY <1>1, WalkSteps
<1> DEFINE Good(k) == Walks(c[k], x, n) /\ Behind(k, c[k].cur, x + n)
           T == {k \in Nat : k <= m => Good(k)}
<1>3. 0 \in T
  <2>1. c[0] = [cur |-> x, g |-> g, out |-> <<>>]
    BY <1>2
  <2>2. Walked(c[0], x, n)
    <3>1. <<>> \in Seq(Transfer) /\ Bounded(<<>>, 0, n)
      <4>1. Exactly(<<>>, 0, 0, x)
        BY ExactlyNothing
      <4>2. Bounded(<<>>, 0, 0)
        BY <4>1 DEF Exactly
      <4>3. PICK zero \in Int : zero = 0
        OBVIOUS
      <4>4. Bounded(<<>>, zero, n)
        BY <4>2, <4>3, BoundedMore
      <4> QED  BY <4>3, <4>4 DEF Bounded
    <3>2. g \in Array
      BY DEF Fits
    <3> QED  BY <2>1, <3>1, <3>2 DEF Walked
  <2>3. Near(<<>>, x)
    BY DEF Near
  <2>4. Settled(<<>>, x, n, x)
    BY DEF Settled
  <2>5. Behind(0, x, x + n)
    BY SysFacts DEF Behind
  <2>6. c[0].cur = x /\ c[0].g = g /\ c[0].out = <<>>
    BY <2>1
  <2>7. Walks(c[0], x, n)
    BY <2>2, <2>3, <2>4, <2>6 DEF Walks
  <2> QED  BY <2>5, <2>6, <2>7
<1>4. ASSUME NEW k \in Nat, k \in T  PROVE  k + 1 \in T
  <2> SUFFICES ASSUME k + 1 <= m  PROVE  Good(k + 1)
    OBVIOUS
  <2>1. Good(k)
    BY <1>4
  <2>2. Seen(k + 1, m)
    BY AllSeen
  <2>3. PICK b : b = WalkBy(data, c[k], Sys[k+1], x, x + n)
    OBVIOUS
  <2>4. c[k+1] = b
    BY <1>2, <2>2, <2>3
  <2>5. PICK a : a = c[k]
    OBVIOUS
  <2>6. PICK q \in DOMAIN Sys : q = k + 1 /\ q - 1 = k
    OBVIOUS
  <2>7. Walks(a, x, n) /\ Behind(q - 1, a.cur, x + n)
    BY <2>1, <2>5, <2>6
  <2>8. Walks(b, x, n) /\ Behind(q, b.cur, x + n)
    BY <2>3, <2>5, <2>6, <2>7, WalkWalks
  <2> QED  BY <2>4, <2>6, <2>8
<1>5. m \in T
  <2> HIDE DEF T
  <2> QED  BY <1>3, <1>4, Numbers
<1>6. PICK a : a = c[m]
  OBVIOUS
<1>7. Walks(a, x, n) /\ Behind(m, a.cur, x + n)
  BY <1>5, <1>6
<1>8. a.cur \in Int /\ x <= a.cur /\ a.cur <= end
  BY <1>7 DEF Walks, Walked
<1>9. PICK b : b = SearchFromSysGroup(w, Sys, data, g, x, n)
  OBVIOUS
<1>10. b = IF a.cur < x + n THEN ToEnd(w, data, a, x + n, -x, x + n) ELSE a
  BY <1>1, <1>6, <1>9 DEF SearchFromSysGroup
<1>11. Walks(b, x, n) /\ b.cur = end
  <2>1. CASE a.cur < end
    <3>1. \A y \in a.cur..end-1 : ~InSys(y)
      <4>1. m + 1 \in 1..Len(Sys)+1 /\ Behind((m + 1) - 1, a.cur, end)
        BY <1>7
      <4> PICK q \in 1..Len(Sys)+1 : q = m + 1 /\ q - 1 = m
        BY <4>1
      <4>2. Behind(q - 1, a.cur, end) /\ ~(q <= Len(Sys))
        BY <1>7
      <4> QED  BY <1>8, <2>1, <4>2, InFrontOfSys
    <3>2. Walks(ToEnd(w, data, a, x + n, -x, end), x, n) /\ ToEnd(w, data, a, x + n, -x, end).cur = end
      BY <1>7, <1>8, <3>1, ToEndWalks
    <3> QED  BY <1>10, <2>1, <3>2
  <2>2. CASE ~(a.cur < end)
    BY <1>7, <1>8, <1>10, <2>2
  <2> QED  BY <2>1, <2>2
<1>12. \A i \in 0..n-1 : Found(b.out, x, i)
  <2>1. Settled(b.out, x, n, end)
    BY <1>11 DEF Walks
  <2> QED  BY <2>1 DEF Settled
<1> QED  BY <1>9, <1>11, <1>12 DEF Walks, Walked, Fits

-----------------------------------------------------------------------------
(* What the transfers of a request do.                                     *)

\* The last of the transfers that S names.
LEMMA LastOne ==
  ASSUME NEW out \in Seq(Transfer), NEW S, S \subseteq DOMAIN out, S # {}
  PROVE  /\ Max(S) \in S /\ \A k \in S : k <= Max(S)
         /\ LastOf(out, S) = out[Max(S)] /\ LastOf(out, S) \in Transfer
<1>1. Len(out) \in Nat /\ DOMAIN out = 1..Len(out) /\ \A k \in DOMAIN out : out[k] \in Transfer
  BY Elements
<1>2. S \subseteq 0..Len(out)
  BY <1>1
<1>3. Max(S) \in S /\ \A k \in S : k <= Max(S)
  BY <1>1, <1>2, Largest
<1> QED  BY <1>1, <1>3 DEF LastOf

\* A read or a write does what the last transfer of the sector does.
LEMMA WrittenBy ==
  ASSUME NEW out \in Seq(Transfer), NEW d, NEW b, NEW y \in DOMAIN d
  PROVE  \/ /\ \A k \in DOMAIN out : y \notin Span(out[k].lba, out[k].len)
            /\ Writing(d, b, out)[y] = d[y]
         \/ \E k \in DOMAIN out :
              /\ y \in Span(out[k].lba, out[k].len)
              /\ \A l \in DOMAIN out : y \in Span(out[l].lba, out[l].len) => l <= k
              /\ Writing(d, b, out)[y] = b[out[k].at + y - out[k].lba]
<1> DEFINE S == {k \in DOMAIN out : y \in Span(out[k].lba, out[k].len)}
<1>1. Writing(d, b, out)[y] = IF S = {} THEN d[y] ELSE b[LastOf(out, S).at + y - LastOf(out, S).lba]
  BY DEF Writing
<1>2. CASE S = {}
  BY <1>1, <1>2
<1>3. CASE S # {}
  <2>1. Max(S) \in S /\ (\A k \in S : k <= Max(S)) /\ LastOf(out, S) = out[Max(S)]
    <3>1. S \subseteq DOMAIN out
      OBVIOUS
    <3> HIDE DEF S
    <3> QED  BY <1>3, <3>1, LastOne
  <2>2. PICK k \in DOMAIN out : k = Max(S)
    BY <2>1
  <2>3. LastOf(out, S) = out[k]
    BY <2>1, <2>2
  <2>4. Writing(d, b, out)[y] = b[out[k].at + y - out[k].lba]
    <3> HIDE DEF S
    <3> QED  BY <1>1, <1>3, <2>3
  <2> QED  BY <2>1, <2>2, <2>4
<1> QED  BY <1>2, <1>3

LEMMA ReadBy ==
  ASSUME NEW out \in Seq(Transfer), NEW d, NEW n, NEW i \in 0..n-1
  PROVE  \/ \A k \in DOMAIN out : i \notin Span(out[k].at, out[k].len)
         \/ \E k \in DOMAIN out :
              /\ i \in Span(out[k].at, out[k].len)
              /\ \A l \in DOMAIN out : i \in Span(out[l].at, out[l].len) => l <= k
              /\ Reading(d, n, out)[i] = d[At(out[k], i)]
<1> DEFINE S == {k \in DOMAIN out : i \in Span(out[k].at, out[k].len)}
<1>1. Reading(d, n, out)[i] = IF S = {} THEN 0 ELSE d[LastOf(out, S).lba + i - LastOf(out, S).at]
  BY DEF Reading
<1>2. CASE S = {}
  BY <1>2
<1>3. CASE S # {}
  <2>1. Max(S) \in S /\ (\A k \in S : k <= Max(S)) /\ LastOf(out, S) = out[Max(S)]
    <3>1. S \subseteq DOMAIN out
      OBVIOUS
    <3> HIDE DEF S
    <3> QED  BY <1>3, <3>1, LastOne
  <2>2. PICK k \in DOMAIN out : k = Max(S)
    BY <2>1
  <2>3. LastOf(out, S) = out[k]
    BY <2>1, <2>2
  <2>4. Reading(d, n, out)[i] = d[At(out[k], i)]
    <3> HIDE DEF S
    <3> QED  BY <1>1, <1>3, <2>3 DEF At
  <2> QED  BY <2>1, <2>2, <2>4
<1> QED  BY <1>2, <1>3

\* A sector from its place on one side to its place on the other.
LEMMA Across ==
  ASSUME NEW p \in Int, NEW q \in Int, NEW len \in Int, NEW n \in Int, 0 <= q, q + len <= n,
         NEW y \in Span(p, len)
  PROVE  /\ q + y - p \in 0..n-1 /\ q + y - p \in Span(q, len)
         /\ p + (q + y - p) - q = y
<1>1. y \in Int /\ p <= y /\ y <= p + len - 1
  BY DEF Span
<1> PICK z \in Int : z = y
  BY <1>1
<1> PICK i \in Int : i = z - p
  OBVIOUS
<1>2. 0 <= i /\ i <= len - 1
  BY <1>1
<1>3. q + y - p = q + i
  OBVIOUS
<1>4. q + i \in 0..n-1 /\ q + i \in q..q+len-1
  BY <1>2
<1>5. p + (q + i) - q = y
  OBVIOUS
<1> QED  BY <1>3, <1>4, <1>5 DEF Span

\* And on the other side.
LEMMA Back ==
  ASSUME NEW p \in Int, NEW q \in Int, NEW len \in Int, NEW i \in Span(q, len)
  PROVE  p + i - q \in Span(p, len)
<1>1. i \in Int /\ q <= i /\ i <= q + len - 1
  BY DEF Span
<1> PICK j \in Int : j = i - q
  BY <1>1
<1>2. j \in 0..len-1 /\ p + i - q = p + j
  BY <1>1
<1> QED  BY <1>2, Shifted DEF Span

\* A write leaves contents on the disk.
LEMMA WritingType ==
  ASSUME NEW d \in [Disk -> Contents], NEW n \in Nat, NEW b \in [0..n-1 -> Contents],
         NEW out, Bounded(out, 0, n)
  PROVE  Writing(d, b, out) \in [Disk -> Contents]
<1>1. out \in Seq(Transfer) /\ \A k \in DOMAIN out : 0 <= out[k].at /\ out[k].at + out[k].len <= n
  BY DEF Bounded
<1>2. \A k \in DOMAIN out : out[k].at \in Int /\ out[k].lba \in Int /\ out[k].len \in Int
  <2>1. \A k \in DOMAIN out : out[k] \in Transfer
    BY <1>1, Elements
  <2> QED  BY <2>1 DEF Transfer
<1>3. DOMAIN d = Disk /\ Disk \subseteq Int
  BY DataAssumption DEF Disk
<1>4. ASSUME NEW y \in Disk  PROVE  Writing(d, b, out)[y] \in Contents
  <2>1. CASE Writing(d, b, out)[y] = d[y]
    BY <2>1
  <2>2. CASE \E k \in DOMAIN out : /\ y \in Span(out[k].lba, out[k].len)
                                   /\ Writing(d, b, out)[y] = b[out[k].at + y - out[k].lba]
    <3>1. PICK k \in DOMAIN out : /\ y \in Span(out[k].lba, out[k].len)
                                  /\ Writing(d, b, out)[y] = b[out[k].at + y - out[k].lba]
      BY <2>2
    <3>2. out[k].at + y - out[k].lba \in 0..n-1
      <4> PICK at \in Int, lba \in Int, len \in Int : at = out[k].at /\ lba = out[k].lba /\ len = out[k].len
        BY <1>2
      <4> PICK m \in Int : m = n
        OBVIOUS
      <4>1. 0 <= at /\ at + len <= m /\ y \in Span(lba, len)
        BY <1>1, <3>1
      <4>2. at + y - lba \in 0..m-1
        BY <4>1, Across, Zenon
      <4> QED  BY <4>2
    <3> QED  BY <3>1, <3>2
  <2> QED  BY <1>1, <1>3, <2>1, <2>2, WrittenBy
<1>5. Writing(d, b, out) = [y \in Disk |-> Writing(d, b, out)[y]]
  BY <1>3 DEF Writing
<1> QED  BY <1>4, <1>5

\* The transfers of a request are within it, whichever tables can be read.
LEMMA LinearType ==
  ASSUME NEW q \in Requests
  PROVE  Bounded(Piece(q.start, q.start + q.size, -q.start, 0), 0, q.size)
<1> PICK s \in Int, n \in Nat : s = q.start /\ n = q.size /\ n > 0
  BY DataAssumption DEF Requests, Disk
<1> PICK hi \in Int, off \in Int, zero \in Int, m \in Int : hi = s + n /\ off = -s /\ zero = 0 /\ m = n
  OBVIOUS
<1>1. s < hi => zero <= s + off /\ hi + off <= m
  OBVIOUS
<1>2. Bounded(Piece(s, hi, off, zero), zero, m)
  BY <1>1, PieceBounded, Zenon
<1> QED  BY <1>2

LEMMA RequestFacts ==
  ASSUME NEW q \in Requests
  PROVE  q.start \in Nat /\ q.size \in Nat \ {0} /\ q.start + q.size <= Size /\ Size \in Nat
BY DataAssumption DEF Requests, Disk

LEMMA TransfersType ==
  ASSUME MoverInv, GroupInv, final \in Array, NEW q \in Requests, NEW op, NEW failed
  PROVE  LET tr == Transfers(op, q, failed)
         IN tr.g \in Array /\ Bounded(tr.out, 0, q.size)
<1> DEFINE s == IF "sys" \in failed THEN <<>> ELSE Sys
           d == IF "data" \in failed THEN <<>> ELSE data
           moved == SearchFromSysGroup(w, s, d, final, q.start, q.size)
           plain == Piece(q.start, q.start + q.size, -q.start, 0)
<1>1. SysTable(s) /\ Table(d)
  BY SysFacts, Tables
<1>2. Walked(moved, q.start, q.size)
  <2>1. q.start \in Int /\ q.size \in Nat
    BY RequestFacts
  <2> HIDE DEF s, d
  <2> QED  BY <1>1, <2>1, WindowFacts, LookupType
<1>3. Bounded(plain, 0, q.size)
  BY LinearType
<1>4. ReadWriteFromGroup(q, TRUE, failed) = moved
  BY DEF ReadWriteFromGroup
<1>5. ReadWriteFromGroup(q, FALSE, failed) = [out |-> plain, g |-> final]
  BY DEF ReadWriteFromGroup
<1>6. PICK m : m = moved
  OBVIOUS
<1>7. PICK u : u = plain
  OBVIOUS
<1>8. m \in [cur : Int, g : Array, out : Seq(Transfer)] /\ Bounded(m.out, 0, q.size)
  BY <1>2, <1>6 DEF Walked
<1>9. Bounded(u \o m.out, 0, q.size)
  <2>1. PICK zero \in Int, n \in Int : zero = 0 /\ n = q.size
    BY RequestFacts
  <2>2. Bounded(u, zero, n) /\ Bounded(m.out, zero, n)
    BY <1>3, <1>7, <1>8, <2>1
  <2>3. Bounded(u \o m.out, zero, n)
    BY <2>2, BoundedConcat
  <2> QED  BY <2>1, <2>3
<1> HIDE DEF moved, plain
<1>10. CASE phase = "protect" /\ op = "WRITE"
  <2>1. Transfers(op, q, failed) = [m EXCEPT !.out = u \o m.out]
    <3>1. Transfers(op, q, failed) =
            [ReadWriteFromGroup(q, TRUE, failed) EXCEPT
               !.out = ReadWriteFromGroup(q, FALSE, failed).out \o ReadWriteFromGroup(q, TRUE, failed).out]
      BY <1>10 DEF Transfers
    <3>2. ReadWriteFromGroup(q, TRUE, failed) = m /\ ReadWriteFromGroup(q, FALSE, failed).out = u
      <4>1. ReadWriteFromGroup(q, TRUE, failed) = m
        BY <1>4, <1>6
      <4>2. PICK p : p = ReadWriteFromGroup(q, FALSE, failed)
        OBVIOUS
      <4>3. p = [out |-> u, g |-> final]
        BY <1>5, <1>7, <4>2
      <4>4. p.out = u
        BY <4>3
      <4> QED  BY <4>1, <4>2, <4>4
    <3> QED  BY <3>1, <3>2
  <2>2. Transfers(op, q, failed).out = u \o m.out /\ Transfers(op, q, failed).g = m.g
    BY <1>8, <2>1
  <2> QED  BY <1>8, <1>9, <2>2
<1>11. CASE ~(phase = "protect" /\ op = "WRITE")
  <2>1. Transfers(op, q, failed) = ReadWriteFromGroup(q, phase = "working", failed)
    BY <1>11 DEF Transfers
  <2>2. CASE phase = "working"
    <3>1. Transfers(op, q, failed) = m
      BY <1>4, <1>6, <2>1, <2>2
    <3> QED  BY <1>8, <3>1
  <2>3. CASE phase # "working"
    <3>1. Transfers(op, q, failed) = [out |-> u, g |-> final]
      BY <1>5, <1>7, <2>1, <2>3
    <3> QED  BY <1>3, <1>7, <3>1
  <2> QED  BY <2>2, <2>3
<1> QED  BY <1>10, <1>11

-----------------------------------------------------------------------------
(* The types.                                                              *)

\* A chunk is part of a system group before the mover works, and is the next part
\* of the group being moved when it does.
ChunkInv ==
  \/ chunk = NoChunk
  \/ /\ chunk.len \in Nat \ {0} /\ chunk.buf \in [0..chunk.len-1 -> Contents]
     /\ \/ /\ phase = "protect"
           /\ \E k \in DOMAIN Sys : \E i \in 0..Sys[k].size-1 :
                i + chunk.len <= Sys[k].size /\ chunk.src = Sys[k].s + i /\ chunk.dst = Sys[k].t + i
        \/ /\ phase = "working" /\ w.done + chunk.len <= w.size
           /\ LET i == IF w.front THEN w.done ELSE w.size - w.done - chunk.len
              IN chunk.src = w.s + i /\ chunk.dst = w.t + i

TypeInv ==
  /\ disk \in [Disk -> Contents]
  /\ phase \in {"plain", "protect", "working"}
  /\ copied \subseteq App
  /\ final \in Array
  /\ MoverInv /\ GroupInv /\ ChunkInv
  /\ stale \in [App -> SUBSET Contents]

LEMMA HomeType ==
  ASSUME MoverInv, GroupInv, NEW x \in App
  PROVE  x \in Int /\ Home(x) \in Disk /\ Home(x) \in Int
<1>1. Disk \subseteq Int /\ App \subseteq Disk
  BY DataAssumption DEF Disk, App
<1>2. CASE InSys(x)
  <2>1. PICK k \in DOMAIN Sys : x \in Span(Sys[k].s, Sys[k].size)
    BY <1>2 DEF InSys
  <2>2. Home(x) = x - Sys[k].s + Sys[k].t
    BY <1>1, <1>2, <2>1, TargetIs DEF Home
  <2>3. Span(Sys[k].t, Sys[k].size) \subseteq Disk
    BY DataAssumption
  <2>4. x - Sys[k].s + Sys[k].t \in Span(Sys[k].t, Sys[k].size)
    BY <1>1, <2>1, SysFacts DEF Span
  <2> QED  BY <1>1, <2>2, <2>3, <2>4
<1>3. CASE ~InSys(x) /\ Moves(x) = {}
  BY <1>1, <1>3 DEF Home
<1>4. CASE ~InSys(x) /\ Moves(x) # {}
  <2>1. PICK j \in DOMAIN data : j = Max(Moves(x)) /\ x \in Span(data[j].orig, data[j].size)
    BY <1>1, <1>4, LastMove
  <2>2. PICK orig \in Int, size \in Int, s \in Int, t \in Int :
          orig = data[j].orig /\ size = data[j].size /\ s = data[j].s /\ t = data[j].t
    <3>1. data[j] \in Group
      BY GroupFacts
    <3>2. data[j].orig \in Disk /\ data[j].size \in Nat /\ data[j].s \in Disk /\ data[j].t \in Disk
      BY <3>1 DEF Group
    <3>3. data[j].orig \in Int /\ data[j].size \in Int /\ data[j].s \in Int /\ data[j].t \in Int
      BY <3>2, DataAssumption DEF Disk
    <3> QED  BY <3>3
  <2>3. PICK i \in Int : i = x - orig
    BY <1>1
  <2>4. Home(x) = s + i \/ Home(x) = t + i
    BY <1>4, <2>1, <2>2, <2>3 DEF Home
  <2>5. i \in 0..size-1
    BY <1>1, <2>1, <2>2, <2>3 DEF Span
  <2>6. s + i \in Span(s, size) /\ t + i \in Span(t, size)
    BY <2>5 DEF Span
  <2>7. Span(s, size) \subseteq Disk /\ Span(t, size) \subseteq Disk
    BY <2>2 DEF GroupInv
  <2> QED  BY <1>1, <2>4, <2>6, <2>7
<1> QED  BY <1>2, <1>3, <1>4

\* Where a chunk is read from and written to.
LEMMA ChunkFacts ==
  ASSUME TypeInv, chunk # NoChunk
  PROVE  /\ chunk.len \in Nat \ {0} /\ chunk.buf \in [0..chunk.len-1 -> Contents]
         /\ chunk.src \in Int /\ chunk.dst \in Int
         /\ Span(chunk.src, chunk.len) \subseteq Disk /\ Span(chunk.dst, chunk.len) \subseteq Disk
         /\ phase = "protect" => Span(chunk.src, chunk.len) \subseteq App
<1>1. chunk.len \in Nat \ {0} /\ chunk.buf \in [0..chunk.len-1 -> Contents]
  BY DEF TypeInv, ChunkInv
<1> PICK len \in Int : len = chunk.len /\ len > 0
  BY <1>1
<1>2. CASE phase = "protect"
  <2>0. PICK k \in DOMAIN Sys : \E i \in 0..Sys[k].size-1 :
          i + chunk.len <= Sys[k].size /\ chunk.src = Sys[k].s + i /\ chunk.dst = Sys[k].t + i
    BY <1>2 DEF TypeInv, ChunkInv
  <2>1. PICK i \in 0..Sys[k].size-1 :
          i + chunk.len <= Sys[k].size /\ chunk.src = Sys[k].s + i /\ chunk.dst = Sys[k].t + i
    BY <2>0
  <2>2. PICK s \in Int, t \in Int, size \in Int : s = Sys[k].s /\ t = Sys[k].t /\ size = Sys[k].size
    BY SysFacts
  <2>3. Span(s, size) \subseteq App /\ App \subseteq Disk /\ Span(t, size) \subseteq Disk
    BY <2>2, DataAssumption DEF App
  <2>4. i \in Int /\ 0 <= i /\ i + len <= size /\ chunk.src = s + i /\ chunk.dst = t + i
    BY <2>1, <2>2
  <2>5. Span(s + i, len) \subseteq Span(s, size) /\ Span(t + i, len) \subseteq Span(t, size)
    BY <2>4 DEF Span
  <2> QED  BY <1>1, <2>3, <2>4, <2>5
<1>3. CASE phase # "protect"
  <2>1. /\ phase = "working" /\ w.done + chunk.len <= w.size
        /\ LET i == IF w.front THEN w.done ELSE w.size - w.done - chunk.len
           IN chunk.src = w.s + i /\ chunk.dst = w.t + i
    BY <1>3 DEF TypeInv, ChunkInv
  <2>2. WindowType
    BY WindowFacts DEF TypeInv
  <2>3. PICK s \in Int, t \in Int, size \in Int, done \in Int :
          s = w.s /\ t = w.t /\ size = w.size /\ done = w.done /\ 0 <= done
    BY <2>2 DEF WindowType
  <2>4. PICK i \in Int : i = IF w.front THEN done ELSE size - done - len
    OBVIOUS
  <2>5. 0 <= i /\ i + len <= size /\ chunk.src = s + i /\ chunk.dst = t + i
    BY <2>1, <2>3, <2>4
  <2>6. Span(s + i, len) \subseteq Span(s, size) /\ Span(t + i, len) \subseteq Span(t, size)
    BY <2>5 DEF Span
  <2>7. Span(s, size) \subseteq Disk /\ Span(t, size) \subseteq Disk
    <3>1. data # <<>>
      BY <2>1 DEF TypeInv, MoverInv
    <3>2. w.s = Last.s /\ w.t = Last.t /\ w.size = Last.size
      BY <3>1, WindowFacts DEF TypeInv
    <3>3. Len(data) \in DOMAIN data
      <4>1. data \in Seq(Groups)
        BY DEF TypeInv, MoverInv
      <4> QED  BY <3>1, <4>1
    <3> QED  BY <2>3, <3>2, <3>3 DEF TypeInv, GroupInv, Last
  <2> QED  BY <1>1, <1>3, <2>5, <2>6, <2>7
<1> QED  BY <1>2, <1>3

LEMMA TypeInvImplies == ASSUME TypeInv  PROVE  TypeOK
<1>1. \A i \in DOMAIN chunk.buf : chunk.src + i \in Disk /\ chunk.dst + i \in Disk
  <2>1. CASE chunk = NoChunk
    <3>1. chunk.buf = <<>>
      BY <2>1 DEF NoChunk
    <3> QED  BY <3>1
  <2>2. CASE chunk # NoChunk
    <3> SUFFICES ASSUME NEW i \in DOMAIN chunk.buf  PROVE  chunk.src + i \in Disk /\ chunk.dst + i \in Disk
      OBVIOUS
    <3>1. i \in 0..chunk.len-1 /\ chunk.len \in Int /\ chunk.src \in Int /\ chunk.dst \in Int
      BY <2>2, ChunkFacts
    <3>2. chunk.src + i \in Span(chunk.src, chunk.len) /\ chunk.dst + i \in Span(chunk.dst, chunk.len)
      BY <3>1 DEF Span
    <3> QED  BY <2>2, <3>2, ChunkFacts
  <2> QED  BY <2>1, <2>2
<1>2. data \in Seq(Groups) /\ w.num = Len(data) /\ w.done \in 0..w.size
  BY WindowFacts DEF TypeInv, MoverInv, WindowType
<1> QED  BY <1>1, <1>2 DEF TypeInv, TypeOK, Array

\* Inv' depends on the tables, the window, the phase and the chunk only.
LEMMA SameMover ==
  ASSUME MoverInv, UNCHANGED <<data, w>>, (phase' = "working") = (phase = "working")
  PROVE  MoverInv'
<1>1. Last' = Last
  BY DEF Last
<1> QED  BY <1>1 DEF MoverInv

LEMMA SameGroups == ASSUME GroupInv, UNCHANGED data  PROVE  GroupInv'
BY DEF GroupInv

LEMMA SameChunk == ASSUME ChunkInv, UNCHANGED <<chunk, phase, w>>  PROVE  ChunkInv'
BY DEF ChunkInv

\* What a new group adds to the table.
LEMMA AddedGroup ==
  ASSUME MoverInv, NEW r, data' = Append(data, r)
  PROVE  /\ DOMAIN data = 1..Len(data) /\ Len(data) \in Nat
         /\ DOMAIN data' = 1..Len(data)+1 /\ Len(data') = Len(data) + 1
         /\ \A j \in DOMAIN data : data'[j] = data[j]
         /\ data'[Len(data) + 1] = r /\ data' # <<>> /\ Last' = r
<1>1. data \in Seq(Groups)
  BY DEF MoverInv
<1>2. DOMAIN data = 1..Len(data) /\ Len(data) \in Nat
  BY <1>1
<1>3. /\ DOMAIN data' = 1..Len(data)+1 /\ Len(data') = Len(data) + 1
      /\ \A j \in DOMAIN data : data'[j] = data[j]
      /\ data'[Len(data) + 1] = r
  BY <1>1
<1>4. data' # <<>>
  <2>1. Len(<<>>) = 0
    OBVIOUS
  <2> QED  BY <1>2, <1>3, <2>1
<1> QED  BY <1>2, <1>3, <1>4 DEF Last

LEMMA MovingMover ==
  ASSUME MoverInv, NEW r \in Groups, MovingGroup(r)
  PROVE  MoverInv'
<1>1. data' = Append(data, r) /\ Len(data) < MaxGroups /\ phase' = "working"
      /\ w' = [num |-> Len(data) + 1, front |-> r.front, s |-> r.s, t |-> r.t, size |-> r.size, done |-> 0]
  BY DEF MovingGroup
<1>2. Len(data') = Len(data) + 1 /\ data' # <<>> /\ Last' = r /\ Len(data) \in Nat
  BY <1>1, AddedGroup
<1>3. data' \in Seq(Groups)
  BY <1>1 DEF MoverInv
<1>4. Len(data') <= MaxGroups
  BY <1>1, <1>2, DataAssumption
<1>5. r.size \in Nat
  BY DataAssumption DEF Group
<1>6. w'.done = 0 /\ w'.size = r.size
  BY <1>1
<1>7. w'.done \in 0..w'.size
  BY <1>5, <1>6
<1>8. w' = [num |-> Len(data'), front |-> Last'.front, s |-> Last'.s, t |-> Last'.t,
            size |-> Last'.size, done |-> w'.done]
  BY <1>1, <1>2, <1>6
<1> QED  BY <1>1, <1>2, <1>3, <1>4, <1>7, <1>8 DEF MoverInv

LEMMA MovingGroups ==
  ASSUME MoverInv, GroupInv, NEW r \in Groups, MovingGroup(r)
  PROVE  GroupInv'
<1>1. data' = Append(data, r) /\ Legal(r)
  BY DEF MovingGroup
<1>2. /\ DOMAIN data = 1..Len(data) /\ Len(data) \in Nat /\ DOMAIN data' = 1..Len(data)+1
      /\ \A j \in DOMAIN data : data'[j] = data[j]
      /\ data'[Len(data) + 1] = r
  BY <1>1, AddedGroup
<1>3. \A j \in DOMAIN data' : j \in DOMAIN data \/ data'[j] = r
  BY <1>2
<1>4. r.s \in Int /\ r.orig \in Int /\ r.size \in Int /\ Disk \subseteq Int
  BY DataAssumption DEF Group, Disk
<1>5. Span(r.s, r.size) \subseteq Disk
  <2> SUFFICES ASSUME NEW z \in Span(r.s, r.size)  PROVE  z \in Disk
    OBVIOUS
  <2>1. PICK x \in Int : x = z - r.s + r.orig
    BY <1>4 DEF Span
  <2>2. x \in Span(r.orig, r.size) /\ r.s + x - r.orig = z
    BY <1>4, <2>1 DEF Span
  <2>3. x \in App /\ Home(x) = z
    BY <1>1, <2>2 DEF Legal
  <2> QED  BY <2>3, HomeType
<1>6. /\ Span(r.orig, r.size) \subseteq App /\ Span(r.t, r.size) \subseteq Disk
      /\ \A x \in Span(r.orig, r.size) : ~InSys(x)
  BY <1>1 DEF Legal
<1>7. ASSUME NEW j \in DOMAIN data'
      PROVE  LET q == data'[j]
             IN /\ Span(q.orig, q.size) \subseteq App
                /\ Span(q.s, q.size) \subseteq Disk /\ Span(q.t, q.size) \subseteq Disk
                /\ \A x \in Span(q.orig, q.size) : ~InSys(x)
  BY <1>2, <1>3, <1>5, <1>6 DEF GroupInv
<1>8. ASSUME NEW j \in DOMAIN data, Meets(r.orig, r.size, data[j].orig, data[j].size)
      PROVE  r.orig = data[j].orig /\ r.size = data[j].size
  BY <1>1, <1>8 DEF Legal
<1>9. ASSUME NEW i \in DOMAIN data', NEW j \in DOMAIN data',
             Meets(data'[i].orig, data'[i].size, data'[j].orig, data'[j].size)
      PROVE  data'[i].orig = data'[j].orig /\ data'[i].size = data'[j].size
  <2>1. CASE i \in DOMAIN data /\ j \in DOMAIN data
    BY <1>2, <1>9, <2>1 DEF GroupInv
  <2>2. CASE data'[i] = r /\ j \in DOMAIN data
    BY <1>2, <1>8, <1>9, <2>2
  <2>3. CASE i \in DOMAIN data /\ data'[j] = r
    <3>1. Meets(r.orig, r.size, data[i].orig, data[i].size)
      BY <1>2, <1>9, <2>3 DEF Meets
    <3> QED  BY <1>2, <1>8, <2>3, <3>1
  <2>4. CASE data'[i] = r /\ data'[j] = r
    BY <2>4
  <2> QED  BY <1>3, <2>1, <2>2, <2>3, <2>4
<1> QED  BY <1>7, <1>9 DEF GroupInv

\* The next state of each action has the types.
LEMMA TypeInit == ASSUME Init  PROVE  TypeInv
<1>1. data = <<>> /\ w = NoGroup /\ chunk = NoChunk /\ phase = "plain"
  BY DEF Init
<1>2. MoverInv
  <2>1. <<>> \in Seq(Groups) /\ Len(<<>>) = 0 /\ 0 <= MaxGroups
    BY DataAssumption
  <2> QED  BY <1>1, <2>1 DEF MoverInv
<1>3. GroupInv
  <2>1. DOMAIN data = {}
    BY <1>1
  <2> QED  BY <2>1 DEF GroupInv
<1>4. final \in Array
  BY DataAssumption DEF Init, Array
<1>5. stale \in [App -> SUBSET Contents]
  BY DEF Init
<1> QED  BY <1>1, <1>2, <1>3, <1>4, <1>5 DEF Init, TypeInv, ChunkInv

\* What a chunk holds of a sector that is being copied.
LEMMA ChunkOf ==
  ASSUME TypeInv, NEW x \in Copying
  PROVE  /\ x \in App /\ chunk # NoChunk
         /\ Where(x) - chunk.src \in 0..chunk.len-1 /\ Where(x) = chunk.src + (Where(x) - chunk.src)
         /\ chunk.buf[Where(x) - chunk.src] \in Contents
<1>1. x \in App /\ Where(x) \in Span(chunk.src, chunk.len)
  BY DEF Copying
<1>2. chunk # NoChunk
  <2>1. CASE chunk = NoChunk
    <3>1. chunk.src = 0 /\ chunk.len = 0
      BY <2>1 DEF NoChunk
    <3>2. Span(chunk.src, chunk.len) = {}
      BY <3>1 DEF Span
    <3> QED  BY <1>1, <3>2
  <2> QED  BY <2>1
<1>3. PICK src \in Int, len \in Int : src = chunk.src /\ len = chunk.len /\ chunk.buf \in [0..len-1 -> Contents]
  BY <1>2, ChunkFacts
<1>4. PICK y : y = Where(x)
  OBVIOUS
<1>5. y \in Int /\ src <= y /\ y <= src + len - 1
  BY <1>1, <1>3, <1>4 DEF Span
<1>6. y - src \in 0..len-1 /\ y = src + (y - src)
  BY <1>5
<1> QED  BY <1>1, <1>2, <1>3, <1>4, <1>6

LEMMA TypeRequest ==
  ASSUME TypeInv, NEW q \in Requests, Refuse(q) \/ Read(q) \/ Write(q)
  PROVE  TypeInv'
<1>1. UNCHANGED <<phase, copied, data, w, chunk>>
  BY DEF Refuse, Read, Write
<1>2. MoverInv' /\ GroupInv' /\ ChunkInv'
  BY <1>1, SameMover, SameGroups, SameChunk DEF TypeInv
<1>3. disk' \in [Disk -> Contents] /\ final' \in Array
  <2>1. CASE Refuse(q)
    BY <2>1 DEF Refuse, TypeInv
  <2>2. CASE Read(q)
    <3>1. PICK failed \in Failing : final' = Transfers("READ", q, failed).g
      BY <2>2 DEF Read
    <3>2. final' \in Array
      BY <3>1, TransfersType DEF TypeInv
    <3> QED  BY <2>2, <3>2 DEF Read, TypeInv
  <2>3. CASE Write(q)
    <3>1. PICK failed \in Failing :
            /\ \E b \in [Offsets(q) -> Contents] : disk' = Writing(disk, b, Transfers("WRITE", q, failed).out)
            /\ final' = Transfers("WRITE", q, failed).g
      BY <2>3 DEF Write
    <3>2. PICK tr : tr = Transfers("WRITE", q, failed)
      OBVIOUS
    <3>3. tr.g \in Array /\ Bounded(tr.out, 0, q.size)
      BY <3>2, TransfersType DEF TypeInv
    <3>4. PICK b \in [0..q.size-1 -> Contents] : disk' = Writing(disk, b, tr.out)
      BY <3>1, <3>2 DEF Offsets
    <3>5. q.size \in Nat /\ disk \in [Disk -> Contents]
      BY RequestFacts DEF TypeInv
    <3>6. disk' \in [Disk -> Contents]
      BY <3>3, <3>4, <3>5, WritingType
    <3> QED  BY <3>1, <3>2, <3>3, <3>6
  <2> QED  BY <2>1, <2>2, <2>3
<1>4. phase' \in {"plain", "protect", "working"} /\ copied' \subseteq App
  BY <1>1 DEF TypeInv
<1>5. stale' \in [App -> SUBSET Contents]
  <2>1. CASE stale' = stale
    BY <2>1 DEF TypeInv
  <2>2. CASE stale' = Overtaken(q)
    <3>1. \A x \in App : x \in Copying => chunk.buf[Where(x) - chunk.src] \in Contents
      BY ChunkOf
    <3>2. \A x \in App : stale[x] \in SUBSET Contents
      BY DEF TypeInv
    <3> QED  BY <2>2, <3>1, <3>2 DEF Overtaken
  <2> QED  BY <2>1, <2>2 DEF Refuse, Read, Write
<1> QED  BY <1>2, <1>3, <1>4, <1>5 DEF TypeInv

LEMMA TypeProtect == ASSUME TypeInv, EnableWriteProtect  PROVE  TypeInv'
<1>1. phase = "plain" /\ phase' = "protect" /\ UNCHANGED <<disk, copied, data, w, chunk, final, stale>>
  BY DEF EnableWriteProtect
<1>2. chunk = NoChunk
  BY <1>1 DEF TypeInv, ChunkInv
<1>3. ChunkInv'
  BY <1>1, <1>2 DEF ChunkInv, NoChunk
<1>4. MoverInv' /\ GroupInv'
  BY <1>1, SameMover, SameGroups DEF TypeInv
<1> QED  BY <1>1, <1>3, <1>4 DEF TypeInv

\* A chunk that is read holds contents.
LEMMA ReadContents ==
  ASSUME TypeInv, NEW src \in Int, NEW dst, NEW n \in Nat \ {0}, Span(src, n) \subseteq Disk, YgRead(src, dst, n)
  PROVE  /\ chunk' = [src |-> src, dst |-> dst, len |-> n, buf |-> [i \in 0..n-1 |-> disk[src + i]]]
         /\ chunk'.src = src /\ chunk'.dst = dst /\ chunk'.len = n /\ chunk'.buf \in [0..n-1 -> Contents]
         /\ UNCHANGED <<disk, phase, copied, data, w, final, reply, stale>>
<1>1. chunk' = [src |-> src, dst |-> dst, len |-> n, buf |-> [i \in 0..n-1 |-> disk[src + i]]]
      /\ UNCHANGED <<disk, phase, copied, data, w, final, reply, stale>>
  BY DEF YgRead
<1>2. [i \in 0..n-1 |-> disk[src + i]] \in [0..n-1 -> Contents]
  <2> SUFFICES ASSUME NEW i \in 0..n-1  PROVE  disk[src + i] \in Contents
    OBVIOUS
  <2>1. src + i \in Disk
    BY DEF Span
  <2> QED  BY <2>1 DEF TypeInv
<1>3. PICK b : b = [i \in 0..n-1 |-> disk[src + i]]
  OBVIOUS
<1>4. chunk' = [src |-> src, dst |-> dst, len |-> n, buf |-> b]
  BY <1>1, <1>3
<1>5. chunk'.src = src /\ chunk'.dst = dst /\ chunk'.len = n /\ chunk'.buf = b
  BY <1>4
<1> QED  BY <1>1, <1>2, <1>3, <1>5

LEMMA TypeReadSys ==
  ASSUME TypeInv, NEW n \in 1..MaxChunk, NEW k \in DOMAIN Sys, NEW i \in 0..Sys[k].size-1, ReadSys(k, i, n)
  PROVE  TypeInv'
<1> PICK s \in Int, t \in Int, size \in Int : s = Sys[k].s /\ t = Sys[k].t /\ size = Sys[k].size
  BY SysFacts
<1> PICK src \in Int, dst \in Int : src = s + i /\ dst = t + i
  OBVIOUS
<1> PICK len \in Nat \ {0} : len = n
  OBVIOUS
<1>1. phase = "protect" /\ i + len <= size /\ YgRead(src, dst, len)
  BY DEF ReadSys
<1>2. Span(src, len) \subseteq Disk
  <2>1. Span(s, size) \subseteq App /\ App \subseteq Disk
    BY DataAssumption DEF App
  <2>2. Span(src, len) \subseteq Span(s, size)
    BY <1>1 DEF Span
  <2> QED  BY <2>1, <2>2
<1>3. /\ chunk'.src = src /\ chunk'.dst = dst /\ chunk'.len = len /\ chunk'.buf \in [0..len-1 -> Contents]
      /\ UNCHANGED <<disk, phase, copied, data, w, final, reply, stale>>
  BY <1>1, <1>2, ReadContents
<1>4. MoverInv' /\ GroupInv'
  BY <1>3, SameMover, SameGroups DEF TypeInv
<1>5. ChunkInv'
  <2>1. chunk'.len \in Nat \ {0} /\ chunk'.buf \in [0..chunk'.len-1 -> Contents] /\ phase' = "protect"
    BY <1>1, <1>3
  <2>2. i + chunk'.len <= Sys[k].size /\ chunk'.src = Sys[k].s + i /\ chunk'.dst = Sys[k].t + i
    BY <1>1, <1>3
  <2> QED  BY <2>1, <2>2 DEF ChunkInv
<1> QED  BY <1>3, <1>4, <1>5 DEF TypeInv

LEMMA TypeReadGroup ==
  ASSUME TypeInv, NEW n \in 1..MaxChunk, ReadGroup(n)
  PROVE  TypeInv'
<1>1. data # <<>> /\ WindowType
  BY WindowFacts DEF ReadGroup, TypeInv, MoverInv
<1> PICK s \in Int, t \in Int, size \in Int, done \in Int :
      s = w.s /\ t = w.t /\ size = w.size /\ done = w.done /\ 0 <= done
  BY <1>1 DEF WindowType
<1> PICK len \in Nat \ {0} : len = n
  OBVIOUS
<1> PICK i \in Int : i = IF w.front THEN done ELSE size - done - len
  OBVIOUS
<1> PICK src \in Int, dst \in Int : src = s + i /\ dst = t + i
  OBVIOUS
<1>2. phase = "working" /\ done + len <= size /\ YgRead(src, dst, len)
  BY DEF ReadGroup
<1>3. Span(src, len) \subseteq Disk
  <2>1. w.s = Last.s /\ w.size = Last.size
    BY <1>1, WindowFacts DEF TypeInv
  <2>2. Len(data) \in DOMAIN data
    <3>1. data \in Seq(Groups)
      BY DEF TypeInv, MoverInv
    <3> QED  BY <1>1, <3>1
  <2>3. Span(s, size) \subseteq Disk
    BY <2>1, <2>2 DEF TypeInv, GroupInv, Last
  <2>4. Span(src, len) \subseteq Span(s, size)
    BY <1>2 DEF Span
  <2> QED  BY <2>3, <2>4
<1>4. /\ chunk'.src = src /\ chunk'.dst = dst /\ chunk'.len = len /\ chunk'.buf \in [0..len-1 -> Contents]
      /\ UNCHANGED <<disk, phase, copied, data, w, final, reply, stale>>
  <2>1. YgRead(src, dst, len) /\ TypeInv
    BY <1>2
  <2> QED  BY <1>3, <2>1, ReadContents, SMTT(40)
<1>5. MoverInv' /\ GroupInv'
  BY <1>4, SameMover, SameGroups DEF TypeInv
<1>6. ChunkInv'
  <2>1. chunk'.len \in Nat \ {0} /\ chunk'.buf \in [0..chunk'.len-1 -> Contents] /\ phase' = "working"
    BY <1>2, <1>4
  <2>2. w'.done + chunk'.len <= w'.size
    BY <1>2, <1>4
  <2>3. i = IF w'.front THEN w'.done ELSE w'.size - w'.done - chunk'.len
    BY <1>4
  <2>4. chunk'.src = w'.s + i /\ chunk'.dst = w'.t + i
    BY <1>4
  <2> QED  BY <2>1, <2>2, <2>3, <2>4 DEF ChunkInv
<1> QED  BY <1>4, <1>5, <1>6 DEF TypeInv

LEMMA NoChunkLength == NoChunk.len = 0
BY DEF NoChunk

\* The transfer of a chunk.
LEMMA ChunkTransfer ==
  ASSUME NEW dst \in Int, NEW n \in Nat \ {0}
  PROVE  LET out == <<[lba |-> dst, at |-> 0, len |-> n]>>
         IN /\ Bounded(out, 0, n) /\ DOMAIN out = {1}
            /\ out[1].lba = dst /\ out[1].at = 0 /\ out[1].len = n
<1> PICK p : p = [lba |-> dst, at |-> 0, len |-> n]
  OBVIOUS
<1>1. p \in Transfer /\ p.lba = dst /\ p.at = 0 /\ p.len = n
  BY DEF Transfer
<1> PICK out : out = <<p>>
  OBVIOUS
<1>2. out \in Seq(Transfer) /\ DOMAIN out = {1} /\ out[1] = p
  BY <1>1
<1>3. Bounded(out, 0, n)
  BY <1>1, <1>2 DEF Bounded
<1> QED  BY <1>1, <1>2, <1>3

\* What the write of a chunk changes.
LEMMA WriteChunk ==
  ASSUME TypeInv, YgWrite
  PROVE  /\ disk' \in [Disk -> Contents]
         /\ \A y \in Disk : disk'[y] = IF y \in Span(chunk.dst, chunk.len) THEN chunk.buf[y - chunk.dst] ELSE disk[y]
<1>1. chunk # NoChunk /\ disk' = Writing(disk, chunk.buf, <<[lba |-> chunk.dst, at |-> 0, len |-> chunk.len]>>)
  BY DEF YgWrite
<1>2. PICK dst \in Int, n \in Nat \ {0} : dst = chunk.dst /\ n = chunk.len
  BY <1>1, ChunkFacts
<1>3. PICK b \in [0..n-1 -> Contents] : b = chunk.buf
  BY <1>1, <1>2, ChunkFacts
<1>4. PICK out : out = <<[lba |-> dst, at |-> 0, len |-> n]>>
  OBVIOUS
<1>5. /\ Bounded(out, 0, n) /\ DOMAIN out = {1}
      /\ out[1].lba = dst /\ out[1].at = 0 /\ out[1].len = n
  BY <1>4, ChunkTransfer
<1>6. disk' = Writing(disk, b, out)
  BY <1>1, <1>2, <1>3, <1>4
<1>7. disk \in [Disk -> Contents] /\ Disk \subseteq Int
  BY DataAssumption DEF TypeInv, Disk
<1>8. disk' \in [Disk -> Contents]
  BY <1>5, <1>6, <1>7, WritingType
<1>9. ASSUME NEW y \in Disk
      PROVE  disk'[y] = IF y \in Span(dst, n) THEN b[y - dst] ELSE disk[y]
  <2>1. y \in DOMAIN disk /\ out \in Seq(Transfer)
    BY <1>5, <1>7 DEF Bounded
  <2>2. \/ y \notin Span(dst, n) /\ disk'[y] = disk[y]
        \/ y \in Span(dst, n) /\ disk'[y] = b[0 + y - dst]
    BY <1>5, <1>6, <2>1, WrittenBy
  <2>3. 0 + y - dst = y - dst
    BY <1>7
  <2> QED  BY <2>2, <2>3
<1> QED  BY <1>2, <1>3, <1>8, <1>9

LEMMA TypeWrite == ASSUME TypeInv, YgWrite  PROVE  TypeInv'
<1>1. chunk # NoChunk /\ chunk' = NoChunk /\ UNCHANGED <<phase, data, final, reply, stale>>
  BY DEF YgWrite
<1>2. disk' \in [Disk -> Contents]
  BY WriteChunk
<1>3. GroupInv' /\ ChunkInv'
  BY <1>1, SameGroups DEF TypeInv, ChunkInv, NoChunk
<1>4. CASE phase = "protect"
  <2>1. copied' = copied \cup Span(chunk.src, chunk.len) /\ UNCHANGED w
    BY <1>4 DEF YgWrite
  <2>2. copied' \subseteq App
    BY <1>1, <1>4, <2>1, ChunkFacts DEF TypeInv
  <2>3. MoverInv'
    BY <1>1, <2>1, SameMover DEF TypeInv
  <2> QED  BY <1>1, <1>2, <1>3, <2>2, <2>3 DEF TypeInv
<1>5. CASE phase # "protect"
  <2>1. w' = [w EXCEPT !.done = @ + chunk.len] /\ UNCHANGED copied
    BY <1>5 DEF YgWrite
  <2>2. phase = "working" /\ w.done + chunk.len <= w.size /\ chunk.len \in Nat
    BY <1>1, <1>5 DEF TypeInv, ChunkInv
  <2>3. data # <<>> /\ data \in Seq(Groups) /\ Len(data) <= MaxGroups
    BY <2>2 DEF TypeInv, MoverInv
  <2>4. /\ w.done \in 0..w.size
        /\ w = [num |-> Len(data), front |-> Last.front, s |-> Last.s, t |-> Last.t,
                size |-> Last.size, done |-> w.done]
    BY <2>3 DEF TypeInv, MoverInv
  <2>5. w' = [num |-> Len(data), front |-> Last.front, s |-> Last.s, t |-> Last.t,
              size |-> Last.size, done |-> w.done + chunk.len]
    BY <2>1, <2>4
  <2>6. w'.done = w.done + chunk.len /\ w'.size = w.size
    BY <2>4, <2>5
  <2>7. w'.done \in 0..w'.size
    <3>1. w.size \in Int
      BY WindowFacts DEF TypeInv, WindowType
    <3> QED  BY <2>2, <2>4, <2>6, <3>1
  <2>8. Last' = Last
    BY <1>1 DEF Last
  <2>9. MoverInv'
    BY <1>1, <2>2, <2>3, <2>5, <2>6, <2>7, <2>8 DEF MoverInv
  <2> QED  BY <1>1, <1>2, <1>3, <2>1, <2>9 DEF TypeInv
<1> QED  BY <1>4, <1>5

LEMMA TypeMoving == ASSUME TypeInv, NEW r \in Groups, MovingGroup(r)  PROVE  TypeInv'
<1>1. MoverInv' /\ GroupInv'
  BY MovingMover, MovingGroups DEF TypeInv
<1>2. chunk = NoChunk /\ UNCHANGED <<disk, copied, chunk, final, stale>> /\ phase' = "working"
  BY DEF MovingGroup
<1> QED  BY <1>1, <1>2 DEF TypeInv, ChunkInv, NoChunk

LEMMA TypeStep == TypeInv /\ [Next]_vars => TypeInv'
<1> SUFFICES ASSUME TypeInv, [Next]_vars  PROVE  TypeInv'
  OBVIOUS
<1>1. CASE Application
  BY <1>1, TypeRequest DEF Application
<1>2. CASE Control
  BY <1>2, TypeProtect, TypeReadSys, TypeReadGroup, TypeWrite, TypeMoving DEF Control
<1>3. CASE UNCHANGED vars
  <2>1. UNCHANGED <<disk, phase, copied, data, w, chunk, final, stale>>
    BY <1>3 DEF vars
  <2> QED  BY <2>1, SameMover, SameGroups, SameChunk DEF TypeInv
<1> QED  BY <1>1, <1>2, <1>3 DEF Next

LEMMA AlwaysTypes == Spec => []TypeInv
<1>1. Init => TypeInv
  BY TypeInit
<1> QED  BY <1>1, TypeStep, PTL DEF Spec

\* The globals of the mover hold what the driver's types say, whatever the plan, the
\* tables that cannot be read and the groups that are moved from their front: chunks
\* stay on the disk, the group being moved is written as far as it goes, and
\* g_FinalGroup stays within its entries.
THEOREM Typed == Spec => []TypeOK
<1>1. TypeInv => TypeOK
  BY TypeInvImplies
<1> QED  BY <1>1, AlwaysTypes, PTL

-----------------------------------------------------------------------------
(* Where the sectors are.                                                  *)

\* Applications' sectors are at different places, none of them where the system's
\* sectors were nor, but for those of the group being moved, in the target of that
\* group, which is above the group if the two overlap.
HomeInv ==
  /\ \A x \in App : ~InSys(Home(x))
  /\ \A x, y \in App : Home(x) = Home(y) => x = y
  /\ \A x \in App \ Own : Home(x) \notin Span(w.t, w.size)
  /\ Meets(w.s, w.size, w.t, w.size) => w.s <= w.t

LEMMA AppFacts ==
  /\ Disk \subseteq Nat /\ Disk \subseteq Int /\ App \subseteq Disk /\ App \subseteq Int
  /\ \A x : InSys(x) => x \in App
<1>1. Disk \subseteq Nat /\ App \subseteq Disk
  BY DataAssumption DEF Disk, App
<1>2. \A x : InSys(x) => x \in App
  <2>1. \A k \in DOMAIN Sys : Span(Sys[k].s, Sys[k].size) \subseteq App
    BY DataAssumption
  <2> QED  BY <2>1 DEF InSys
<1> QED  BY <1>1, <1>2

\* The system's sectors are copied to different places in the free sectors.
LEMMA TargetFacts ==
  ASSUME NEW x \in Int, InSys(x)
  PROVE  /\ Target(x) \in Disk \ App /\ Target(x) \in Int
         /\ \A y \in Int : InSys(y) /\ Target(y) = Target(x) => y = x
<1>1. PICK k \in DOMAIN Sys : x \in Span(Sys[k].s, Sys[k].size)
  BY DEF InSys
<1>2. Target(x) = x - Sys[k].s + Sys[k].t
  BY <1>1, TargetIs
<1> PICK s \in Int, t \in Int, size \in Int : s = Sys[k].s /\ t = Sys[k].t /\ size = Sys[k].size
  BY SysFacts
<1>3. x - s + t \in Span(t, size)
  BY <1>1 DEF Span
<1>4. Span(t, size) \subseteq Disk \ App
  BY DataAssumption
<1>5. ASSUME NEW y \in Int, InSys(y), Target(y) = Target(x)  PROVE  y = x
  <2>1. PICK l \in DOMAIN Sys : y \in Span(Sys[l].s, Sys[l].size)
    BY <1>5 DEF InSys
  <2>2. Target(y) = y - Sys[l].s + Sys[l].t
    BY <2>1, TargetIs
  <2>3. PICK sl \in Int, tl \in Int, nl \in Int : sl = Sys[l].s /\ tl = Sys[l].t /\ nl = Sys[l].size
    BY SysFacts
  <2>4. y - sl + tl \in Span(tl, nl) /\ y - sl + tl = x - s + t
    BY <1>2, <1>5, <2>1, <2>2, <2>3 DEF Span
  <2>5. Meets(t, size, tl, nl) /\ Meets(tl, nl, t, size)
    BY <1>3, <2>3, <2>4 DEF Meets, Span
  <2>6. l = k
    <3>1. \A i, j \in DOMAIN Sys : i < j => ~Meets(Sys[i].t, Sys[i].size, Sys[j].t, Sys[j].size)
      BY DataAssumption
    <3>2. ~(k < l) /\ ~(l < k)
      BY <2>3, <2>5, <3>1
    <3>3. k \in Int /\ l \in Int
      BY SysFacts
    <3> QED  BY <3>2, <3>3
  <2>7. sl = s /\ tl = t
    BY <2>3, <2>6
  <2> QED  BY <2>4, <2>7
<1>6. Disk \subseteq Int
  BY AppFacts
<1> QED  BY <1>2, <1>3, <1>4, <1>5, <1>6

\* Before the first group is moved.
LEMMA HomeBefore ==
  ASSUME data = <<>>, NEW x \in Int
  PROVE  Home(x) = IF InSys(x) THEN Target(x) ELSE x
<1>1. Moves(x) = {}
  BY DEF Moves
<1> QED  BY <1>1 DEF Home

LEMMA HomesBefore ==
  ASSUME MoverInv, data = <<>>
  PROVE  HomeInv
<1>1. w = NoGroup /\ w.s = 0 /\ w.t = 0 /\ w.size = 0
  BY DEF MoverInv, NoGroup
<1>2. Span(w.t, w.size) = {} /\ ~Meets(w.s, w.size, w.t, w.size)
  BY <1>1 DEF Span, Meets
<1>3. ASSUME NEW x \in App  PROVE  ~InSys(Home(x))
  <2>1. CASE InSys(x)
    BY <2>1, HomeBefore, TargetFacts, AppFacts
  <2>2. CASE ~InSys(x)
    BY <2>2, HomeBefore, AppFacts
  <2> QED  BY <2>1, <2>2
<1>4. ASSUME NEW x \in App, NEW y \in App, Home(x) = Home(y)  PROVE  x = y
  <2>1. x \in Int /\ y \in Int
    BY AppFacts
  <2>2. Home(x) = (IF InSys(x) THEN Target(x) ELSE x) /\ Home(y) = (IF InSys(y) THEN Target(y) ELSE y)
    BY <2>1, HomeBefore
  <2>3. CASE InSys(x) /\ InSys(y)
    BY <1>4, <2>1, <2>2, <2>3, TargetFacts
  <2>4. CASE InSys(x) /\ ~InSys(y)
    BY <1>4, <2>1, <2>2, <2>4, TargetFacts
  <2>5. CASE ~InSys(x) /\ InSys(y)
    BY <1>4, <2>1, <2>2, <2>5, TargetFacts
  <2>6. CASE ~InSys(x) /\ ~InSys(y)
    BY <1>4, <2>2, <2>6
  <2> QED  BY <2>3, <2>4, <2>5, <2>6
<1> QED  BY <1>2, <1>3, <1>4 DEF HomeInv

\* The sectors of the group being moved.
LEMMA OwnFacts ==
  ASSUME MoverInv, GroupInv, NEW x \in Own
  PROVE  /\ x \in App /\ x \in Int /\ data # <<>> /\ ~InSys(x) /\ Last.orig \in Int
         /\ x - Last.orig \in 0..w.size-1
         /\ Home(x) = IF Arrived(x - Last.orig) THEN w.t + (x - Last.orig) ELSE w.s + (x - Last.orig)
<1>1. data # <<>> /\ x \in Span(Last.orig, Last.size)
  BY DEF Own
<1>2. Len(data) \in DOMAIN data /\ DOMAIN data = 1..Len(data) /\ Len(data) \in Nat
  <2>1. data \in Seq(Groups)
    BY DEF MoverInv
  <2> QED  BY <1>1, <2>1
<1> PICK j \in DOMAIN data : j = Len(data)
  BY <1>2
<1>3. Span(data[j].orig, data[j].size) \subseteq App /\ ~InSys(x)
  BY <1>1 DEF Last, GroupInv
<1>4. x \in App /\ x \in Int
  BY <1>1, <1>3, AppFacts DEF Last
<1>5. Newest(Len(data), j)
  BY <1>2 DEF Newest
<1>6. Moves(x) # {} /\ Max(Moves(x)) = j
  BY <1>1, <1>4, <1>5, MoveIs DEF Last
<1>7. w.s = Last.s /\ w.t = Last.t /\ w.size = Last.size /\ Last = data[j]
  BY <1>1, WindowFacts DEF Last
<1>8. Last.orig \in Int /\ Last.size \in Int
  <2>1. data[j] \in Group
    BY GroupFacts
  <2>2. Last.orig \in Disk /\ Last.size \in Nat
    BY <1>7, <2>1 DEF Group
  <2> QED  BY <2>2, DataAssumption DEF Disk
<1>9. x - Last.orig \in 0..w.size-1
  BY <1>1, <1>4, <1>7, <1>8 DEF Span
<1>10. Home(x) = IF Arrived(x - Last.orig) THEN w.t + (x - Last.orig) ELSE w.s + (x - Last.orig)
  BY <1>3, <1>6, <1>7 DEF Home
<1> QED  BY <1>1, <1>3, <1>4, <1>8, <1>9, <1>10

OwnIs(x) ==
  /\ x \in App /\ x \in Int /\ data # <<>> /\ ~InSys(x) /\ Last.orig \in Int
  /\ x - Last.orig \in 0..w.size-1
  /\ Home(x) = IF Arrived(x - Last.orig) THEN w.t + (x - Last.orig) ELSE w.s + (x - Last.orig)

LEMMA OwnNext == MoverInv' /\ GroupInv' => (\A x \in Own : OwnIs(x))'
<1>1. MoverInv /\ GroupInv => \A x \in Own : OwnIs(x)
  BY OwnFacts DEF OwnIs
<1> QED  BY <1>1, PTL

\* The other sectors are where the last record of their group says.
Rest(x) ==
  IF InSys(x) THEN Target(x)
  ELSE IF Moves(x) = {} THEN x ELSE data[Max(Moves(x))].t + (x - data[Max(Moves(x))].orig)

LEMMA RestFacts ==
  ASSUME MoverInv, GroupInv, NEW x \in App, x \notin Own
  PROVE  Home(x) = Rest(x)
<1>1. CASE InSys(x) \/ Moves(x) = {}
  BY <1>1 DEF Home, Rest
<1>2. CASE ~InSys(x) /\ Moves(x) # {}
  <2>1. x \in Int
    BY AppFacts
  <2>2. PICK j \in DOMAIN data : j = Max(Moves(x)) /\ x \in Span(data[j].orig, data[j].size)
    BY <1>2, <2>1, LastMove
  <2>3. data # <<>>
    BY <2>2
  <2>4. j # Len(data)
    BY <2>2, <2>3 DEF Own, Last
  <2> QED  BY <1>2, <2>2, <2>4 DEF Home, Rest
<1> QED  BY <1>1, <1>2

LEMMA RestNext == MoverInv' /\ GroupInv' => (\A x \in App : x \notin Own => Home(x) = Rest(x))'
<1>1. MoverInv /\ GroupInv => \A x \in App : x \notin Own => Home(x) = Rest(x)
  BY RestFacts
<1> QED  BY <1>1, PTL

LEMMA SameHomes ==
  ASSUME UNCHANGED <<data, w>>
  PROVE  Own' = Own /\ \A x : Home(x)' = Home(x)
<1>1. Own' = Own
  BY DEF Own, Last
<1>2. ASSUME NEW x  PROVE  Home(x)' = Home(x)
  <2>1. Moves(x)' = Moves(x)
    BY DEF Moves
  <2>2. \A i : Arrived(i)' = Arrived(i)
    BY DEF Arrived
  <2> QED  BY <2>1, <2>2 DEF Home
<1> QED  BY <1>1, <1>2

\* What an orderly plan makes sure of.
LEMMA OrderlyFacts ==
  ASSUME Orderly, MoverInv
  PROVE  /\ ~w.front /\ Len(data) <= ChunkRecords
         /\ \A x \in Int : InSys(x) => x \notin Span(w.t, w.size)
<1>1. CASE data = <<>>
  <2>1. w = NoGroup /\ ~w.front /\ w.t = 0 /\ w.size = 0
    BY <1>1 DEF MoverInv, NoGroup
  <2>2. Span(w.t, w.size) = {} /\ Len(data) = 0
    BY <1>1, <2>1 DEF Span
  <2> QED  BY <2>1, <2>2, MapAssumption
<1>2. CASE data # <<>>
  <2>1. Last \in Groups /\ w.t = Last.t /\ w.size = Last.size /\ w.front = Last.front
    BY <1>2, WindowFacts
  <2>2. Len(data) <= ChunkRecords
    <3>1. data \in Seq(Groups) /\ Len(data) <= MaxGroups /\ MaxGroups <= ChunkRecords
      BY DEF MoverInv, Orderly
    <3> QED  BY <3>1, DataAssumption, MapAssumption
  <2>3. ASSUME NEW x \in Int, InSys(x)  PROVE  x \notin Span(w.t, w.size)
    <3>1. PICK k \in DOMAIN Sys : x \in Span(Sys[k].s, Sys[k].size)
      BY <2>3 DEF InSys
    <3>2. ~Meets(Last.t, Last.size, Sys[k].s, Sys[k].size)
      BY <2>1 DEF Orderly
    <3>3. PICK t \in Int, n \in Int : t = Last.t /\ n = Last.size
      BY <2>1, WindowFacts DEF WindowType
    <3>4. PICK s \in Int, m \in Int : s = Sys[k].s /\ m = Sys[k].size
      BY SysFacts
    <3> QED  BY <2>1, <3>1, <3>2, <3>3, <3>4 DEF Meets, Span
  <2> QED  BY <2>1, <2>2, <2>3 DEF Orderly
<1> QED  BY <1>1, <1>2

LEMMA Places == ASSUME Orderly, MoverInv, GroupInv, HomeInv  PROVE  PlaceInv
<1> SUFFICES ASSUME NEW x \in App \ Own  PROVE  DataHome(x) \notin Span(w.t, w.size)
  BY DEF PlaceInv
<1>1. x \in Int
  BY AppFacts
<1>2. CASE InSys(x)
  BY <1>1, <1>2, HomeIs, OrderlyFacts
<1>3. CASE ~InSys(x)
  BY <1>1, <1>3, HomeIs DEF HomeInv
<1> QED  BY <1>2, <1>3

\* Starting a group leaves every sector where it is.
LEMMA MovingHomes ==
  ASSUME Orderly, TypeInv, HomeInv, NEW r \in Groups, MovingGroup(r)
  PROVE  (\A x \in App : Home(x)' = Home(x)) /\ HomeInv'
<1>1. MoverInv /\ GroupInv /\ MoverInv' /\ GroupInv'
  BY MovingMover, MovingGroups DEF TypeInv
<1>2. /\ data' = Append(data, r) /\ Legal(r) /\ (data = <<>> \/ w.done = w.size)
      /\ w' = [num |-> Len(data) + 1, front |-> r.front, s |-> r.s, t |-> r.t, size |-> r.size, done |-> 0]
  BY <1>1 DEF MovingGroup, MoverInv
<1>3. /\ DOMAIN data = 1..Len(data) /\ Len(data) \in Nat
      /\ DOMAIN data' = 1..Len(data)+1 /\ Len(data') = Len(data) + 1
      /\ \A j \in DOMAIN data : data'[j] = data[j]
      /\ data'[Len(data) + 1] = r /\ data' # <<>> /\ Last' = r
  BY <1>1, <1>2, AddedGroup
<1>4. Own' = Span(r.orig, r.size)
  BY <1>3 DEF Own
<1>5. /\ w'.s = r.s /\ w'.t = r.t /\ w'.size = r.size /\ w'.front = r.front /\ w'.done = 0 /\ ~r.front
      /\ r.orig \in Int /\ r.size \in Int /\ r.s \in Int /\ r.t \in Int
  BY <1>2, DataAssumption DEF Orderly, Group, Disk
<1>6. ASSUME NEW x \in App, x \in Own'  PROVE  Home(x)' = Home(x)
  <2>1. OwnIs(x)'
    BY <1>1, <1>6, OwnNext
  <2>2. x \in Int /\ x - r.orig \in 0..r.size-1
    BY <1>3, <1>5, <2>1 DEF OwnIs
  <2>3. ~Arrived(x - r.orig)'
    BY <1>5, <2>2 DEF Arrived
  <2>4. Home(x)' = r.s + (x - r.orig)
    BY <1>3, <1>5, <2>1, <2>3 DEF OwnIs
  <2>5. Home(x) = r.s + x - r.orig
    BY <1>2, <1>4, <1>6 DEF Legal
  <2> QED  BY <1>5, <2>2, <2>4, <2>5
<1>7. ASSUME NEW x \in App, x \notin Own'  PROVE  Home(x)' = Home(x)
  <2>1. Home(x)' = Rest(x)'
    BY <1>1, <1>7, RestNext
  <2>2. Moves(x)' = Moves(x)
    <3>1. Moves(x) = {j \in DOMAIN data : x \in Span(data[j].orig, data[j].size)}
      BY DEF Moves
    <3>2. Moves(x)' = {j \in DOMAIN data' : x \in Span(data'[j].orig, data'[j].size)}
      BY DEF Moves
    <3>3. \A j \in DOMAIN data' : j \in DOMAIN data \/ data'[j] = r
      BY <1>3
    <3>4. \A j \in DOMAIN data : j \in DOMAIN data'
      BY <1>3
    <3> QED  BY <1>3, <1>4, <1>7, <3>1, <3>2, <3>3, <3>4
  <2>3. Rest(x)' = Rest(x)
    <3>1. CASE InSys(x) \/ Moves(x) = {}
      BY <2>2, <3>1 DEF Rest
    <3>2. CASE ~InSys(x) /\ Moves(x) # {}
      <4>1. x \in Int
        BY AppFacts
      <4>2. PICK j \in DOMAIN data : j = Max(Moves(x))
        BY <1>1, <3>2, <4>1, LastMove
      <4>3. data'[j] = data[j]
        BY <1>3
      <4> QED  BY <2>2, <3>2, <4>2, <4>3 DEF Rest
    <3> QED  BY <3>1, <3>2
  <2>4. Home(x) = Rest(x)
    <3>1. CASE x \notin Own
      BY <1>1, <3>1, RestFacts
    <3>2. CASE x \in Own
      <4>1. OwnIs(x)
        BY <1>1, <3>2, OwnFacts DEF OwnIs
      <4>2. Arrived(x - Last.orig)
        <5>1. w.done = w.size /\ ~w.front
          BY <1>1, <1>2, <4>1, OrderlyFacts DEF OwnIs
        <5>2. x - Last.orig \in 0..w.size-1 /\ w.size \in Int
          BY <1>1, <4>1, WindowFacts DEF OwnIs, WindowType
        <5> QED  BY <5>1, <5>2 DEF Arrived
      <4>3. Home(x) = w.t + (x - Last.orig)
        BY <4>1, <4>2 DEF OwnIs
      <4>4. Moves(x) # {} /\ Max(Moves(x)) = Len(data)
        <5>1. Len(data) \in DOMAIN data /\ Newest(Len(data), Len(data))
          BY <1>1, <1>3, <4>1 DEF OwnIs, MoverInv, Newest
        <5>2. x \in Span(data[Len(data)].orig, data[Len(data)].size) /\ x \in Int
          BY <3>2, <4>1 DEF Own, OwnIs, Last
        <5> QED  BY <1>1, <5>1, <5>2, MoveIs
      <4>5. w.t = Last.t /\ ~InSys(x)
        BY <1>1, <4>1, WindowFacts DEF OwnIs
      <4> QED  BY <4>3, <4>4, <4>5 DEF Rest, Last
    <3> QED  BY <3>1, <3>2
  <2> QED  BY <2>1, <2>3, <2>4
<1>8. \A x \in App : Home(x)' = Home(x)
  BY <1>6, <1>7
<1>9. HomeInv'
  <2>1. \A x \in App : ~InSys(Home(x)')
    BY <1>8 DEF HomeInv
  <2>2. \A x, y \in App : Home(x)' = Home(y)' => x = y
    BY <1>8 DEF HomeInv
  <2>3. \A x \in App \ Own' : Home(x)' \notin Span(w'.t, w'.size)
    BY <1>2, <1>4, <1>5, <1>8 DEF Legal
  <2>4. Meets(w'.s, w'.size, w'.t, w'.size) => w'.s <= w'.t
    <3>1. Meets(r.s, r.size, r.t, r.size) => r.front = (r.t < r.s)
      BY <1>2 DEF Legal
    <3>2. r.front = FALSE
      <4>1. r.front \in BOOLEAN
        BY DataAssumption DEF Group
      <4> QED  BY <1>5, <4>1
    <3>3. Meets(r.s, r.size, r.t, r.size) => ~(r.t < r.s)
      BY <3>1, <3>2
    <3> QED  BY <1>5, <3>3
  <2> QED  BY <2>1, <2>2, <2>3, <2>4 DEF HomeInv
<1> QED  BY <1>8, <1>9

\* The sectors of a chunk that is written, and the others.
LEMMA WriteHomes ==
  ASSUME Orderly, TypeInv, HomeInv, YgWrite, phase = "working"
  PROVE  /\ \A x \in App :
              \/ /\ Home(x)' = Home(x) /\ Home(x) \notin Span(chunk.dst, chunk.len)
              \/ /\ x \in Own /\ Home(x) \in Span(chunk.src, chunk.len)
                 /\ Home(x)' \in Span(chunk.dst, chunk.len)
                 /\ Home(x)' - chunk.dst = Home(x) - chunk.src
         /\ HomeInv'
<1>1. MoverInv /\ GroupInv /\ MoverInv' /\ GroupInv'
  BY TypeWrite DEF TypeInv
<1>2. chunk # NoChunk /\ w' = [w EXCEPT !.done = @ + chunk.len] /\ UNCHANGED data
  BY DEF YgWrite
<1>3. data # <<>> /\ WindowType
  BY <1>1, WindowFacts DEF MoverInv
<1>4. ~w.front
  BY <1>1, OrderlyFacts
<1> PICK s \in Int, t \in Int, size \in Int, done \in Int :
      s = w.s /\ t = w.t /\ size = w.size /\ done = w.done /\ 0 <= done /\ done <= size
  BY <1>3 DEF WindowType
<1>5. PICK len \in Int : len = chunk.len /\ len > 0
  BY <1>2, ChunkFacts
<1>6. done + len <= size /\ chunk.src = s + (size - done - len) /\ chunk.dst = t + (size - done - len)
  BY <1>2, <1>4, <1>5 DEF TypeInv, ChunkInv
<1> PICK from \in Int : from = size - done - len
  OBVIOUS
<1>7. 0 <= from /\ from + len <= size /\ from + len = size - done
      /\ chunk.src = s + from /\ chunk.dst = t + from
  BY <1>5, <1>6
<1>8. w'.s = s /\ w'.t = t /\ w'.size = size /\ w'.done = done + len /\ ~w'.front
  <2>1. w = [num |-> Len(data), front |-> Last.front, s |-> Last.s, t |-> Last.t,
             size |-> Last.size, done |-> w.done]
    BY <1>1, <1>3 DEF MoverInv
  <2>2. w' = [num |-> Len(data), front |-> Last.front, s |-> Last.s, t |-> Last.t,
              size |-> Last.size, done |-> w.done + chunk.len]
    BY <1>2, <2>1
  <2>3. w.front = Last.front /\ w.s = Last.s /\ w.t = Last.t /\ w.size = Last.size
    BY <1>1, <1>3, WindowFacts
  <2> QED  BY <1>4, <1>5, <2>2, <2>3
<1>9. Own' = Own /\ Last' = Last
  BY <1>2 DEF Own, Last
<1>10. \A i \in Int : Arrived(i) = (i >= size - done) /\ Arrived(i)' = (i >= from)
  <2> SUFFICES ASSUME NEW i \in Int  PROVE  Arrived(i) = (i >= size - done) /\ Arrived(i)' = (i >= from)
    OBVIOUS
  <2>1. Arrived(i) = (i >= size - done)
    BY <1>4 DEF Arrived
  <2>2. Arrived(i)' = (i >= w'.size - w'.done)
    BY <1>8 DEF Arrived
  <2>3. w'.size - w'.done = from
    BY <1>8
  <2> QED  BY <2>1, <2>2, <2>3
<1>11. ASSUME NEW x \in Own
       PROVE  \E i \in 0..size-1 : /\ x = Last.orig + i /\ Last.orig \in Int
                                   /\ Home(x)  = IF i >= size - done THEN t + i ELSE s + i
                                   /\ Home(x)' = IF i >= from THEN t + i ELSE s + i
  <2>1. OwnIs(x) /\ OwnIs(x)'
    BY <1>1, <1>9, OwnFacts, OwnNext DEF OwnIs
  <2> PICK orig \in Int, y \in Int : orig = Last.orig /\ y = x
    BY <2>1 DEF OwnIs
  <2> PICK i \in Int : i = y - orig
    OBVIOUS
  <2>5. i \in 0..size-1
    BY <2>1 DEF OwnIs
  <2>6. y = orig + i
    OBVIOUS
  <2>2. i \in 0..size-1 /\ x = Last.orig + i /\ Last.orig \in Int
    BY <2>5, <2>6
  <2>3. Home(x) = IF Arrived(i) THEN t + i ELSE s + i
    BY <2>1 DEF OwnIs
  <2>4. Home(x)' = IF Arrived(i)' THEN t + i ELSE s + i
    BY <1>8, <1>9, <2>1 DEF OwnIs
  <2> QED  BY <1>10, <2>2, <2>3, <2>4
<1>12. ASSUME NEW x \in App, x \notin Own
       PROVE  Home(x)' = Home(x) /\ Home(x) \notin Span(t, size)
  <2>1. Home(x)' = Rest(x)' /\ Home(x) = Rest(x)
    BY <1>1, <1>9, <1>12, RestFacts, RestNext
  <2>2. Rest(x)' = Rest(x)
    <3>1. Moves(x)' = Moves(x)
      BY <1>2 DEF Moves
    <3> QED  BY <1>2, <3>1 DEF Rest
  <2>3. Home(x) \notin Span(t, size)
    BY <1>12 DEF HomeInv
  <2> QED  BY <2>1, <2>2, <2>3
<1>13. Meets(s, size, t, size) => s <= t
  BY DEF HomeInv
<1>14. \A i, j \in 0..size-1 : i < j => s + i # t + j
  <2> SUFFICES ASSUME NEW i \in 0..size-1, NEW j \in 0..size-1, i < j, s + i = t + j  PROVE  FALSE
    OBVIOUS
  <2>1. Meets(s, size, t, size)
    BY DEF Meets
  <2> QED  BY <1>13, <2>1
<1>15. ASSUME NEW x \in App
       PROVE  \/ /\ Home(x)' = Home(x) /\ Home(x) \notin Span(chunk.dst, chunk.len)
              \/ /\ x \in Own /\ Home(x) \in Span(chunk.src, chunk.len)
                 /\ Home(x)' \in Span(chunk.dst, chunk.len)
                 /\ Home(x)' - chunk.dst = Home(x) - chunk.src
  <2>1. CASE x \notin Own
    <3>1. Span(chunk.dst, chunk.len) \subseteq Span(t, size)
      BY <1>5, <1>7 DEF Span
    <3> QED  BY <1>12, <2>1, <3>1
  <2>2. CASE x \in Own
    <3>1. PICK i \in 0..size-1 : /\ Home(x)  = IF i >= size - done THEN t + i ELSE s + i
                                 /\ Home(x)' = IF i >= from THEN t + i ELSE s + i
      BY <1>11, <2>2
    <3>2. CASE i >= size - done
      <4>1. Home(x) = t + i /\ Home(x)' = t + i
        BY <1>5, <1>7, <3>1, <3>2
      <4>2. t + i \notin Span(t + from, len)
        BY <1>7, <3>2 DEF Span
      <4> QED  BY <1>5, <1>7, <4>1, <4>2
    <3>3. CASE i < from
      <4>1. Home(x) = s + i /\ Home(x)' = s + i
        BY <1>5, <1>7, <3>1, <3>3
      <4>2. s + i \notin Span(t + from, len)
        <5> SUFFICES ASSUME s + i \in Span(t + from, len)  PROVE  FALSE
          OBVIOUS
        <5>1. PICK j \in Int : j = s + i - t
          OBVIOUS
        <5>2. j \in 0..size-1 /\ i < j /\ s + i = t + j
          BY <1>7, <3>3, <5>1 DEF Span
        <5> QED  BY <1>14, <5>2
      <4> QED  BY <1>5, <1>7, <4>1, <4>2
    <3>4. CASE from <= i /\ i < size - done
      <4>1. Home(x) = s + i /\ Home(x)' = t + i
        BY <3>1, <3>4
      <4>2. s + i \in Span(s + from, len) /\ t + i \in Span(t + from, len)
        BY <1>7, <3>4 DEF Span
      <4>3. (t + i) - (t + from) = (s + i) - (s + from)
        OBVIOUS
      <4> QED  BY <1>5, <1>7, <2>2, <4>1, <4>2, <4>3
    <3> QED  BY <3>2, <3>3, <3>4
  <2> QED  BY <2>1, <2>2
<1>16. HomeInv'
  <2>1. ASSUME NEW x \in App  PROVE  ~InSys(Home(x)')
    <3>1. CASE Home(x)' = Home(x)
      BY <3>1 DEF HomeInv
    <3>2. CASE Home(x)' \in Span(chunk.dst, chunk.len)
      <4>1. Home(x)' \in Span(t, size) /\ Home(x)' \in Int
        BY <1>5, <1>7, <3>2 DEF Span
      <4> QED  BY <1>1, <4>1, OrderlyFacts
    <3> QED  BY <1>15, <3>1, <3>2
  <2>2. ASSUME NEW x \in Own, NEW y \in App, y \notin Own, Home(x)' = Home(y)'  PROVE  x = y
    <3>1. Home(x)' = Home(x) \/ Home(x)' \in Span(chunk.dst, chunk.len)
      BY <1>1, <1>15, OwnFacts
    <3>2. Home(y)' = Home(y) /\ Home(y) \notin Span(t, size)
      BY <1>12, <2>2
    <3>3. Span(chunk.dst, chunk.len) \subseteq Span(t, size)
      BY <1>5, <1>7 DEF Span
    <3>4. Home(x) = Home(y) /\ x \in App
      BY <1>1, <2>2, <3>1, <3>2, <3>3, OwnFacts
    <3> QED  BY <3>4 DEF HomeInv
  <2>3. ASSUME NEW x \in Own, NEW y \in Own, Home(x)' = Home(y)'  PROVE  x = y
    <3>1. PICK i \in 0..size-1 : x = Last.orig + i /\ Last.orig \in Int
                                 /\ Home(x)' = IF i >= from THEN t + i ELSE s + i
      BY <1>11
    <3>2. PICK j \in 0..size-1 : y = Last.orig + j /\ Home(y)' = IF j >= from THEN t + j ELSE s + j
      BY <1>11
    <3>3. i = j
      <4>1. CASE i >= from /\ j >= from
        BY <2>3, <3>1, <3>2, <4>1
      <4>2. CASE i < from /\ j < from
        BY <2>3, <3>1, <3>2, <4>2
      <4>3. CASE i < from /\ j >= from
        BY <1>14, <2>3, <3>1, <3>2, <4>3
      <4>4. CASE i >= from /\ j < from
        BY <1>14, <2>3, <3>1, <3>2, <4>4
      <4> QED  BY <4>1, <4>2, <4>3, <4>4
    <3> QED  BY <3>1, <3>2, <3>3
  <2>4. ASSUME NEW x \in App, NEW y \in App, Home(x)' = Home(y)'  PROVE  x = y
    <3>1. CASE x \notin Own /\ y \notin Own
      <4>1. Home(x) = Home(y)
        BY <1>12, <2>4, <3>1
      <4> QED  BY <4>1 DEF HomeInv
    <3>2. CASE x \in Own /\ y \notin Own
      BY <2>2, <2>4, <3>2
    <3>3. CASE x \notin Own /\ y \in Own
      BY <2>2, <2>4, <3>3
    <3>4. CASE x \in Own /\ y \in Own
      BY <2>3, <2>4, <3>4
    <3> QED  BY <3>1, <3>2, <3>3, <3>4
  <2>5. ASSUME NEW x \in App \ Own'  PROVE  Home(x)' \notin Span(w'.t, w'.size)
    BY <1>8, <1>9, <1>12
  <2>6. Meets(w'.s, w'.size, w'.t, w'.size) => w'.s <= w'.t
    BY <1>8, <1>13
  <2> QED  BY <2>1, <2>4, <2>5, <2>6 DEF HomeInv
<1> QED  BY <1>15, <1>16

-----------------------------------------------------------------------------
(* The lookup of an orderly plan.                                          *)

\* Everything the lookup relies on.
Inv ==
  /\ TypeInv
  /\ HomeInv
  /\ Fits(final)
  /\ \A x \in copied : InSys(x)
  /\ phase = "plain" => copied = {}

LEMMA RequestSectors ==
  ASSUME NEW q \in Requests
  PROVE  /\ q.start \in Int /\ q.size \in Nat /\ q.size \in Int /\ Span(q.start, q.size) = q.start..q.start+q.size-1
         /\ ~IsRWToFreeSpace(Free, q.start, q.size) <=> Span(q.start, q.size) \subseteq App
<1>1. q.start \in Nat /\ q.size \in Nat \ {0} /\ q.start + q.size <= Size /\ Size \in Nat
  BY RequestFacts
<1> PICK s \in Int, n \in Int : s = q.start /\ n = q.size /\ s >= 0 /\ n > 0 /\ s + n <= Size
  BY <1>1
<1>2. Span(s, n) \subseteq Disk
  BY <1>1 DEF Span, Disk
<1>3. \A f \in Free : f.start \in Int /\ f.size \in Int /\ f.size > 0
  BY DataAssumption DEF Disk
<1>4. ASSUME NEW f \in Free  PROVE  Meets(s, n, f.start, f.size) <=> \E x \in Span(s, n) : x \in Span(f.start, f.size)
  <2> PICK a \in Int, m \in Int : a = f.start /\ m = f.size /\ m > 0
    BY <1>3
  <2>1. ASSUME Meets(s, n, a, m)  PROVE  \E x \in Span(s, n) : x \in Span(a, m)
    <3>1. CASE s <= a
      BY <2>1, <3>1 DEF Meets, Span
    <3>2. CASE s > a
      BY <2>1, <3>2 DEF Meets, Span
    <3> QED  BY <3>1, <3>2
  <2>2. ASSUME NEW x \in Span(s, n), x \in Span(a, m)  PROVE  Meets(s, n, a, m)
    BY <2>2 DEF Meets, Span
  <2> QED  BY <2>1, <2>2
<1>5. ~IsRWToFreeSpace(Free, s, n) <=> Span(s, n) \subseteq App
  BY <1>2, <1>4 DEF IsRWToFreeSpace, App
<1> QED  BY <1>1, <1>5 DEF Span

\* What a lookup of a request that is not refused finds.
LEMMA Looked ==
  ASSUME Orderly, Inv, NEW q \in Requests, ~IsRWToFreeSpace(Free, q.start, q.size)
  PROVE  LET b == SearchFromSysGroup(w, Sys, data, final, q.start, q.size)
         IN /\ b.g \in Array /\ Fits(b.g) /\ Bounded(b.out, 0, q.size) /\ Near(b.out, q.start)
            /\ \A i \in Offsets(q) : Found(b.out, q.start, i)
<1>1. MoverInv /\ GroupInv /\ PlaceInv /\ Fits(final)
  BY Places DEF Inv, TypeInv
<1>2. ~w.front /\ Len(data) <= ChunkRecords
  BY <1>1, OrderlyFacts
<1>3. Len(Sys) <= ChunkRecords
  BY DEF Orderly
<1>4. PICK x \in Int, n \in Nat : x = q.start /\ n = q.size
  BY RequestSectors
<1>5. x..x+n-1 \subseteq App
  BY <1>4, RequestSectors
<1>6. LET b == SearchFromSysGroup(w, Sys, data, final, x, n)
      IN /\ b.g \in Array /\ Fits(b.g) /\ Bounded(b.out, 0, n) /\ Near(b.out, x)
         /\ \A i \in 0..n-1 : Found(b.out, x, i)
  BY <1>1, <1>2, <1>3, <1>5, SearchWalks
<1> QED  BY <1>4, <1>6 DEF Offsets

\* The last transfer of a sector that is found.
LEMMA FoundLast ==
  ASSUME NEW out \in Seq(Transfer), NEW x, NEW i, Found(out, x, i),
         NEW m \in DOMAIN out, \A l \in DOMAIN out : i \in Span(out[l].at, out[l].len) => l <= m,
         i \in Span(out[m].at, out[m].len)
  PROVE  At(out[m], i) = Home(x + i)
<1>1. DOMAIN out \subseteq Int
  BY Elements
<1>2. PICK k \in DOMAIN out :
         /\ i \in Span(out[k].at, out[k].len) /\ At(out[k], i) = Home(x + i)
         /\ \A l \in DOMAIN out : l > k /\ i \in Span(out[l].at, out[l].len) => At(out[l], i) = Home(x + i)
  BY DEF Found
<1>3. k <= m /\ k \in Int /\ m \in Int
  BY <1>1, <1>2
<1>4. CASE m = k
  BY <1>2, <1>4
<1>5. CASE m > k
  BY <1>2, <1>5
<1> QED  BY <1>3, <1>4, <1>5

\* A transfer that is at the place of a sector is that sector's.
LEMMA NearOwner ==
  ASSUME HomeInv, NEW out \in Seq(Transfer), NEW start \in Int, NEW n \in Nat, start..start+n-1 \subseteq App,
         Bounded(out, 0, n), Near(out, start),
         NEW x \in App, NEW k \in DOMAIN out, Home(x) \in Span(out[k].lba, out[k].len), Home(x) \in Int
  PROVE  /\ x \in start..start+n-1
         /\ out[k].at + Home(x) - out[k].lba = x - start
         /\ x - start \in Span(out[k].at, out[k].len)
<1>1. out[k] \in Transfer
  BY Elements
<1> PICK at \in Int, lba \in Int, len \in Int : at = out[k].at /\ lba = out[k].lba /\ len = out[k].len
  BY <1>1 DEF Transfer
<1> PICK y \in Int : y = Home(x)
  OBVIOUS
<1> PICK m \in Int : m = n
  OBVIOUS
<1>2. 0 <= at /\ at + len <= m /\ y \in Span(lba, len)
  BY DEF Bounded
<1>3. at + y - lba \in 0..m-1 /\ at + y - lba \in Span(at, len)
  BY <1>2, Across, Zenon
<1> PICK i \in 0..m-1 : i = at + y - lba /\ i \in Span(at, len) /\ lba + i - at = y
  BY <1>3, SMTT(40)
<1>4. At(out[k], i) = y
  BY <1>3 DEF At
<1>5. y = Home(start + i) \/ (InSys(start + i) /\ y = start + i)
  BY <1>3, <1>4 DEF Near
<1>6. ~InSys(y)
  BY DEF HomeInv
<1>7. Home(x) = Home(start + i)
  BY <1>5, <1>6
<1>8. start + i \in App
  BY <1>3
<1>9. x = start + i
  BY <1>7, <1>8 DEF HomeInv
<1>10. start + i \in start..start+m-1
  BY Shifted, Zenon
<1>12. x - start = i
  BY <1>9, SMTT(40)
<1>11. out[k].at + Home(x) - out[k].lba = i
  BY <1>3, Zenon
<1> QED  BY <1>9, <1>10, <1>11, <1>12

\* As long as no data group has been moved, a transfer that touches the place a sector
\* had at first is for that sector.
LEMMA NearItself ==
  ASSUME data = <<>>, NEW out \in Seq(Transfer), NEW start \in Int, NEW n \in Nat,
         Bounded(out, 0, n), Near(out, start),
         NEW x \in App, NEW k \in DOMAIN out, x \in Span(out[k].lba, out[k].len)
  PROVE  /\ x \in start..start+n-1
         /\ out[k].at + x - out[k].lba = x - start
<1>1. out[k] \in Transfer
  BY Elements
<1> PICK at \in Int, lba \in Int, len \in Int : at = out[k].at /\ lba = out[k].lba /\ len = out[k].len
  BY <1>1 DEF Transfer
<1> PICK m \in Int, y \in Int : m = n /\ y = x
  BY AppFacts
<1>2. 0 <= at /\ at + len <= m /\ y \in Span(lba, len)
  BY DEF Bounded
<1>3. at + y - lba \in 0..m-1 /\ at + y - lba \in Span(at, len)
  BY <1>2, Across, Zenon
<1> PICK i \in 0..m-1 : i = at + y - lba /\ i \in Span(at, len) /\ lba + i - at = y
  BY <1>3, SMTT(40)
<1>4. At(out[k], i) = y
  BY DEF At
<1>5. y = Home(start + i) \/ (InSys(start + i) /\ y = start + i)
  BY <1>4 DEF Near
<1>6. Home(start + i) = IF InSys(start + i) THEN Target(start + i) ELSE start + i
  <2>1. start + i \in Int
    OBVIOUS
  <2> QED  BY <2>1, HomeBefore, Zenon
<1>7. y = start + i
  BY <1>5, <1>6, TargetFacts
<1>8. start + i \in start..start+m-1
  BY Shifted, Zenon
<1>9. y - start = i
  BY <1>7
<1>10. out[k].at + x - out[k].lba = i
  OBVIOUS
<1> QED  BY <1>7, <1>8, <1>9, <1>10

\* The state invariants of the lookup.
LEMMA InvFinds == ASSUME Orderly, Inv  PROVE  LookupFinds
<1> SUFFICES ASSUME phase = "working", NEW l \in Lookups, NEW i \in Offsets(l.q)
             PROVE  LET here == {k \in DOMAIN l.out : i \in Span(l.out[k].at, l.out[k].len)}
                    IN here # {} /\ LET p == l.out[Max(here)] IN p.lba + i - p.at = Where(l.q.start + i)
  BY DEF LookupFinds
<1> PICK q \in Requests : /\ ~IsRWToFreeSpace(Free, q.start, q.size)
                          /\ l = [q |-> q, out |-> SearchFromSysGroup(w, Sys, data, final, q.start, q.size).out]
  BY DEF Lookups
<1>1. PICK out : out = SearchFromSysGroup(w, Sys, data, final, q.start, q.size).out
  OBVIOUS
<1>0. l.q = q /\ l.out = out /\ i \in Offsets(q)
  <2>1. l = [q |-> q, out |-> out]
    BY <1>1
  <2>2. l.q = q /\ l.out = out
    BY <2>1
  <2> QED  BY <2>2
<1>2. out \in Seq(Transfer) /\ Found(out, q.start, i)
  BY <1>0, <1>1, Looked DEF Bounded
<1> DEFINE here == {k \in DOMAIN out : i \in Span(out[k].at, out[k].len)}
<1>3. here # {} /\ here \subseteq DOMAIN out
  BY <1>2 DEF Found
<1>4. Max(here) \in here /\ \A k \in here : k <= Max(here)
  <2> HIDE DEF here
  <2> QED  BY <1>2, <1>3, LastOne
<1>5. PICK m \in DOMAIN out : m = Max(here)
  BY <1>4
<1>6. /\ i \in Span(out[m].at, out[m].len)
      /\ \A k \in DOMAIN out : i \in Span(out[k].at, out[k].len) => k <= m
  BY <1>4, <1>5
<1>7. At(out[m], i) = Home(q.start + i)
  BY <1>2, <1>6, FoundLast
<1>8. out[Max(here)].lba + i - out[Max(here)].at = Home(q.start + i)
  BY <1>5, <1>7 DEF At
<1>9. out[Max(here)].lba + i - out[Max(here)].at = Where(q.start + i)
  BY <1>8 DEF Where
<1> QED  BY <1>0, <1>3, <1>9

LEMMA InvStray == ASSUME Orderly, Inv  PROVE  NoStrayTransfer
<1> SUFFICES ASSUME phase = "working", NEW q \in Requests, ~IsRWToFreeSpace(Free, q.start, q.size)
             PROVE  LET out == SearchFromSysGroup(w, Sys, data, final, q.start, q.size).out
                    IN \A x \in App \ Span(q.start, q.size), k \in DOMAIN out :
                         Where(x) \notin Span(out[k].lba, out[k].len)
  BY DEF NoStrayTransfer, Lookups
<1>1. PICK out : out = SearchFromSysGroup(w, Sys, data, final, q.start, q.size).out
  OBVIOUS
<1>2. PICK start \in Int, n \in Nat : start = q.start /\ n = q.size
  BY RequestSectors
<1>3. Bounded(out, 0, n) /\ out \in Seq(Transfer) /\ Near(out, start)
  BY <1>1, <1>2, Looked DEF Bounded
<1>4. start..start+n-1 \subseteq App /\ Span(q.start, q.size) = start..start+n-1
  BY <1>2, RequestSectors
<1>5. ASSUME NEW x \in App \ Span(q.start, q.size), NEW k \in DOMAIN out, Where(x) \in Span(out[k].lba, out[k].len)
      PROVE  FALSE
  <2>1. Where(x) = Home(x)
    BY DEF Where
  <2>2. Home(x) \in Int /\ HomeInv
    BY HomeType DEF Inv, TypeInv
  <2>3. x \in start..start+n-1
    BY <1>3, <1>4, <1>5, <2>1, <2>2, NearOwner
  <2> QED  BY <1>4, <2>3
<1> QED  BY <1>1, <1>5

\* The transfers of a request when both tables can be read.
LEMMA TransfersAre ==
  ASSUME Orderly, Inv, NEW q \in Requests, NEW op
  PROVE  LET moved == SearchFromSysGroup(w, Sys, data, final, q.start, q.size)
             plain == Piece(q.start, q.start + q.size, -q.start, 0)
             tr    == Transfers(op, q, {})
         IN /\ phase = "protect" /\ op = "WRITE" => tr.out = plain \o moved.out /\ tr.g = moved.g
            /\ phase = "working" => tr.out = moved.out /\ tr.g = moved.g
            /\ phase = "plain" \/ (phase = "protect" /\ op # "WRITE") => tr.out = plain /\ tr.g = final
<1>1. PICK m : m = SearchFromSysGroup(w, Sys, data, final, q.start, q.size)
  OBVIOUS
<1>2. PICK u : u = Piece(q.start, q.start + q.size, -q.start, 0)
  OBVIOUS
<1>3. PICK linear : linear = [out |-> u, g |-> final]
  OBVIOUS
<1>4. ReadWriteFromGroup(q, TRUE, {}) = m /\ ReadWriteFromGroup(q, FALSE, {}) = linear
  <2>1. ReadWriteFromGroup(q, TRUE, {}) = m
    BY <1>1 DEF ReadWriteFromGroup
  <2>2. ReadWriteFromGroup(q, FALSE, {}) = linear
    BY <1>2, <1>3 DEF ReadWriteFromGroup
  <2> QED  BY <2>1, <2>2
<1>5. linear.out = u /\ linear.g = final
  BY <1>3
<1>6. Walked(m, q.start, q.size)
  <2>1. WindowType /\ Table(data) /\ SysTable(Sys) /\ final \in Array
    BY WindowFacts, Tables, SysFacts DEF Inv, TypeInv
  <2>2. q.start \in Int /\ q.size \in Nat
    BY RequestFacts
  <2> QED  BY <1>1, <2>1, <2>2, LookupType
<1>7. m \in [cur : Int, g : Array, out : Seq(Transfer)]
  BY <1>6 DEF Walked
<1>8. PICK tr : tr = Transfers(op, q, {})
  OBVIOUS
<1>9. CASE phase = "protect" /\ op = "WRITE"
  <2>1. tr = [ReadWriteFromGroup(q, TRUE, {}) EXCEPT
                !.out = ReadWriteFromGroup(q, FALSE, {}).out \o ReadWriteFromGroup(q, TRUE, {}).out]
    BY <1>8, <1>9 DEF Transfers
  <2>2. PICK both : both = u \o m.out
    OBVIOUS
  <2>3. tr = [m EXCEPT !.out = both]
    BY <1>4, <1>5, <2>1, <2>2
  <2>4. tr.out = both /\ tr.g = m.g
    BY <1>7, <2>3
  <2> QED  BY <1>1, <1>2, <1>8, <1>9, <2>2, <2>4
<1>10. CASE phase = "working"
  <2>1. tr = ReadWriteFromGroup(q, TRUE, {})
    BY <1>8, <1>10 DEF Transfers
  <2> QED  BY <1>1, <1>4, <1>8, <1>10, <2>1
<1>11. CASE phase = "plain" \/ (phase = "protect" /\ op # "WRITE")
  <2>1. tr = ReadWriteFromGroup(q, FALSE, {})
    BY <1>8, <1>11 DEF Transfers
  <2> QED  BY <1>2, <1>4, <1>5, <1>8, <1>11, <2>1
<1>12. phase \in {"plain", "protect", "working"}
  BY DEF Inv, TypeInv
<1> QED  BY <1>9, <1>10, <1>11, <1>12

LEMMA TransfersFit ==
  ASSUME Orderly, Inv, NEW q \in Requests, ~IsRWToFreeSpace(Free, q.start, q.size), NEW op
  PROVE  Fits(Transfers(op, q, {}).g)
<1>1. PICK g : g = SearchFromSysGroup(w, Sys, data, final, q.start, q.size).g
  OBVIOUS
<1>2. Fits(g) /\ Fits(final)
  BY <1>1, Looked DEF Inv
<1>3. Transfers(op, q, {}).g = g \/ Transfers(op, q, {}).g = final
  BY <1>1, TransfersAre DEF Inv, TypeInv
<1> QED  BY <1>2, <1>3

LEMMA SameHomeInv == ASSUME HomeInv, UNCHANGED <<data, w>>  PROVE  HomeInv'
BY SameHomes DEF HomeInv

LEMMA InvInit == ASSUME Orderly, Init  PROVE  Inv
<1>1. TypeInv
  BY TypeInit
<1>2. data = <<>> /\ copied = {}
  BY DEF Init
<1>3. HomeInv
  BY <1>1, <1>2, HomesBefore DEF TypeInv
<1>4. Fits(final)
  <2>1. final \in Array /\ final = [k \in 1..Slots |-> FreeSlot]
    BY <1>1 DEF Init, Orderly, TypeInv
  <2>2. FreeSlot.orig = 0 /\ FreeSlot.size = 0
    BY DEF FreeSlot
  <2> QED  BY <2>1, <2>2 DEF Fits
<1> QED  BY <1>1, <1>2, <1>3, <1>4 DEF Inv

LEMMA InvRequest ==
  ASSUME Orderly, Inv, NEW q \in Requests, Refuse(q) \/ Read(q) \/ Write(q)
  PROVE  Inv'
<1>1. UNCHANGED <<phase, copied, data, w, chunk>>
  BY DEF Refuse, Read, Write
<1>2. TypeInv'
  BY TypeRequest DEF Inv
<1>3. HomeInv'
  BY <1>1, SameHomeInv DEF Inv
<1>4. \E op \in {"READ", "WRITE"} : final' = final \/ (/\ ~IsRWToFreeSpace(Free, q.start, q.size)
                                                      /\ final' = Transfers(op, q, {}).g)
  BY DEF Refuse, Read, Write, Orderly
<1>5. Fits(final')
  BY <1>4, TransfersFit DEF Inv
<1>6. Fits(final)'
  BY <1>1, <1>5 DEF Fits
<1> QED  BY <1>1, <1>2, <1>3, <1>6 DEF Inv

LEMMA InvWrite == ASSUME Orderly, Inv, YgWrite  PROVE  Inv'
<1>1. TypeInv' /\ TypeInv
  BY TypeWrite DEF Inv
<1>2. chunk # NoChunk /\ UNCHANGED <<phase, data, final>>
  BY DEF YgWrite
<1>3. Fits(final)'
  BY <1>2 DEF Inv, Fits
<1>4. CASE phase = "protect"
  <2>1. copied' = copied \cup Span(chunk.src, chunk.len) /\ UNCHANGED w
    BY <1>4 DEF YgWrite
  <2>2. HomeInv'
    BY <1>2, <2>1, SameHomeInv DEF Inv
  <2>3. \A x \in Span(chunk.src, chunk.len) : InSys(x)
    <3>1. PICK k \in DOMAIN Sys : \E i \in 0..Sys[k].size-1 :
            i + chunk.len <= Sys[k].size /\ chunk.src = Sys[k].s + i /\ chunk.dst = Sys[k].t + i
      BY <1>1, <1>2, <1>4 DEF TypeInv, ChunkInv
    <3>2. PICK i \in 0..Sys[k].size-1 :
            i + chunk.len <= Sys[k].size /\ chunk.src = Sys[k].s + i /\ chunk.dst = Sys[k].t + i
      BY <3>1
    <3>3. PICK s \in Int, size \in Int, len \in Int : s = Sys[k].s /\ size = Sys[k].size /\ len = chunk.len
      BY <1>1, <1>2, SysFacts, ChunkFacts
    <3>4. Span(s + i, len) \subseteq Span(s, size)
      BY <3>2, <3>3 DEF Span
    <3> QED  BY <3>2, <3>3, <3>4 DEF InSys
  <2>4. (\A x \in copied : InSys(x))'
    BY <2>1, <2>3 DEF Inv
  <2> QED  BY <1>1, <1>2, <1>3, <1>4, <2>2, <2>4 DEF Inv
<1>5. CASE phase # "protect"
  <2>1. phase = "working" /\ UNCHANGED copied
    BY <1>1, <1>2, <1>5 DEF YgWrite, TypeInv, ChunkInv
  <2>2. HomeInv'
    BY <1>1, <2>1, WriteHomes DEF Inv
  <2> QED  BY <1>1, <1>2, <1>3, <2>1, <2>2 DEF Inv
<1> QED  BY <1>4, <1>5

LEMMA InvMoving == ASSUME Orderly, Inv, NEW r \in Groups, MovingGroup(r)  PROVE  Inv'
<1>1. TypeInv' /\ TypeInv
  BY TypeMoving DEF Inv
<1>2. HomeInv'
  BY MovingHomes DEF Inv
<1>3. UNCHANGED <<copied, final>> /\ phase' = "working" /\ data' = Append(data, r)
  BY DEF MovingGroup
<1>4. Fits(final)'
  <2>1. \A j \in DOMAIN data : j \in DOMAIN data' /\ data'[j] = data[j]
    BY <1>1, <1>3, AddedGroup DEF TypeInv
  <2> QED  BY <1>3, <2>1 DEF Inv, Fits
<1> QED  BY <1>1, <1>2, <1>3, <1>4 DEF Inv

LEMMA InvStep == Orderly /\ Inv /\ [Next]_vars => Inv'
<1> SUFFICES ASSUME Orderly, Inv, [Next]_vars  PROVE  Inv'
  OBVIOUS
<1>1. CASE Application
  BY <1>1, InvRequest DEF Application
<1>2. ASSUME EnableWriteProtect \/ (\E n \in 1..MaxChunk : (\E k \in DOMAIN Sys : \E i \in 0..Sys[k].size-1 : ReadSys(k, i, n))
                                                         \/ ReadGroup(n))
      PROVE  Inv'
  <2>1. TypeInv'
    BY <1>2, TypeProtect, TypeReadSys, TypeReadGroup DEF Inv
  <2>2. UNCHANGED <<copied, data, w, final>> /\ phase' # "plain"
    BY <1>2 DEF EnableWriteProtect, ReadSys, ReadGroup, YgRead
  <2>3. HomeInv'
    BY <2>2, SameHomeInv DEF Inv
  <2>4. Fits(final)'
    BY <2>2 DEF Inv, Fits
  <2> QED  BY <2>1, <2>2, <2>3, <2>4 DEF Inv
<1>3. CASE YgWrite
  BY <1>3, InvWrite
<1>4. CASE \E r \in Groups : MovingGroup(r)
  BY <1>4, InvMoving
<1>5. CASE UNCHANGED vars
  <2>1. UNCHANGED <<disk, phase, copied, data, w, chunk, final>>
    BY <1>5 DEF vars
  <2>2. TypeInv'
    BY <1>5, TypeStep DEF Inv
  <2>3. HomeInv'
    BY <2>1, SameHomeInv DEF Inv
  <2>4. Fits(final)'
    BY <2>1 DEF Inv, Fits
  <2> QED  BY <2>1, <2>2, <2>3, <2>4 DEF Inv
<1> QED  BY <1>1, <1>2, <1>3, <1>4, <1>5 DEF Next, Control

LEMMA AlwaysInv == Orderly => (Spec => []Inv)
<1> SUFFICES ASSUME Orderly  PROVE  Spec => []Inv
  OBVIOUS
<1>1. Init => Inv
  BY InvInit
<1>2. Inv /\ [Next]_vars => Inv'
  BY InvStep
<1> QED  BY <1>1, <1>2, PTL DEF Spec

\* "original to current location lookup": for any disk, free space, tables, plan and
\* requests, if the plan is orderly, the last transfer of every sector of a request
\* is at the sector's current address, at every point of the moving of any group and
\* whatever the requests before it left in g_FinalGroup.
THEOREM Finds == Orderly => (Spec => []LookupFinds)
<1> SUFFICES ASSUME Orderly  PROVE  Spec => []LookupFinds
  OBVIOUS
<1>1. Inv => LookupFinds
  BY InvFinds
<1>2. Spec => []Inv
  BY AlwaysInv
<1> QED  BY <1>1, <1>2, PTL

\* With an orderly plan no request touches the current address of a sector that it
\* does not name.
THEOREM NoneStray == Orderly => (Spec => []NoStrayTransfer)
<1> SUFFICES ASSUME Orderly  PROVE  Spec => []NoStrayTransfer
  OBVIOUS
<1>1. Inv => NoStrayTransfer
  BY InvStray
<1>2. Spec => []Inv
  BY AlwaysInv
<1> QED  BY <1>1, <1>2, PTL

-----------------------------------------------------------------------------
(* What the sectors hold.                                                  *)

\* The transfer of a request that is not relocated.
LEMMA LinearIs ==
  ASSUME NEW q \in Requests, NEW out, out = Piece(q.start, q.start + q.size, -q.start, 0)
  PROVE  /\ out \in Seq(Transfer) /\ Bounded(out, 0, q.size) /\ DOMAIN out = {1}
         /\ out[1].lba = q.start /\ out[1].at = 0 /\ out[1].len = q.size
<1> PICK s \in Int, n \in Nat \ {0} : s = q.start /\ n = q.size
  BY RequestFacts
<1>1. s < s + n /\ s + 0 = s /\ s + (-s) = 0 /\ (s + n) - s = n
  OBVIOUS
<1>2. Piece(s, s + n, -s, 0) = <<[lba |-> s, at |-> 0, len |-> n]>>
  BY <1>1 DEF Piece
<1>3. out = <<[lba |-> s, at |-> 0, len |-> n]>>
  BY <1>2
<1>4. Bounded(out, 0, n) /\ DOMAIN out = {1} /\ out[1].lba = s /\ out[1].at = 0 /\ out[1].len = n
  BY <1>3, ChunkTransfer
<1> QED  BY <1>4 DEF Bounded

\* A write that is relocated changes the sectors it names where they are, and no other.
LEMMA MovedWrite ==
  ASSUME Inv, NEW start \in Int, NEW n \in Nat, start..start+n-1 \subseteq App,
         NEW out, Bounded(out, 0, n), Near(out, start), \A i \in 0..n-1 : Found(out, start, i),
         NEW b, NEW x \in App
  PROVE  Writing(disk, b, out)[Home(x)] = IF x \in start..start+n-1 THEN b[x - start] ELSE disk[Home(x)]
<1>1. HomeInv /\ Home(x) \in Int /\ Home(x) \in DOMAIN disk /\ x \in Int /\ out \in Seq(Transfer)
  BY HomeType DEF Inv, TypeInv, Bounded
<1>2. ASSUME NEW k \in DOMAIN out, Home(x) \in Span(out[k].lba, out[k].len)
      PROVE  x \in start..start+n-1 /\ out[k].at + Home(x) - out[k].lba = x - start
  BY <1>1, <1>2, NearOwner
<1>3. ASSUME x \in start..start+n-1
      PROVE  \E k \in DOMAIN out : Home(x) \in Span(out[k].lba, out[k].len)
  <2>1. PICK i \in 0..n-1 : i = x - start /\ start + i = x
    BY <1>3, Unshifted
  <2>2. PICK k \in DOMAIN out : i \in Span(out[k].at, out[k].len) /\ At(out[k], i) = Home(x)
    BY <2>1 DEF Found
  <2>3. out[k] \in Transfer
    BY <1>1, Elements
  <2> PICK at \in Int, lba \in Int, len \in Int : at = out[k].at /\ lba = out[k].lba /\ len = out[k].len
    BY <2>3 DEF Transfer
  <2>4. lba + i - at \in Span(lba, len)
    BY <2>2, Back, Zenon
  <2> QED  BY <2>2, <2>4 DEF At
<1>4. \/ /\ \A k \in DOMAIN out : Home(x) \notin Span(out[k].lba, out[k].len)
         /\ Writing(disk, b, out)[Home(x)] = disk[Home(x)]
      \/ \E k \in DOMAIN out :
           /\ Home(x) \in Span(out[k].lba, out[k].len)
           /\ Writing(disk, b, out)[Home(x)] = b[out[k].at + Home(x) - out[k].lba]
  BY <1>1, WrittenBy
<1> QED  BY <1>2, <1>3, <1>4

\* What becomes of the sector y that carries a sector x when sectors start up to
\* start+n are written.
Takes(out, b, x, y, start, n) ==
  Writing(disk, b, out)[y] = IF x \in Span(start, n) THEN b[x - start] ELSE disk[y]

\* The transfers of a write under write protection.
Twice(q) == Piece(q.start, q.start + q.size, -q.start, 0)
              \o SearchFromSysGroup(w, Sys, data, final, q.start, q.size).out

\* Such a write changes the sectors it names where they are, and those of the system
\* where they are copied to.
LEMMA BothWrite ==
  ASSUME Orderly, Inv, data = <<>>, NEW q \in Requests, ~IsRWToFreeSpace(Free, q.start, q.size),
         NEW b, NEW x \in App, NEW y, y = x \/ y = Home(x)
  PROVE  Takes(Twice(q), b, x, y, q.start, q.size)
<1> PICK out : out = Twice(q)
  OBVIOUS
<1>1. PICK u : u = Piece(q.start, q.start + q.size, -q.start, 0)
  OBVIOUS
<1>2. PICK m : m = SearchFromSysGroup(w, Sys, data, final, q.start, q.size).out
  OBVIOUS
<1> PICK start \in Int, n \in Nat : start = q.start /\ n = q.size
  BY RequestSectors
<1>3. /\ u \in Seq(Transfer) /\ DOMAIN u = {1}
      /\ u[1].lba = start /\ u[1].at = 0 /\ u[1].len = n
  BY <1>1, LinearIs
<1>4. Bounded(m, 0, n) /\ m \in Seq(Transfer) /\ Near(m, start) /\ \A i \in 0..n-1 : Found(m, start, i)
  BY <1>2, Looked DEF Bounded, Offsets
<1>5. start..start+n-1 \subseteq App /\ Span(q.start, q.size) = start..start+n-1
  BY RequestSectors
<1>6. HomeInv /\ x \in Int /\ Home(x) \in Int /\ x \in Disk /\ Home(x) \in Disk /\ DOMAIN disk = Disk
  BY HomeType, AppFacts DEF Inv, TypeInv
<1>7. out = u \o m
  BY <1>1, <1>2 DEF Twice
<1>8. Home(x) = IF InSys(x) THEN Target(x) ELSE x
  BY <1>6, HomeBefore
<1>9. /\ out \in Seq(Transfer)
      /\ 1 \in DOMAIN out /\ out[1] = u[1]
      /\ \A k \in DOMAIN m : Len(u) + k \in DOMAIN out /\ out[Len(u) + k] = m[k]
      /\ \A k \in DOMAIN out : out[k] = u[1] \/ \E l \in DOMAIN m : out[k] = m[l]
  <2>1. u \o m \in Seq(Transfer)
    BY <1>3, <1>4, Concat
  <2>2. /\ \A k \in DOMAIN u : k \in DOMAIN (u \o m) /\ (u \o m)[k] = u[k]
        /\ \A k \in DOMAIN m : Len(u) + k \in DOMAIN (u \o m) /\ (u \o m)[Len(u) + k] = m[k]
        /\ \A k \in DOMAIN (u \o m) :
             \/ k \in DOMAIN u
             \/ k - Len(u) \in DOMAIN m /\ (u \o m)[k] = m[k - Len(u)]
    BY <1>3, <1>4, Concat
  <2>3. \A k \in DOMAIN u : k = 1
    BY <1>3
  <2>4. 1 \in DOMAIN out /\ out[1] = u[1]
    <3>1. 1 \in DOMAIN u
      BY <1>3
    <3>2. 1 \in DOMAIN (u \o m) /\ (u \o m)[1] = u[1]
      BY <2>2, <3>1
    <3> QED  BY <1>7, <3>2
  <2>5. \A k \in DOMAIN m : Len(u) + k \in DOMAIN out /\ out[Len(u) + k] = m[k]
    BY <1>7, <2>2
  <2>6. ASSUME NEW k \in DOMAIN out  PROVE  out[k] = u[1] \/ \E l \in DOMAIN m : out[k] = m[l]
    <3>1. k \in DOMAIN u \/ (k - Len(u) \in DOMAIN m /\ out[k] = m[k - Len(u)])
      BY <1>7, <2>2
    <3>2. CASE k \in DOMAIN u
      BY <2>3, <2>4, <3>2
    <3>3. CASE k - Len(u) \in DOMAIN m /\ out[k] = m[k - Len(u)]
      BY <3>3
    <3> QED  BY <3>1, <3>2, <3>3
  <2>7. out \in Seq(Transfer)
    BY <1>7, <2>1
  <2> QED  BY <2>4, <2>5, <2>6, <2>7
<1>10. y \in Disk /\ y \in Int
  BY <1>6
<1>11. y \in App => y = x
  BY <1>6, <1>8, TargetFacts
<1>12. ASSUME y \in Span(u[1].lba, u[1].len)
       PROVE  x \in start..start+n-1 /\ u[1].at + y - u[1].lba = x - start
  <2>1. y \in start..start+n-1
    BY <1>3, <1>12 DEF Span
  <2>2. y = x
    BY <1>5, <1>11, <2>1
  <2>3. 0 + y - start = x - start
    BY <1>6, <2>2
  <2> QED  BY <1>3, <2>1, <2>2, <2>3
<1>13. ASSUME NEW l \in DOMAIN m, y \in Span(m[l].lba, m[l].len)
       PROVE  x \in start..start+n-1 /\ m[l].at + y - m[l].lba = x - start
  <2>1. CASE y = Home(x)
    BY <1>4, <1>5, <1>6, <1>13, <2>1, NearOwner
  <2>2. CASE y # Home(x)
    <3>1. y = x
      BY <2>2
    <3>2. x \in start..start+n-1 /\ m[l].at + x - m[l].lba = x - start
      BY <1>4, <1>13, <3>1, NearItself
    <3> QED  BY <3>1, <3>2
  <2> QED  BY <2>1, <2>2
<1>14. ASSUME NEW k \in DOMAIN out, y \in Span(out[k].lba, out[k].len)
       PROVE  x \in start..start+n-1 /\ out[k].at + y - out[k].lba = x - start
  BY <1>9, <1>12, <1>13, <1>14
<1>15. ASSUME x \in start..start+n-1
       PROVE  \E k \in DOMAIN out : y \in Span(out[k].lba, out[k].len)
  <2>1. CASE y = x
    <3>1. y \in Span(out[1].lba, out[1].len)
      BY <1>3, <1>9, <1>15, <2>1 DEF Span
    <3> QED  BY <1>9, <3>1
  <2>2. CASE y = Home(x)
    <3>1. PICK i \in 0..n-1 : i = x - start /\ start + i = x
      BY <1>15, Unshifted
    <3>2. PICK l \in DOMAIN m : i \in Span(m[l].at, m[l].len) /\ At(m[l], i) = Home(x)
      BY <1>4, <3>1 DEF Found
    <3>3. m[l] \in Transfer
      BY <1>4, Elements
    <3> PICK at \in Int, lba \in Int, len \in Int : at = m[l].at /\ lba = m[l].lba /\ len = m[l].len
      BY <3>3 DEF Transfer
    <3>4. lba + i - at \in Span(lba, len)
      BY <3>2, Back, Zenon
    <3>5. y \in Span(m[l].lba, m[l].len)
      BY <2>2, <3>2, <3>4 DEF At
    <3>6. PICK k \in DOMAIN out : out[k] = m[l]
      BY <1>9
    <3> QED  BY <3>5, <3>6
  <2> QED  BY <2>1, <2>2
<1>16. \/ /\ \A k \in DOMAIN out : y \notin Span(out[k].lba, out[k].len)
          /\ Writing(disk, b, out)[y] = disk[y]
       \/ \E k \in DOMAIN out :
            /\ y \in Span(out[k].lba, out[k].len)
            /\ Writing(disk, b, out)[y] = b[out[k].at + y - out[k].lba]
  <2>1. out \in Seq(Transfer) /\ y \in DOMAIN disk
    BY <1>6, <1>9, <1>10
  <2>2. PICK o \in Seq(Transfer) : o = out
    BY <2>1
  <2>3. PICK z \in DOMAIN disk : z = y
    BY <2>1
  <2>4. \/ /\ \A k \in DOMAIN o : z \notin Span(o[k].lba, o[k].len)
           /\ Writing(disk, b, o)[z] = disk[z]
        \/ \E k \in DOMAIN o :
             /\ z \in Span(o[k].lba, o[k].len)
             /\ \A l \in DOMAIN o : z \in Span(o[l].lba, o[l].len) => l <= k
             /\ Writing(disk, b, o)[z] = b[o[k].at + z - o[k].lba]
    BY WrittenBy
  <2> QED  BY <2>2, <2>3, <2>4
<1>17. Writing(disk, b, out)[y] = IF x \in start..start+n-1 THEN b[x - start] ELSE disk[y]
  BY <1>14, <1>15, <1>16
<1> QED  BY <1>5, <1>17 DEF Takes

\* The transfers of a lookup of sectors start up to start+n.
Lookup(out, start, n) ==
  /\ Span(start, n) \subseteq App /\ Bounded(out, 0, n) /\ Near(out, start)
  /\ \A i \in 0..n-1 : Found(out, start, i)

LEMMA LookupTakes ==
  ASSUME Inv, NEW start \in Int, NEW n \in Nat, NEW out, Lookup(out, start, n), NEW b, NEW x \in App
  PROVE  Takes(out, b, x, Home(x), start, n)
<1>1. start..start+n-1 \subseteq App /\ Bounded(out, 0, n) /\ Near(out, start) /\ Span(start, n) = start..start+n-1
  BY DEF Lookup, Span
<1>2. \A i \in 0..n-1 : Found(out, start, i)
  BY DEF Lookup
<1>3. Writing(disk, b, out)[Home(x)] = IF x \in start..start+n-1 THEN b[x - start] ELSE disk[Home(x)]
  BY <1>1, <1>2, MovedWrite
<1> QED  BY <1>1, <1>3 DEF Takes

\* A request that is not relocated.
LEMMA LinearWrite ==
  ASSUME Inv, NEW q \in Requests, ~IsRWToFreeSpace(Free, q.start, q.size),
         NEW out, out = Piece(q.start, q.start + q.size, -q.start, 0), NEW b, NEW x \in App
  PROVE  Writing(disk, b, out)[x] = IF x \in Span(q.start, q.size) THEN b[x - q.start] ELSE disk[x]
<1>1. /\ out \in Seq(Transfer) /\ DOMAIN out = {1}
      /\ out[1].lba = q.start /\ out[1].at = 0 /\ out[1].len = q.size
  BY LinearIs
<1>2. x \in DOMAIN disk /\ x \in Int /\ q.start \in Int
  BY AppFacts, RequestFacts DEF Inv, TypeInv
<1>3. PICK y \in DOMAIN disk : y = x
  BY <1>2
<1>4. \/ /\ \A k \in DOMAIN out : y \notin Span(out[k].lba, out[k].len)
         /\ Writing(disk, b, out)[y] = disk[y]
      \/ \E k \in DOMAIN out :
           /\ y \in Span(out[k].lba, out[k].len)
           /\ \A l \in DOMAIN out : y \in Span(out[l].lba, out[l].len) => l <= k
           /\ Writing(disk, b, out)[y] = b[out[k].at + y - out[k].lba]
  BY <1>1, WrittenBy
<1>5. \/ x \notin Span(q.start, q.size) /\ Writing(disk, b, out)[x] = disk[x]
      \/ x \in Span(q.start, q.size) /\ Writing(disk, b, out)[x] = b[0 + x - q.start]
  BY <1>1, <1>3, <1>4
<1>6. 0 + x - q.start = x - q.start
  BY <1>2
<1> QED  BY <1>5, <1>6

LEMMA Unmoved == ASSUME Inv  PROVE  phase # "working" => data = <<>>
BY DEF Inv, TypeInv, MoverInv

\* A write changes the sectors it names, wherever they are, and no other.
LEMMA WriteFinds ==
  ASSUME Orderly, Inv, NEW q \in Requests, ~IsRWToFreeSpace(Free, q.start, q.size), NEW b, NEW x \in App,
         NEW d, d = Writing(disk, b, Transfers("WRITE", q, {}).out)
  PROVE  /\ d[Where(x)] = IF x \in Span(q.start, q.size) THEN b[x - q.start] ELSE disk[Where(x)]
         /\ phase = "protect" /\ InSys(x) =>
              d[Target(x)] = IF x \in Span(q.start, q.size) THEN b[x - q.start] ELSE disk[Target(x)]
<1>1. PICK u : u = Piece(q.start, q.start + q.size, -q.start, 0)
  OBVIOUS
<1>2. PICK m : m = SearchFromSysGroup(w, Sys, data, final, q.start, q.size).out
  OBVIOUS
<1>3. PICK out : out = Transfers("WRITE", q, {}).out
  OBVIOUS
<1>4. d = Writing(disk, b, out)
  BY <1>3
<1>5. CASE phase = "plain"
  <2>1. out = u
    BY <1>1, <1>3, <1>5, TransfersAre
  <2>2. Writing(disk, b, out)[x] = IF x \in Span(q.start, q.size) THEN b[x - q.start] ELSE disk[x]
    BY <1>1, <2>1, LinearWrite
  <2> QED  BY <1>4, <1>5, <2>2 DEF Where
<1>6. CASE phase = "protect"
  <2>1. out = u \o m
    BY <1>1, <1>2, <1>3, <1>6, TransfersAre
  <2>2. out = Twice(q)
    BY <1>1, <1>2, <2>1 DEF Twice
  <2>3. data = <<>> /\ x \in Int
    BY <1>6, Unmoved, AppFacts
  <2>4. /\ Takes(Twice(q), b, x, x, q.start, q.size)
        /\ Takes(Twice(q), b, x, Home(x), q.start, q.size)
    BY <2>3, BothWrite
  <2>5. InSys(x) => Home(x) = Target(x)
    BY DEF Home
  <2>6. Where(x) = x
    BY <1>6 DEF Where
  <2> QED  BY <1>4, <2>2, <2>4, <2>5, <2>6 DEF Takes
<1>7. CASE phase = "working"
  <2>1. out = m
    BY <1>2, <1>3, <1>7, TransfersAre
  <2> PICK start \in Int, n \in Nat : start = q.start /\ n = q.size
    BY RequestSectors
  <2>2. Span(start, n) \subseteq App
    BY RequestSectors
  <2>3. Bounded(m, 0, n) /\ Near(m, start) /\ \A i \in 0..n-1 : Found(m, start, i)
    BY <1>2, Looked DEF Offsets
  <2>4. Lookup(m, start, n)
    BY <2>2, <2>3 DEF Lookup
  <2>5. Takes(m, b, x, Home(x), start, n)
    BY <2>4, LookupTakes
  <2> QED  BY <1>4, <1>7, <2>1, <2>5 DEF Where, Takes
<1>8. phase \in {"plain", "protect", "working"}
  BY DEF Inv, TypeInv
<1> QED  BY <1>5, <1>6, <1>7, <1>8

\* A read returns what its sectors hold, wherever they are.
LEMMA ReadFinds ==
  ASSUME Orderly, Inv, NEW q \in Requests, ~IsRWToFreeSpace(Free, q.start, q.size)
  PROVE  Reading(disk, q.size, Transfers("READ", q, {}).out) = [i \in 0..q.size-1 |-> disk[Where(q.start + i)]]
<1>1. PICK u : u = Piece(q.start, q.start + q.size, -q.start, 0)
  OBVIOUS
<1>2. PICK m : m = SearchFromSysGroup(w, Sys, data, final, q.start, q.size).out
  OBVIOUS
<1>3. PICK out : out = Transfers("READ", q, {}).out
  OBVIOUS
<1> PICK start \in Int, n \in Nat : start = q.start /\ n = q.size
  BY RequestSectors
<1>4. phase \in {"plain", "protect", "working"}
  BY DEF Inv, TypeInv
<1>5. ASSUME NEW i \in 0..n-1  PROVE  Reading(disk, n, out)[i] = disk[Where(start + i)]
  <2>1. CASE phase # "working"
    <3>1. out = u
      BY <1>1, <1>3, <1>4, <2>1, TransfersAre
    <3>2. /\ u \in Seq(Transfer) /\ DOMAIN u = {1}
          /\ u[1].lba = start /\ u[1].at = 0 /\ u[1].len = n
      BY <1>1, LinearIs
    <3>3. i \in Span(u[1].at, u[1].len)
      BY <3>2 DEF Span
    <3>4. \E k \in DOMAIN u : Reading(disk, n, u)[i] = disk[At(u[k], i)]
      BY <3>2, <3>3, ReadBy
    <3>5. At(u[1], i) = start + i
      <4>1. start + i - 0 = start + i
        OBVIOUS
      <4> QED  BY <3>2, <4>1 DEF At
    <3>6. Where(start + i) = start + i
      BY <2>1 DEF Where
    <3> QED  BY <3>1, <3>2, <3>4, <3>5, <3>6
  <2>2. CASE phase = "working"
    <3>1. out = m
      BY <1>2, <1>3, <2>2, TransfersAre
    <3>2. m \in Seq(Transfer) /\ Found(m, start, i)
      BY <1>2, Looked DEF Bounded, Offsets
    <3>3. \E k \in DOMAIN m : i \in Span(m[k].at, m[k].len)
      BY <3>2 DEF Found
    <3>4. PICK k \in DOMAIN m : /\ i \in Span(m[k].at, m[k].len)
                                /\ \A l \in DOMAIN m : i \in Span(m[l].at, m[l].len) => l <= k
                                /\ Reading(disk, n, m)[i] = disk[At(m[k], i)]
      BY <3>2, <3>3, ReadBy
    <3>5. At(m[k], i) = Home(start + i)
      BY <3>2, <3>4, FoundLast
    <3>6. Where(start + i) = Home(start + i)
      BY <2>2 DEF Where
    <3> QED  BY <3>1, <3>4, <3>5, <3>6
  <2> QED  BY <2>1, <2>2
<1>6. Reading(disk, n, out) = [i \in 0..n-1 |-> Reading(disk, n, out)[i]]
  BY DEF Reading
<1>7. Reading(disk, n, out) = [i \in 0..n-1 |-> disk[Where(start + i)]]
  BY <1>5, <1>6
<1> QED  BY <1>3, <1>7

-----------------------------------------------------------------------------
(* The disk the applications see.                                          *)

\* What a sector of the applications holds or may fall back to.
Held(x) == {disk[Where(x)]} \cup stale[x]

\* A chunk that was read is still what its sectors hold, or fall back to.
Fresh == \A x \in App, i \in 0..chunk.len-1 : Where(x) = chunk.src + i => chunk.buf[i] \in Held(x)

Full == Inv /\ Fresh /\ CopiesInStep

\* What a chunk of a system group is.
LEMMA SysChunk ==
  ASSUME TypeInv, chunk # NoChunk, phase = "protect"
  PROVE  /\ Span(chunk.dst, chunk.len) \cap App = {}
         /\ \A x \in Span(chunk.src, chunk.len) :
              InSys(x) /\ x \in Int /\ Target(x) = chunk.dst + (x - chunk.src)
<1>1. PICK k \in DOMAIN Sys : \E i \in 0..Sys[k].size-1 :
        i + chunk.len <= Sys[k].size /\ chunk.src = Sys[k].s + i /\ chunk.dst = Sys[k].t + i
  BY DEF TypeInv, ChunkInv
<1>2. PICK i \in 0..Sys[k].size-1 :
        i + chunk.len <= Sys[k].size /\ chunk.src = Sys[k].s + i /\ chunk.dst = Sys[k].t + i
  BY <1>1
<1> PICK s \in Int, t \in Int, size \in Int, len \in Int :
      s = Sys[k].s /\ t = Sys[k].t /\ size = Sys[k].size /\ len = chunk.len
  BY SysFacts, ChunkFacts
<1>3. i \in Int /\ 0 <= i /\ i + len <= size /\ chunk.src = s + i /\ chunk.dst = t + i
  BY <1>2
<1>4. Span(s + i, len) \subseteq Span(s, size) /\ Span(t + i, len) \subseteq Span(t, size)
  BY <1>3 DEF Span
<1>5. Span(t, size) \subseteq Disk \ App
  BY DataAssumption
<1>6. ASSUME NEW x \in Span(chunk.src, chunk.len)
      PROVE  InSys(x) /\ x \in Int /\ Target(x) = chunk.dst + (x - chunk.src)
  <2>1. x \in Span(s, size) /\ x \in Int
    BY <1>3, <1>4 DEF Span
  <2>2. InSys(x) /\ Target(x) = x - s + t
    BY <2>1, TargetIs
  <2>3. x - s + t = (t + i) + (x - (s + i))
    BY <1>3, <2>1
  <2> QED  BY <1>3, <2>1, <2>2, <2>3
<1> QED  BY <1>3, <1>4, <1>5, <1>6

\* What the sectors of a chunk become.
LEMMA FreshChunk ==
  ASSUME Inv, Fresh, YgWrite, NEW x \in App, NEW z, z = Where(x), z \in Span(chunk.src, chunk.len),
         NEW y \in Span(chunk.dst, chunk.len), y - chunk.dst = z - chunk.src
  PROVE  disk'[y] \in Held(x)
<1>1. chunk # NoChunk /\ TypeInv
  BY DEF YgWrite, Inv
<1>2. PICK src \in Int, dst \in Int, len \in Int : src = chunk.src /\ dst = chunk.dst /\ len = chunk.len
  BY <1>1, ChunkFacts
<1>3. z \in Int /\ y \in Int /\ src <= z /\ z <= src + len - 1 /\ y - dst = z - src
  BY <1>2 DEF Span
<1>4. PICK i \in Int : i = z - src
  BY <1>3
<1>5. i \in 0..len-1 /\ z = src + i /\ y - dst = i
  BY <1>3, <1>4
<1>6. chunk.buf[i] \in Held(x)
  BY <1>2, <1>5 DEF Fresh
<1>7. y \in Disk
  BY <1>1, ChunkFacts
<1>8. disk'[y] = chunk.buf[y - chunk.dst]
  BY <1>1, <1>7, WriteChunk
<1> QED  BY <1>2, <1>5, <1>6, <1>8

LEMMA OtherSectors ==
  ASSUME Inv, YgWrite, NEW y \in Disk, y \notin Span(chunk.dst, chunk.len)
  PROVE  disk'[y] = disk[y]
BY WriteChunk DEF Inv

\* The write of a chunk leaves the sectors of the applications with what they hold
\* or may fall back to, and the copies of the system's sectors in step.
LEMMA ChunkKeeps ==
  ASSUME Orderly, Full, YgWrite
  PROVE  /\ \A x \in App : disk'[Where(x)'] \in Held(x)
         /\ CopiesInStep'
<1>1. chunk # NoChunk /\ phase' = phase /\ stale' = stale /\ Inv /\ TypeInv /\ Fresh /\ CopiesInStep
  BY DEF YgWrite, Full, Inv
<1>2. CASE phase = "protect"
  <2>1. copied' = copied \cup Span(chunk.src, chunk.len)
    BY <1>2 DEF YgWrite
  <2>2. ASSUME NEW x \in App  PROVE  disk'[x] = disk[x]
    <3>1. x \in Disk /\ x \notin Span(chunk.dst, chunk.len)
      BY <1>1, <1>2, SysChunk, AppFacts
    <3> QED  BY <1>1, <3>1, OtherSectors
  <2>3. ASSUME NEW x \in Span(chunk.src, chunk.len)  PROVE  disk'[Target(x)] \in Held(x) /\ x \in App
    <3>1. InSys(x) /\ x \in Int /\ Target(x) = chunk.dst + (x - chunk.src)
      BY <1>1, <1>2, SysChunk
    <3>0. x \in App /\ x = Where(x)
      BY <1>2, <3>1, AppFacts DEF Where
    <3>2. PICK src \in Int, dst \in Int, len \in Int : src = chunk.src /\ dst = chunk.dst /\ len = chunk.len
      BY <1>1, ChunkFacts
    <3>3. PICK y \in Int : y = Target(x)
      BY <3>1, TargetFacts
    <3>4. y - dst = x - src
      BY <3>1, <3>2, <3>3
    <3>5. y \in Span(dst, len)
      BY <3>1, <3>2, <3>3, <3>4 DEF Span
    <3>6. disk'[y] \in Held(x)
      BY <1>1, <3>0, <3>2, <3>4, <3>5, FreshChunk
    <3> QED  BY <3>0, <3>3, <3>6
  <2>4. ASSUME NEW x \in copied  PROVE  disk'[Target(x)] \in Held(x) /\ x \in App
    <3>1. InSys(x) /\ x \in App /\ x \in Int
      BY <1>1, AppFacts DEF Inv
    <3>2. PICK y \in Disk : y = Target(x) /\ y \in Int
      BY <3>1, TargetFacts
    <3>3. CASE y \notin Span(chunk.dst, chunk.len)
      <4>1. disk'[y] = disk[y]
        BY <1>1, <3>3, OtherSectors
      <4>2. disk[Target(x)] \in {disk[x]} \cup stale[x]
        BY <1>1, <1>2 DEF CopiesInStep
      <4>3. Where(x) = x
        BY <1>2 DEF Where
      <4> QED  BY <3>1, <3>2, <4>1, <4>2, <4>3 DEF Held
    <3>4. CASE y \in Span(chunk.dst, chunk.len)
      <4>1. PICK src \in Int, dst \in Int, len \in Int : src = chunk.src /\ dst = chunk.dst /\ len = chunk.len
        BY <1>1, ChunkFacts
      <4>2. PICK z \in Int : z = src + (y - dst)
        BY <3>2
      <4>3. z \in Span(src, len) /\ y = dst + (z - src)
        BY <3>2, <3>4, <4>1, <4>2 DEF Span
      <4>4. InSys(z) /\ Target(z) = y
        BY <1>1, <1>2, <4>1, <4>3, SysChunk
      <4>5. z = x
        BY <3>1, <3>2, <4>4, TargetFacts
      <4> QED  BY <2>3, <3>1, <4>1, <4>3, <4>5
    <3> QED  BY <3>3, <3>4
  <2>5. \A x \in App : Where(x) = x /\ Where(x)' = x
    BY <1>1, <1>2 DEF Where
  <2>6. \A x \in copied' : disk'[Target(x)] \in {disk'[x]} \cup stale'[x]
    <3> SUFFICES ASSUME NEW x \in copied'  PROVE  disk'[Target(x)] \in {disk'[x]} \cup stale'[x]
      OBVIOUS
    <3>1. disk'[Target(x)] \in Held(x) /\ x \in App
      BY <2>1, <2>3, <2>4
    <3>2. Held(x) = {disk'[x]} \cup stale'[x]
      BY <1>1, <2>2, <2>5, <3>1 DEF Held
    <3> QED  BY <3>1, <3>2
  <2>7. CopiesInStep'
    BY <2>6 DEF CopiesInStep
  <2> QED  BY <2>2, <2>5, <2>7 DEF Held
<1>3. CASE phase # "protect"
  <2>1. phase = "working"
    BY <1>1, <1>3 DEF TypeInv, ChunkInv
  <2>2. CopiesInStep'
    BY <1>1, <2>1 DEF CopiesInStep
  <2>3. ASSUME NEW x \in App  PROVE  disk'[Home(x)'] \in Held(x)
    <3>0. Where(x) = Home(x)
      BY <2>1 DEF Where
    <3>1. \/ /\ Home(x)' = Home(x) /\ Home(x) \notin Span(chunk.dst, chunk.len)
          \/ /\ Home(x) \in Span(chunk.src, chunk.len) /\ Home(x)' \in Span(chunk.dst, chunk.len)
             /\ Home(x)' - chunk.dst = Home(x) - chunk.src
      BY <1>1, <2>1, WriteHomes DEF Inv
    <3>2. CASE Home(x)' = Home(x) /\ Home(x) \notin Span(chunk.dst, chunk.len)
      <4>1. Home(x) \in Disk
        BY <1>1, HomeType DEF TypeInv
      <4>2. disk'[Home(x)] = disk[Home(x)]
        BY <1>1, <3>2, <4>1, OtherSectors
      <4> QED  BY <3>0, <3>2, <4>2 DEF Held
    <3>3. CASE /\ Home(x) \in Span(chunk.src, chunk.len) /\ Home(x)' \in Span(chunk.dst, chunk.len)
               /\ Home(x)' - chunk.dst = Home(x) - chunk.src
      BY <1>1, <3>0, <3>3, FreshChunk
    <3> QED  BY <3>1, <3>2, <3>3
  <2>4. \A x \in App : Where(x) = Home(x) /\ Where(x)' = Home(x)'
    BY <1>1, <2>1 DEF Where
  <2> QED  BY <2>2, <2>3, <2>4
<1> QED  BY <1>2, <1>3

\* So does the start of a group.
LEMMA MovingKeeps ==
  ASSUME Orderly, Full, NEW r \in Groups, MovingGroup(r)
  PROVE  /\ \A x \in App : disk'[Where(x)'] \in Held(x)
         /\ CopiesInStep'
<1>1. disk' = disk /\ phase' = "working" /\ Inv /\ HomeInv /\ TypeInv
      /\ (phase = "working" \/ (phase = "protect" /\ \A x \in App : InSys(x) => x \in copied))
  BY DEF MovingGroup, Full, Inv
<1>2. ASSUME NEW x \in App  PROVE  disk'[Where(x)'] \in Held(x)
  <2>1. Where(x)' = Home(x)
    <3>1. Home(x)' = Home(x)
      BY <1>1, MovingHomes
    <3> QED  BY <1>1, <3>1 DEF Where
  <2>2. CASE phase = "working"
    BY <1>1, <2>1, <2>2 DEF Where, Held
  <2>3. CASE phase = "protect"
    <3>1. Where(x) = x /\ x \in Int /\ data = <<>>
      BY <1>1, <2>3, Unmoved, AppFacts DEF Where
    <3>2. CASE InSys(x)
      <4>1. x \in copied /\ Home(x) = Target(x)
        BY <1>1, <2>3, <3>2 DEF Home
      <4>2. disk[Target(x)] \in {disk[x]} \cup stale[x]
        BY <2>3, <4>1 DEF Full, CopiesInStep
      <4> QED  BY <1>1, <2>1, <3>1, <4>1, <4>2 DEF Held
    <3>3. CASE ~InSys(x)
      BY <1>1, <2>1, <3>1, <3>3, HomeBefore DEF Held
    <3> QED  BY <3>2, <3>3
  <2> QED  BY <1>1, <2>2, <2>3
<1>3. CopiesInStep'
  BY <1>1 DEF CopiesInStep
<1> QED  BY <1>2, <1>3

\* A write of an application keeps the copies in step, too.
LEMMA RequestCopies ==
  ASSUME Orderly, Full, NEW q \in Requests, Refuse(q) \/ Read(q) \/ Write(q)
  PROVE  CopiesInStep'
<1>1. UNCHANGED <<phase, copied, data, w, chunk>> /\ Inv /\ CopiesInStep
  BY DEF Refuse, Read, Write, Full
<1>2. CASE disk' = disk /\ stale' = stale
  BY <1>1, <1>2 DEF CopiesInStep
<1>3. CASE Write(q)
  <2> SUFFICES ASSUME phase = "protect", NEW x \in copied  PROVE  disk'[Target(x)] \in {disk'[x]} \cup stale'[x]
    BY <1>1 DEF CopiesInStep
  <2>1. InSys(x) /\ x \in App /\ Where(x) = x
    BY <1>1, AppFacts DEF Inv, Where
  <2>2. PICK d : d = disk'
    OBVIOUS
  <2>3. ~IsRWToFreeSpace(Free, q.start, q.size)
        /\ \E b \in [Offsets(q) -> Contents] : d = Writing(disk, b, Transfers("WRITE", q, {}).out)
    BY <1>3, <2>2 DEF Write, Orderly
  <2>4. PICK b : d = Writing(disk, b, Transfers("WRITE", q, {}).out)
    BY <2>3
  <2>5. /\ d[x] = IF x \in Span(q.start, q.size) THEN b[x - q.start] ELSE disk[x]
        /\ d[Target(x)] = IF x \in Span(q.start, q.size) THEN b[x - q.start] ELSE disk[Target(x)]
    BY <1>1, <2>1, <2>3, <2>4, WriteFinds
  <2>6. CASE x \in Span(q.start, q.size)
    BY <2>2, <2>5, <2>6
  <2>7. CASE x \notin Span(q.start, q.size)
    <3>1. disk[Target(x)] \in {disk[x]} \cup stale[x]
      BY <1>1 DEF CopiesInStep
    <3>2. stale'[x] = stale[x]
      BY <1>3, <2>1, <2>7 DEF Write, Overtaken
    <3> QED  BY <2>2, <2>5, <2>7, <3>1, <3>2
  <2> QED  BY <2>6, <2>7
<1> QED  BY <1>2, <1>3 DEF Refuse, Read

\* A chunk that is waiting to be written has, of a sector that is written meanwhile,
\* what the sector may fall back to.
LEMMA RequestFresh ==
  ASSUME Orderly, Full, NEW q \in Requests, Refuse(q) \/ Read(q) \/ Write(q)
  PROVE  Fresh'
<1>1. UNCHANGED <<phase, data, w, chunk>> /\ Inv /\ TypeInv /\ Fresh
  BY DEF Refuse, Read, Write, Full, Inv
<1>2. \A x : Where(x)' = Where(x)
  BY <1>1, SameHomes DEF Where
<1>3. CASE disk' = disk /\ stale' = stale
  <2>1. \A x : Held(x)' = Held(x)
    BY <1>2, <1>3 DEF Held
  <2> QED  BY <1>1, <1>2, <2>1 DEF Fresh
<1>4. CASE Write(q)
  <2> SUFFICES ASSUME NEW x \in App, NEW i \in 0..chunk.len-1, Where(x) = chunk.src + i
               PROVE  chunk.buf[i] \in Held(x)'
    BY <1>1, <1>2 DEF Fresh
  <2>1. PICK d : d = disk'
    OBVIOUS
  <2>2. ~IsRWToFreeSpace(Free, q.start, q.size)
        /\ \E b \in [Offsets(q) -> Contents] : d = Writing(disk, b, Transfers("WRITE", q, {}).out)
    BY <1>4, <2>1 DEF Write, Orderly
  <2>3. PICK b : d = Writing(disk, b, Transfers("WRITE", q, {}).out)
    BY <2>2
  <2>4. Held(x)' = {d[Where(x)]} \cup stale'[x]
    BY <1>2, <2>1 DEF Held
  <2>5. stale' = Overtaken(q)
    BY <1>4 DEF Write
  <2>6. CASE x \notin Span(q.start, q.size)
    <3>1. d[Where(x)] = disk[Where(x)]
      BY <1>1, <2>2, <2>3, <2>6, WriteFinds
    <3>2. stale'[x] = stale[x]
      BY <2>5, <2>6 DEF Overtaken
    <3>3. chunk.buf[i] \in Held(x)
      BY <1>1 DEF Fresh
    <3> QED  BY <2>4, <3>1, <3>2, <3>3 DEF Held
  <2>7. CASE x \in Span(q.start, q.size)
    <3>1. chunk # NoChunk
      <4>1. CASE chunk = NoChunk
        <5>1. 0..chunk.len-1 = {}
          BY <4>1, NoChunkLength
        <5> QED  BY <5>1
      <4> QED  BY <4>1
    <3>2. PICK src \in Int, len \in Int : src = chunk.src /\ len = chunk.len
      BY <1>1, <3>1, ChunkFacts
    <3>3. src + i \in Span(src, len) /\ (src + i) - src = i
      BY <3>2 DEF Span
    <3>4. x \in Copying /\ Where(x) - chunk.src = i
      BY <3>2, <3>3 DEF Copying
    <3>5. stale'[x] = {chunk.buf[i]}
      BY <2>5, <2>7, <3>4 DEF Overtaken
    <3> QED  BY <2>4, <3>5
  <2> QED  BY <2>6, <2>7
<1> QED  BY <1>3, <1>4 DEF Refuse, Read

LEMMA ReadFresh ==
  ASSUME NEW src, NEW dst, NEW n, YgRead(src, dst, n)
  PROVE  Fresh'
<1> PICK b : b = [i \in 0..n-1 |-> disk[src + i]]
  OBVIOUS
<1>1. chunk' = [src |-> src, dst |-> dst, len |-> n, buf |-> b] /\ disk' = disk
  BY DEF YgRead
<1>2. chunk'.src = src /\ chunk'.len = n /\ chunk'.buf = b
  BY <1>1
<1>3. ASSUME NEW x \in App, NEW i \in 0..n-1, Where(x)' = src + i  PROVE  b[i] \in Held(x)'
  BY <1>1, <1>3 DEF Held
<1> QED  BY <1>2, <1>3 DEF Fresh

LEMMA NoChunkFresh == ASSUME chunk' = NoChunk  PROVE  Fresh'
<1>1. chunk'.len = 0
  BY DEF NoChunk
<1>2. 0..chunk'.len-1 = {}
  BY <1>1
<1> QED  BY <1>2 DEF Fresh

LEMMA FullInit == ASSUME Orderly, Init  PROVE  Full
<1>1. Inv
  BY InvInit
<1>2. chunk.len = 0 /\ phase = "plain"
  BY DEF Init, NoChunk
<1>3. 0..chunk.len-1 = {}
  BY <1>2
<1> QED  BY <1>1, <1>2, <1>3 DEF Full, Fresh, CopiesInStep

LEMMA FullStep == Orderly /\ Full /\ [Next]_vars => Full'
<1> SUFFICES ASSUME Orderly, Full, [Next]_vars  PROVE  Full'
  OBVIOUS
<1>1. Inv'
  BY InvStep DEF Full
<1>2. ASSUME NEW q \in Requests, Refuse(q) \/ Read(q) \/ Write(q)  PROVE  Full'
  <2>1. CopiesInStep'
    BY <1>2, RequestCopies
  <2>2. Fresh'
    BY <1>2, RequestFresh
  <2> QED  BY <1>1, <2>1, <2>2 DEF Full
<1>3. CASE EnableWriteProtect
  <2>1. UNCHANGED <<disk, copied, chunk>> /\ phase = "plain"
    BY <1>3 DEF EnableWriteProtect
  <2>2. copied' = {}
    BY <2>1 DEF Full, Inv
  <2>3. CopiesInStep'
    BY <2>1, <2>2 DEF CopiesInStep
  <2>4. chunk' = NoChunk
    BY <2>1 DEF Full, Inv, TypeInv, ChunkInv
  <2>5. Fresh'
    BY <2>4, NoChunkFresh
  <2> QED  BY <1>1, <2>3, <2>5 DEF Full
<1>4. ASSUME NEW src, NEW dst, NEW n, YgRead(src, dst, n)  PROVE  Full'
  <2>1. UNCHANGED <<disk, phase, copied, stale>>
    BY <1>4 DEF YgRead
  <2>2. CopiesInStep'
    BY <2>1 DEF Full, CopiesInStep
  <2>3. Fresh'
    BY <1>4, ReadFresh
  <2> QED  BY <1>1, <2>2, <2>3 DEF Full
<1>5. CASE YgWrite
  <2>1. CopiesInStep'
    BY <1>5, ChunkKeeps
  <2>2. Fresh'
    BY <1>5, NoChunkFresh DEF YgWrite
  <2> QED  BY <1>1, <2>1, <2>2 DEF Full
<1>6. ASSUME NEW r \in Groups, MovingGroup(r)  PROVE  Full'
  <2>1. CopiesInStep'
    BY <1>6, MovingKeeps
  <2>2. Fresh'
    BY <1>6, NoChunkFresh DEF MovingGroup
  <2> QED  BY <1>1, <2>1, <2>2 DEF Full
<1>7. CASE UNCHANGED vars
  <2>1. UNCHANGED <<disk, phase, copied, data, w, chunk, stale>>
    BY <1>7 DEF vars
  <2>2. \A x : Where(x)' = Where(x)
    BY <2>1, SameHomes DEF Where
  <2>3. \A x : Held(x)' = Held(x)
    BY <2>1, <2>2 DEF Held
  <2>4. Fresh' /\ CopiesInStep'
    BY <2>1, <2>2, <2>3 DEF Full, Fresh, CopiesInStep
  <2> QED  BY <1>1, <2>4 DEF Full
<1>8. CASE Application
  BY <1>2, <1>8 DEF Application
<1>9. CASE Control
  BY <1>3, <1>4, <1>5, <1>6, <1>9 DEF Control, ReadSys, ReadGroup
<1> QED  BY <1>7, <1>8, <1>9 DEF Next

LEMMA AlwaysFull == Orderly => (Spec => []Full)
<1> SUFFICES ASSUME Orderly  PROVE  Spec => []Full
  OBVIOUS
<1>1. Init => Full
  BY FullInit
<1>2. Full /\ [Next]_vars => Full'
  BY FullStep
<1> QED  BY <1>1, <1>2, PTL DEF Spec

\* With an orderly plan, every system sector that was copied is the same at its
\* source and at its target for as long as the writes are made to both, but for the
\* sectors last written between the read and the write of their chunk: the target
\* of one of those holds what is written or what was read for the chunk.
THEOREM CopiesKept == Orderly => (Spec => []CopiesInStep)
<1> SUFFICES ASSUME Orderly  PROVE  Spec => []CopiesInStep
  OBVIOUS
<1>1. Full => CopiesInStep
  BY DEF Full
<1>2. Spec => []Full
  BY AlwaysFull
<1> QED  BY <1>1, <1>2, PTL

\* What the applications see.
Content == [x \in App |-> disk[Where(x)]]

LEMMA ContentIs == \A x \in App : Content[x] = disk[Where(x)] /\ Content'[x] = disk'[Where(x)']
BY DEF Content

LEMMA ContentType == ASSUME TypeInv  PROVE  Content \in [App -> Contents]
<1> SUFFICES ASSUME NEW x \in App  PROVE  disk[Where(x)] \in Contents
  BY DEF Content
<1>1. Where(x) \in Disk
  BY HomeType, AppFacts DEF Where, TypeInv
<1> QED  BY <1>1 DEF TypeInv

LEMMA ContentTypeNext == TypeInv' => (Content \in [App -> Contents])'
<1>1. TypeInv => Content \in [App -> Contents]
  BY ContentType
<1> QED  BY <1>1, PTL

LEMMA ContentKept ==
  ASSUME \A x \in App : disk'[Where(x)'] = disk[Where(x)]
  PROVE  Content' = Content
BY DEF Content

\* The requests that are turned away are those that name a free sector.
LEMMA AllowedIs ==
  ASSUME NEW q \in Requests
  PROVE  ~IsRWToFreeSpace(Free, q.start, q.size) <=> \A i \in 0..q.size-1 : q.start + i \in App
<1> PICK s \in Int, n \in Int : s = q.start /\ n = q.size
  BY RequestSectors
<1>1. ~IsRWToFreeSpace(Free, q.start, q.size) <=> s..s+n-1 \subseteq App
  BY RequestSectors
<1>2. ASSUME s..s+n-1 \subseteq App, NEW i \in 0..n-1  PROVE  s + i \in App
  <2>1. s + i \in s..s+n-1
    OBVIOUS
  <2> QED  BY <1>2, <2>1
<1>3. ASSUME \A i \in 0..n-1 : s + i \in App, NEW x \in s..s+n-1  PROVE  x \in App
  <2>1. x - s \in 0..n-1 /\ s + (x - s) = x
    OBVIOUS
  <2> QED  BY <1>3, <2>1
<1> QED  BY <1>1, <1>2, <1>3

LEMMA ImplementsInit == ASSUME Init  PROVE  VD!Init
<1>1. disk \in [Disk -> Contents] /\ phase = "plain" /\ reply = Refused /\ stale = [x \in App |-> {}]
  BY DEF Init
<1>2. \A x \in App : Where(x) = x /\ x \in Disk
  BY <1>1, AppFacts DEF Where
<1>3. [x \in App |-> disk[Where(x)]] \in [App -> Contents]
  BY <1>1, <1>2
<1> QED  BY <1>1, <1>3 DEF VD!Init, VD!Refused, Refused

LEMMA ReadImplements ==
  ASSUME Orderly, Full, NEW q \in Requests, Read(q)
  PROVE  VD!Read(q)
<1>1. ~IsRWToFreeSpace(Free, q.start, q.size) /\ Inv
  BY DEF Read, Full
<1>2. VD!Allowed(q)
  BY <1>1, AllowedIs DEF VD!Allowed, VD!Offsets
<1>3. PICK buf : buf = Reading(disk, q.size, Transfers("READ", q, {}).out)
  OBVIOUS
<1>4. reply' = [op |-> "read", start |-> q.start, buf |-> buf]
  BY <1>3 DEF Read, Orderly
<1>5. buf = [i \in 0..q.size-1 |-> disk[Where(q.start + i)]]
  BY <1>1, <1>3, ReadFinds
<1>6. \A i \in 0..q.size-1 : q.start + i \in App
  BY <1>1, AllowedIs
<1>7. buf = [i \in 0..q.size-1 |-> Content[q.start + i]]
  BY <1>5, <1>6 DEF Content
<1>8. Content' = Content
  <2>1. disk' = disk /\ UNCHANGED <<phase, data, w>>
    BY DEF Read
  <2>2. \A x : Where(x)' = Where(x)
    BY <2>1, SameHomes DEF Where
  <2> QED  BY <2>1, <2>2, ContentKept
<1>9. stale' = stale
  BY DEF Read
<1> QED  BY <1>2, <1>4, <1>7, <1>8, <1>9 DEF VD!Read, VD!Found, VD!Offsets, Content

LEMMA WriteImplements ==
  ASSUME Orderly, Full, NEW q \in Requests, Write(q)
  PROVE  VD!Write(q)
<1>1. ~IsRWToFreeSpace(Free, q.start, q.size) /\ Inv /\ TypeInv /\ Fresh /\ reply' = Written /\ stale' = Overtaken(q)
  BY DEF Write, Full, Inv
<1>2. VD!Allowed(q)
  BY <1>1, AllowedIs DEF VD!Allowed, VD!Offsets
<1>3. PICK b \in [Offsets(q) -> Contents] : disk' = Writing(disk, b, Transfers("WRITE", q, {}).out)
  BY DEF Write, Orderly
<1>4. PICK d : d = disk'
  OBVIOUS
<1>5. PICK start \in Int, n \in Int : start = q.start /\ n = q.size
  BY RequestSectors
<1>6. TypeInv'
  BY <1>1, TypeRequest
<1>7. stale' \in [App -> SUBSET Contents] /\ Content' \in [App -> Contents]
  BY <1>6, ContentTypeNext DEF TypeInv
<1>8. ASSUME NEW x \in App  PROVE  x \in Span(q.start, q.size) <=> x - q.start \in 0..q.size-1
  <2> PICK v \in Int : v = x
    BY AppFacts
  <2>1. v \in Span(start, n) <=> v - start \in 0..n-1
    BY DEF Span
  <2> QED  BY <1>5, <2>1
<1>9. ASSUME NEW x \in App, x \notin Span(q.start, q.size)
      PROVE  stale'[x] = stale[x] /\ Content'[x] = Content[x]
  <2>1. d[Where(x)] = disk[Where(x)]
    BY <1>1, <1>3, <1>4, <1>9, WriteFinds
  <2>2. Where(x)' = Where(x)
    <3>1. UNCHANGED <<phase, data, w>>
      BY DEF Write
    <3> QED  BY <3>1, SameHomes DEF Where
  <2>3. stale'[x] = stale[x]
    BY <1>1, <1>9 DEF Overtaken
  <2> QED  BY <1>4, <2>1, <2>2, <2>3, ContentIs
<1>10. ASSUME NEW x \in App, x \in Span(q.start, q.size)
       PROVE  stale'[x] \subseteq IF x \in Copying THEN {Content[x]} \cup stale[x] ELSE {}
  <2>1. CASE x \notin Copying
    BY <1>1, <1>10, <2>1 DEF Overtaken
  <2>2. CASE x \in Copying
    <3>1. PICK i : i = Where(x) - chunk.src
      OBVIOUS
    <3>2. i \in 0..chunk.len-1 /\ Where(x) = chunk.src + i
      BY <1>1, <2>2, <3>1, ChunkOf
    <3>3. chunk.buf[i] \in Held(x)
      BY <1>1, <3>2 DEF Fresh
    <3>4. stale'[x] = {chunk.buf[i]}
      BY <1>1, <1>10, <2>2, <3>1 DEF Overtaken
    <3>5. Held(x) = {Content[x]} \cup stale[x]
      BY ContentIs DEF Held
    <3> QED  BY <2>2, <3>3, <3>4, <3>5
  <2> QED  BY <2>1, <2>2
<1>11. \A x \in App :
         IF x - q.start \notin 0..q.size-1
         THEN stale'[x] = stale[x] /\ Content'[x] = Content[x]
         ELSE stale'[x] \subseteq IF x \in Copying THEN {Content[x]} \cup stale[x] ELSE {}
  <2> SUFFICES ASSUME NEW x \in App
               PROVE  IF x - q.start \notin 0..q.size-1
                      THEN stale'[x] = stale[x] /\ Content'[x] = Content[x]
                      ELSE stale'[x] \subseteq IF x \in Copying THEN {Content[x]} \cup stale[x] ELSE {}
    OBVIOUS
  <2>1. CASE x \in Span(q.start, q.size)
    BY <1>8, <1>10, <2>1, Zenon
  <2>2. CASE x \notin Span(q.start, q.size)
    BY <1>8, <1>9, <2>2, Zenon
  <2> QED  BY <2>1, <2>2
<1> QED  BY <1>1, <1>2, <1>7, <1>11, Zenon DEF VD!Write, VD!Offsets, VD!Written, Written, Content

LEMMA RefuseImplements ==
  ASSUME NEW q \in Requests, Refuse(q)
  PROVE  VD!Refuse(q)
<1>1. IsRWToFreeSpace(Free, q.start, q.size) /\ reply' = Refused
  BY DEF Refuse
<1>2. ~VD!Allowed(q)
  BY <1>1, AllowedIs DEF VD!Allowed, VD!Offsets
<1>3. Content' = Content
  <2>1. disk' = disk /\ UNCHANGED <<phase, data, w>>
    BY DEF Refuse
  <2>2. \A x : Where(x)' = Where(x)
    BY <2>1, SameHomes DEF Where
  <2> QED  BY <2>1, <2>2, ContentKept
<1>4. stale' = stale
  BY DEF Refuse
<1> QED  BY <1>1, <1>2, <1>3, <1>4 DEF VD!Refuse, VD!Refused, Refused, Content

LEMMA ControlImplements ==
  ASSUME Orderly, Full, Control
  PROVE  VD!Move
<1>1. TypeInv /\ TypeInv'
  <2>1. TypeInv
    BY DEF Full, Inv
  <2>2. [Next]_vars
    BY DEF Next
  <2> QED  BY <2>1, <2>2, TypeStep
<1>2. UNCHANGED <<stale, reply>>
  BY DEF Control, EnableWriteProtect, ReadSys, ReadGroup, YgRead, YgWrite, MovingGroup
<1>3. ASSUME UNCHANGED <<disk, data, w>>, phase' = phase \/ (phase' # "working" /\ phase # "working")
      PROVE  \A x \in App : disk'[Where(x)'] \in Held(x)
  <2>1. \A x : Where(x)' = Where(x)
    BY <1>3, SameHomes DEF Where
  <2> QED  BY <1>3, <2>1 DEF Held
<1>4. \A x \in App : disk'[Where(x)'] \in Held(x)
  <2>1. CASE EnableWriteProtect
    BY <1>3, <2>1 DEF EnableWriteProtect
  <2>2. ASSUME NEW src, NEW dst, NEW n, YgRead(src, dst, n)
        PROVE  \A x \in App : disk'[Where(x)'] \in Held(x)
    BY <1>3, <2>2 DEF YgRead
  <2>3. CASE YgWrite
    BY <2>3, ChunkKeeps
  <2>4. CASE \E r \in Groups : MovingGroup(r)
    BY <2>4, MovingKeeps
  <2> QED  BY <2>1, <2>2, <2>3, <2>4 DEF Control, ReadSys, ReadGroup
<1>5. Content' \in [App -> Contents]
  BY <1>1, ContentTypeNext
<1>6. \A x \in App : Content'[x] \in {Content[x]} \cup stale[x]
  BY <1>4, ContentIs DEF Held
<1> QED  BY <1>2, <1>5, <1>6, Zenon DEF VD!Move, Content

LEMMA StepImplements ==
  Orderly /\ Full /\ [Next]_vars => [VD!Next]_<<[x \in App |-> disk[Where(x)]], stale, reply>>
<1> SUFFICES ASSUME Orderly, Full, [Next]_vars
             PROVE  VD!Next \/ UNCHANGED <<Content, stale, reply>>
  BY DEF Content
<1>1. CASE Application
  <2>1. PICK q \in Requests : Refuse(q) \/ Read(q) \/ Write(q)
    BY <1>1 DEF Application
  <2>2. CASE Refuse(q)
    <3>1. VD!Refuse(q)
      BY <2>2, RefuseImplements
    <3> QED  BY <3>1 DEF VD!Next
  <2>3. CASE Read(q)
    <3>1. VD!Read(q)
      BY <2>3, ReadImplements
    <3> QED  BY <3>1 DEF VD!Next
  <2>4. CASE Write(q)
    <3>1. VD!Write(q)
      BY <2>4, WriteImplements
    <3> QED  BY <3>1 DEF VD!Next
  <2> QED  BY <2>1, <2>2, <2>3, <2>4
<1>2. CASE Control
  <2>1. VD!Move
    BY <1>2, ControlImplements
  <2> QED  BY <2>1 DEF VD!Next
<1>3. CASE UNCHANGED vars
  <2>1. UNCHANGED <<disk, phase, data, w, reply, stale>>
    BY <1>3 DEF vars
  <2>2. \A x : Where(x)' = Where(x)
    BY <2>1, SameHomes DEF Where
  <2> QED  BY <2>1, <2>2, ContentKept
<1> QED  BY <1>1, <1>2, <1>3 DEF Next

\* With an orderly plan, the applications see a disk whose sectors keep what was
\* last written to them, but for a write made to a sector between the read and the
\* write of its chunk, which may come undone: every step of the mover and of the
\* worker is a step of such a disk or changes nothing of it.
THEOREM Refines == Orderly => (Spec => Implements)
<1> SUFFICES ASSUME Orderly  PROVE  Spec => Implements
  OBVIOUS
<1>1. Init => VD!Init
  BY ImplementsInit
<1>2. Full /\ [Next]_vars => [VD!Next]_<<[x \in App |-> disk[Where(x)]], stale, reply>>
  BY StepImplements
<1>3. Spec => []Full
  BY AlwaysFull
<1> QED  BY <1>1, <1>2, <1>3, PTL DEF Spec, Implements, VD!Spec

=============================================================================
