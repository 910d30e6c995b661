-------------------------- MODULE Relocate_proofs --------------------------
(* Theorems about Relocate, for any groups, tables, requests and number of  *)
(* buffers.  The first part is about the list of buffers (Inv), the second  *)
(* about what the sectors hold (Whole): the control program's flags, the    *)
(* request and how far the worker has come with it, and for every sector    *)
(* which of its places is up to date.                                       *)
EXTENDS Relocate, FiniteSetTheorems, SequenceTheorems, WellFoundedInduction, TLAPS

-----------------------------------------------------------------------------
(* The first region.                                                       *)

Less == {p \in Nat \X Nat : p[1] < p[2]}

\* A set of numbers has a least one.
LEMMA Smallest ==
  ASSUME NEW T, T \subseteq Nat, T # {}
  PROVE  \E x \in T : \A y \in T : x <= y
<1>1. IsWellFoundedOn(Less, Nat)
  BY NatLessThanWellFounded DEF OpToRel, Less, IsWellFoundedOn
<1>2. PICK x \in T : \A y \in T : ~(<<y, x>> \in Less)
  BY <1>1, WFMin
<1>3. x \in Nat /\ \A y \in Nat : y < x => <<y, x>> \in Less
  BY DEF Less
<1>4. ASSUME NEW y \in T PROVE x <= y
  <2>1. y \in Nat /\ ~(y < x)
    BY <1>2, <1>3
  <2> QED BY <1>3, <2>1
<1> QED BY <1>4

\* The region that is searched for is one that has been set.
LEMMA FirstIsSet ==
  ASSUME set \in Nat, NEW r, NEW pos, RegionsFrom(r, pos) # {}
  PROVE  FirstOf(RegionsFrom(r, pos)) \in 1..set
<1> DEFINE rs == RegionsFrom(r, pos)
<1>1. rs \subseteq 1..set /\ rs \subseteq Nat
  BY DEF RegionsFrom
<1>2. \E q \in rs : \A p \in rs : q <= p
  BY <1>1, Smallest
<1>3. FirstOf(rs) \in rs
  BY <1>2 DEF FirstOf
<1> QED BY <1>1, <1>3

-----------------------------------------------------------------------------
(* The list and the buffers.                                               *)

\* The list names regions that have a buffer, each once.
ListInv ==
  /\ set \in 0..Len(Ends)
  /\ holds \in [Tables -> 0..Len(Ends)]
  /\ lru \in Seq(Tables)
  /\ \A m, n \in DOMAIN lru : lru[m] = lru[n] => m = n
  /\ \A n \in DOMAIN lru : holds[lru[n]] # 0

\* There are as many buffers as there may be, with the tables of regions that
\* are set, and until the driver is initialised again the list names them all.
BufferInv ==
  /\ Loaded \subseteq 1..set
  /\ Cardinality(Loaded) = Least(set, MaxLoaded)
  /\ spoiled \/ \A r \in Loaded : holds[r] = r
  /\ again \/ (Len(lru) = Cardinality(Loaded) /\ \A r \in Loaded : \E n \in DOMAIN lru : lru[n] = r)

Inv == ListInv /\ BufferInv /\ CrashNeedsSecondInit

LEMMA Numbers == Len(Ends) \in Nat /\ Tables = 1..Len(Ends) /\ MaxLoaded \in Nat /\ MaxLoaded > 0
BY RelocateAssumption DEF Tables

LEMMA LoadedFinite == IsFiniteSet(Loaded) /\ Cardinality(Loaded) \in Nat
<1>1. IsFiniteSet(Tables)
  BY Numbers, FS_Interval
<1>2. Loaded \subseteq Tables
  BY DEF Loaded
<1> QED BY <1>1, <1>2, FS_Subset, FS_CardinalityType

LEMMA InvInit == Init => Inv
<1> SUFFICES ASSUME Init PROVE Inv
  OBVIOUS
<1>1. Loaded = {} /\ Cardinality({}) = 0
  BY FS_EmptySet DEF Init, Loaded
<1>2. lru \in Seq(Tables) /\ Len(lru) = 0 /\ DOMAIN lru = {}
  BY DEF Init
<1>3. ListInv
  BY <1>2, Numbers DEF Init, ListInv
<1>4. BufferInv
  BY <1>1, <1>2, Numbers DEF Init, BufferInv, Least
<1> QED BY <1>3, <1>4 DEF Init, Inv, CrashNeedsSecondInit

\* Steps that leave the tables alone.
LEMMA InvSame ==
  ASSUME Inv, UNCHANGED cache, UNCHANGED <<again, spoiled>>, crash' = "null" => again
  PROVE  Inv'
<1>1. Loaded' = Loaded
  BY DEF Loaded, cache
<1>2. ListInv'
  BY DEF Inv, ListInv, cache
<1>3. BufferInv'
  BY <1>1 DEF Inv, BufferInv, cache
<1> QED BY <1>2, <1>3 DEF Inv, CrashNeedsSecondInit

-----------------------------------------------------------------------------
(* The steps that change them.                                             *)

LEMMA InvRMInit == Inv /\ RMInit => Inv'
<1> SUFFICES ASSUME Inv, RMInit PROVE Inv'
  OBVIOUS
<1>1. /\ UNCHANGED <<set, holds, spoiled, crash>> /\ lru' = <<>>
      /\ (again' <=> again \/ set > 0)
  BY DEF RMInit
<1>2. Loaded' = Loaded
  BY <1>1 DEF Loaded
<1>3. lru' \in Seq(Tables) /\ Len(lru') = 0 /\ DOMAIN lru' = {}
  BY <1>1
<1>4. ListInv'
  BY <1>1, <1>3 DEF Inv, ListInv
<1>5. ASSUME set = 0 PROVE Loaded = {} /\ Cardinality(Loaded) = 0
  <2>1. Loaded = {}
    BY <1>5 DEF Inv, BufferInv
  <2> QED BY <2>1, FS_EmptySet
<1>6. set \in Nat
  BY Numbers DEF Inv, ListInv
<1>7. BufferInv'
  BY <1>1, <1>2, <1>3, <1>5, <1>6 DEF Inv, BufferInv
<1> QED BY <1>1, <1>4, <1>7 DEF Inv, CrashNeedsSecondInit

\* A region that is new to the list is put behind it.
LEMMA AppendOnce ==
  ASSUME NEW q \in Seq(Tables), NEW r \in Tables,
         \A m, n \in DOMAIN q : q[m] = q[n] => m = n, \A n \in DOMAIN q : q[n] # r
  PROVE  /\ Append(q, r) \in Seq(Tables) /\ Len(Append(q, r)) = Len(q) + 1
         /\ \A m, n \in DOMAIN Append(q, r) : Append(q, r)[m] = Append(q, r)[n] => m = n
         /\ \A n \in DOMAIN Append(q, r) : Append(q, r)[n] = r \/ \E k \in DOMAIN q : Append(q, r)[n] = q[k]
         /\ \E n \in DOMAIN Append(q, r) : Append(q, r)[n] = r
         /\ \A k \in DOMAIN q : \E n \in DOMAIN Append(q, r) : Append(q, r)[n] = q[k]
<1>1. Append(q, r) \in Seq(Tables) /\ Len(Append(q, r)) = Len(q) + 1
  OBVIOUS
<1>2. \A n \in DOMAIN Append(q, r) :
        (n \in DOMAIN q /\ Append(q, r)[n] = q[n]) \/ (n = Len(q) + 1 /\ Append(q, r)[n] = r)
  OBVIOUS
<1>3. \A n \in DOMAIN q : n \in DOMAIN Append(q, r)
  OBVIOUS
<1>4. Len(q) + 1 \in DOMAIN Append(q, r) /\ Append(q, r)[Len(q) + 1] = r
  OBVIOUS
<1>5. \A n \in DOMAIN q : Append(q, r)[n] = q[n]
  OBVIOUS
<1> QED BY <1>1, <1>2, <1>3, <1>4, <1>5

\* Without its head the list names all the others.
LEMMA TailOnce ==
  ASSUME NEW q \in Seq(Tables), q # <<>>, \A m, n \in DOMAIN q : q[m] = q[n] => m = n
  PROVE  /\ Tail(q) \in Seq(Tables) /\ Len(Tail(q)) = Len(q) - 1
         /\ Head(q) \in Tables /\ Head(q) = q[1] /\ 1 \in DOMAIN q
         /\ \A m, n \in DOMAIN Tail(q) : Tail(q)[m] = Tail(q)[n] => m = n
         /\ \A n \in DOMAIN Tail(q) : Tail(q)[n] # Head(q) /\ \E k \in DOMAIN q : Tail(q)[n] = q[k]
         /\ \A k \in DOMAIN q : q[k] = Head(q) \/ \E n \in DOMAIN Tail(q) : Tail(q)[n] = q[k]
<1>1. /\ Tail(q) \in Seq(Tables) /\ Len(Tail(q)) = Len(q) - 1
      /\ Head(q) \in Tables /\ Head(q) = q[1] /\ 1 \in DOMAIN q
  OBVIOUS
<1>2. \A n \in DOMAIN Tail(q) : n + 1 \in DOMAIN q /\ Tail(q)[n] = q[n + 1] /\ n \in Nat /\ n + 1 # 1
  OBVIOUS
<1>3. \A k \in DOMAIN q : k = 1 \/ (k - 1 \in DOMAIN Tail(q) /\ Tail(q)[k - 1] = q[k])
  OBVIOUS
<1>4. \A m, n \in DOMAIN Tail(q) : Tail(q)[m] = Tail(q)[n] => m = n
  BY <1>2
<1>5. \A n \in DOMAIN Tail(q) : Tail(q)[n] # Head(q)
  BY <1>1, <1>2
<1>6. \A n \in DOMAIN Tail(q) : \E k \in DOMAIN q : Tail(q)[n] = q[k]
  BY <1>2
<1>7. \A k \in DOMAIN q : q[k] = Head(q) \/ \E n \in DOMAIN Tail(q) : Tail(q)[n] = q[k]
  BY <1>1, <1>3
<1> QED BY <1>1, <1>4, <1>5, <1>6, <1>7

LEMMA InvRMSetGroup == Inv /\ RMSetGroup => Inv'
<1> SUFFICES ASSUME Inv, RMSetGroup PROVE Inv'
  OBVIOUS
<1>0. /\ ListInv /\ BufferInv /\ CrashNeedsSecondInit /\ UNCHANGED <<again, spoiled>>
      /\ set \in Nat /\ set < Len(Ends)
  BY Numbers DEF Inv, ListInv, RMSetGroup, claims
<1>1. CASE crash' = "memory" /\ UNCHANGED cache
  BY <1>0, <1>1, InvSame
<1>2. CASE set' = set + 1 /\ Full /\ UNCHANGED <<holds, lru, crash>>
  <2>1. Loaded' = Loaded
    BY <1>2 DEF Loaded
  <2>2. Least(set + 1, MaxLoaded) = Least(set, MaxLoaded)
    BY <1>0, <1>2, Numbers DEF Full, Least
  <2>3. ListInv'
    BY <1>0, <1>2 DEF ListInv
  <2>4. BufferInv'
    BY <1>0, <1>2, <2>1, <2>2 DEF BufferInv
  <2> QED BY <1>0, <1>2, <2>3, <2>4 DEF Inv, CrashNeedsSecondInit
<1>3. CASE /\ set' = set + 1 /\ ~Full /\ UNCHANGED crash
           /\ holds' = [holds EXCEPT ![set + 1] = set + 1] /\ lru' = Append(lru, set + 1)
  <2> DEFINE r == set + 1
  <2>1. r \in Tables /\ r # 0 /\ r \notin Loaded /\ r \in 0..Len(Ends)
    BY <1>0, Numbers DEF BufferInv
  <2>2. holds[r] = 0
    BY <2>1 DEF Loaded
  <2> HIDE DEF r
  <2>3. \A q \in Tables : holds'[q] = IF q = r THEN r ELSE holds[q]
    BY <1>0, <1>3 DEF ListInv, r
  <2>4. Loaded' = Loaded \cup {r}
    BY <2>1, <2>3 DEF Loaded
  <2>5. Cardinality(Loaded') = Cardinality(Loaded) + 1
    BY <2>1, <2>4, LoadedFinite, FS_AddElement
  <2>6. \A n \in DOMAIN lru : lru[n] # r
    BY <1>0, <2>2 DEF ListInv
  <2>7. /\ lru' \in Seq(Tables) /\ Len(lru') = Len(lru) + 1
        /\ \A m, n \in DOMAIN lru' : lru'[m] = lru'[n] => m = n
        /\ \A n \in DOMAIN lru' : lru'[n] = r \/ \E k \in DOMAIN lru : lru'[n] = lru[k]
        /\ \E n \in DOMAIN lru' : lru'[n] = r
        /\ \A k \in DOMAIN lru : \E n \in DOMAIN lru' : lru'[n] = lru[k]
    <3>1. lru \in Seq(Tables) /\ \A m, n \in DOMAIN lru : lru[m] = lru[n] => m = n
      BY <1>0 DEF ListInv
    <3>2. lru' = Append(lru, r)
      BY <1>3 DEF r
    <3> QED BY <2>1, <2>6, <3>1, <3>2, AppendOnce
  <2>8. holds' \in [Tables -> 0..Len(Ends)]
    BY <1>0, <1>3, <2>1 DEF ListInv, r
  <2>9. \A n \in DOMAIN lru' : holds'[lru'[n]] # 0
    <3>1. \A k \in DOMAIN lru : lru[k] # r /\ lru[k] \in Tables /\ holds[lru[k]] # 0
      BY <1>0, <2>6 DEF ListInv
    <3>2. ASSUME NEW n \in DOMAIN lru' PROVE holds'[lru'[n]] # 0
      <4>1. CASE lru'[n] = r
        BY <2>1, <2>3, <4>1
      <4>2. CASE \E k \in DOMAIN lru : lru'[n] = lru[k]
        BY <2>3, <3>1, <4>2
      <4> QED BY <2>7, <4>1, <4>2
    <3> QED BY <3>2
  <2>10. ListInv'
    <3>1. set' \in 0..Len(Ends)
      BY <1>0, <1>3, Numbers
    <3> QED BY <2>7, <2>8, <2>9, <3>1 DEF ListInv
  <2>11. Cardinality(Loaded') = Least(set', MaxLoaded)
    BY <1>0, <1>3, <2>5, Numbers DEF BufferInv, Full, Least
  <2>12. Loaded' \subseteq 1..set' /\ (spoiled' \/ \A q \in Loaded' : holds'[q] = q)
    <3>1. \A q \in Loaded : q \in Tables /\ q # r
      BY <2>1 DEF Loaded
    <3>2. Loaded' \subseteq 1..set'
      BY <1>0, <1>3, <2>4 DEF BufferInv, r
    <3>3. ASSUME ~spoiled PROVE \A q \in Loaded' : holds'[q] = q
      BY <1>0, <2>1, <2>3, <2>4, <3>1, <3>3 DEF BufferInv
    <3> QED BY <1>0, <3>2, <3>3
  <2>13. again' \/ (Len(lru') = Cardinality(Loaded') /\ \A q \in Loaded' : \E n \in DOMAIN lru' : lru'[n] = q)
    BY <1>0, <2>4, <2>5, <2>7 DEF BufferInv
  <2>14. BufferInv'
    BY <2>11, <2>12, <2>13 DEF BufferInv
  <2> QED BY <1>0, <1>3, <2>10, <2>14 DEF Inv, CrashNeedsSecondInit
<1> QED BY <1>1, <1>2, <1>3 DEF RMSetGroup

\* A table is read into the buffer of the region that was loaded first.
LEMMA InvLoad ==
  ASSUME Inv, NEW r \in 1..set, NEW ok \in BOOLEAN, Load(r, ok), UNCHANGED <<set, again, crash>>
  PROVE  Inv'
<1>0. /\ ListInv /\ BufferInv /\ CrashNeedsSecondInit
      /\ r \in Tables /\ set \in Nat
  BY Numbers DEF Inv, ListInv
<1>1. CASE holds[r] # 0
  <2>1. UNCHANGED <<holds, lru, spoiled>>
    BY <1>1 DEF Load
  <2> QED BY <2>1, InvSame DEF cache, Inv, CrashNeedsSecondInit
<1>2. CASE holds[r] = 0
  <2> DEFINE h == Head(lru)
             v == IF ok THEN r ELSE holds[h]
  <2>1. /\ lru # <<>> /\ holds' = [holds EXCEPT ![h] = 0, ![r] = v]
        /\ lru' = Append(Tail(lru), r) /\ (spoiled' <=> spoiled \/ ~ok)
    BY <1>2 DEF Load, Reuse
  <2>2. lru \in Seq(Tables) /\ \A m, n \in DOMAIN lru : lru[m] = lru[n] => m = n
    BY <1>0 DEF ListInv
  <2>3. /\ Tail(lru) \in Seq(Tables) /\ Len(Tail(lru)) = Len(lru) - 1
        /\ h \in Tables /\ h = lru[1] /\ 1 \in DOMAIN lru
        /\ \A m, n \in DOMAIN Tail(lru) : Tail(lru)[m] = Tail(lru)[n] => m = n
        /\ \A n \in DOMAIN Tail(lru) : Tail(lru)[n] # h /\ \E k \in DOMAIN lru : Tail(lru)[n] = lru[k]
        /\ \A k \in DOMAIN lru : lru[k] = h \/ \E n \in DOMAIN Tail(lru) : Tail(lru)[n] = lru[k]
    BY <2>1, <2>2, TailOnce
  <2>4. h \in Loaded /\ holds[h] # 0 /\ h # r /\ r \notin Loaded /\ v # 0 /\ v \in 0..Len(Ends)
    <3>1. holds[h] # 0 /\ holds[h] \in 0..Len(Ends)
      BY <1>0, <2>3 DEF ListInv
    <3>2. r # 0 /\ r \in 0..Len(Ends)
      BY <1>0, Numbers
    <3> QED BY <1>2, <2>3, <3>1, <3>2 DEF Loaded
  <2>5. \A n \in DOMAIN Tail(lru) : Tail(lru)[n] # r
    BY <1>0, <1>2, <2>3 DEF ListInv
  <2> DEFINE t == Tail(lru)
  <2> HIDE DEF h, v, t
  <2>6. /\ lru' \in Seq(Tables) /\ Len(lru') = Len(lru)
        /\ \A m, n \in DOMAIN lru' : lru'[m] = lru'[n] => m = n
        /\ \A n \in DOMAIN lru' : lru'[n] = r \/ \E k \in DOMAIN t : lru'[n] = t[k]
        /\ \E n \in DOMAIN lru' : lru'[n] = r
        /\ \A k \in DOMAIN t : \E n \in DOMAIN lru' : lru'[n] = t[k]
    <3>1. /\ lru' = Append(t, r) /\ t \in Seq(Tables)
          /\ \A m, n \in DOMAIN t : t[m] = t[n] => m = n
          /\ \A n \in DOMAIN t : t[n] # r
      BY <2>1, <2>3, <2>5 DEF t
    <3>2. Len(t) = Len(lru) - 1 /\ Len(lru) \in Nat
      BY <2>2, <2>3 DEF t
    <3> HIDE DEF t
    <3>3. /\ Append(t, r) \in Seq(Tables) /\ Len(Append(t, r)) = Len(t) + 1
          /\ \A m, n \in DOMAIN Append(t, r) : Append(t, r)[m] = Append(t, r)[n] => m = n
          /\ \A n \in DOMAIN Append(t, r) : Append(t, r)[n] = r \/ \E k \in DOMAIN t : Append(t, r)[n] = t[k]
          /\ \E n \in DOMAIN Append(t, r) : Append(t, r)[n] = r
          /\ \A k \in DOMAIN t : \E n \in DOMAIN Append(t, r) : Append(t, r)[n] = t[k]
      BY <1>0, <3>1, AppendOnce
    <3> QED BY <3>1, <3>2, <3>3
  <2>7. \A q \in Tables : holds'[q] = IF q = r THEN v ELSE IF q = h THEN 0 ELSE holds[q]
    BY <1>0, <2>1, <2>3 DEF ListInv
  <2>8. Loaded' = (Loaded \ {h}) \cup {r}
    BY <1>0, <2>4, <2>7 DEF Loaded
  <2>9. Cardinality(Loaded') = Cardinality(Loaded)
    <3>1. IsFiniteSet(Loaded \ {h}) /\ Cardinality(Loaded \ {h}) = Cardinality(Loaded) - 1
      BY <2>4, LoadedFinite, FS_RemoveElement
    <3>2. Cardinality((Loaded \ {h}) \cup {r}) = Cardinality(Loaded \ {h}) + 1
      BY <2>4, <3>1, FS_AddElement
    <3> QED BY <2>8, <3>1, <3>2, LoadedFinite
  <2>10. holds' \in [Tables -> 0..Len(Ends)]
    BY <1>0, <2>1, <2>4 DEF ListInv
  <2>11. \A n \in DOMAIN lru' : holds'[lru'[n]] # 0
    <3>1. \A k \in DOMAIN t : t[k] # h /\ t[k] # r /\ t[k] \in Tables /\ holds[t[k]] # 0
      BY <1>0, <2>3, <2>5 DEF t, ListInv
    <3>2. ASSUME NEW n \in DOMAIN lru' PROVE holds'[lru'[n]] # 0
      <4>1. CASE lru'[n] = r
        BY <1>0, <2>4, <2>7, <4>1
      <4>2. CASE \E k \in DOMAIN t : lru'[n] = t[k]
        BY <2>7, <3>1, <4>2
      <4> QED BY <2>6, <4>1, <4>2
    <3> QED BY <3>2
  <2>12. ListInv'
    BY <1>0, <2>6, <2>10, <2>11 DEF ListInv
  <2>13. ASSUME ~spoiled' PROVE \A q \in Loaded' : holds'[q] = q
    <3>1. ~spoiled /\ v = r
      BY <2>1, <2>13 DEF v
    <3>2. \A q \in Loaded : q \in Tables /\ holds[q] = q
      BY <1>0, <3>1 DEF BufferInv, Loaded
    <3> QED BY <1>0, <2>4, <2>7, <2>8, <3>1, <3>2
  <2>14. ASSUME ~again PROVE \A q \in Loaded' : \E n \in DOMAIN lru' : lru'[n] = q
    <3>1. \A q \in Loaded \ {h} : \E k \in DOMAIN t : t[k] = q
      <4>1. \A q \in Loaded : \E k \in DOMAIN lru : lru[k] = q
        BY <1>0, <2>14 DEF BufferInv
      <4>2. \A k \in DOMAIN lru : lru[k] = h \/ \E n \in DOMAIN t : t[n] = lru[k]
        BY <2>3 DEF t
      <4> QED BY <4>1, <4>2
    <3> QED BY <2>6, <2>8, <3>1
  <2>15. BufferInv'
    BY <1>0, <2>4, <2>6, <2>8, <2>9, <2>13, <2>14 DEF BufferInv
  <2> QED BY <1>0, <2>12, <2>15 DEF Inv, CrashNeedsSecondInit
<1> QED BY <1>1, <1>2

\* Without a buffer to reuse, the list was thrown away.
LEMMA InvNoBuffer ==
  ASSUME Inv, NEW r \in 1..set, NoBuffer(r)
  PROVE  again
<1> SUFFICES ASSUME ~again PROVE FALSE
  OBVIOUS
<1>1. Len(lru) = 0
  BY DEF NoBuffer
<1>2. Least(set, MaxLoaded) = 0
  BY <1>1 DEF Inv, BufferInv
<1> QED BY <1>2, Numbers DEF Inv, ListInv, Least

LEMMA InvFirstGroup == Inv /\ FirstGroup => Inv'
<1> SUFFICES ASSUME Inv, FirstGroup PROVE Inv'
  OBVIOUS
<1> DEFINE rs == RegionsFrom(0, app.pos)
           r  == FirstOf(rs)
<1>1. UNCHANGED <<set, again>> /\ set \in Nat
  BY Numbers DEF FirstGroup, Inv, ListInv
<1>2. rs # {} => r \in 1..set
  BY <1>1, FirstIsSet
<1> HIDE DEF r, rs
<1>3. \/ UNCHANGED <<holds, lru, spoiled, crash>>
      \/ rs # {} /\ NoBuffer(r) /\ UNCHANGED <<holds, lru, spoiled>>
      \/ rs # {} /\ UNCHANGED crash /\ \E ok \in BOOLEAN : Load(r, ok)
  BY DEF FirstGroup, r, rs
<1>4. CASE UNCHANGED <<holds, lru, spoiled, crash>>
  BY <1>1, <1>4, InvSame DEF cache, Inv, CrashNeedsSecondInit
<1>5. CASE rs # {} /\ NoBuffer(r) /\ UNCHANGED <<holds, lru, spoiled>>
  BY <1>1, <1>2, <1>5, InvNoBuffer, InvSame DEF cache
<1>6. CASE rs # {} /\ UNCHANGED crash /\ \E ok \in BOOLEAN : Load(r, ok)
  BY <1>1, <1>2, <1>6, InvLoad
<1> QED BY <1>3, <1>4, <1>5, <1>6

LEMMA InvNextGroup == Inv /\ NextGroup => Inv'
<1> SUFFICES ASSUME Inv, NextGroup PROVE Inv'
  OBVIOUS
<1> DEFINE rs == RegionsFrom(app.node, app.pos)
           r  == FirstOf(rs)
<1>1. UNCHANGED <<set, again>> /\ set \in Nat
  BY Numbers DEF NextGroup, Inv, ListInv
<1>2. rs # {} => r \in 1..set
  BY <1>1, FirstIsSet
<1> HIDE DEF r, rs
<1>3. \/ UNCHANGED <<holds, lru, spoiled, crash>>
      \/ rs # {} /\ NoBuffer(r) /\ UNCHANGED <<holds, lru, spoiled>>
      \/ rs # {} /\ UNCHANGED crash /\ \E ok \in BOOLEAN : Load(r, ok)
  BY DEF NextGroup, r, rs
<1>4. CASE UNCHANGED <<holds, lru, spoiled, crash>>
  BY <1>1, <1>4, InvSame DEF cache, Inv, CrashNeedsSecondInit
<1>5. CASE rs # {} /\ NoBuffer(r) /\ UNCHANGED <<holds, lru, spoiled>>
  BY <1>1, <1>2, <1>5, InvNoBuffer, InvSame DEF cache
<1>6. CASE rs # {} /\ UNCHANGED crash /\ \E ok \in BOOLEAN : Load(r, ok)
  BY <1>1, <1>2, <1>6, InvLoad
<1> QED BY <1>3, <1>4, <1>5, <1>6

LEMMA InvNext == Inv /\ [Next]_vars => Inv'
<1> SUFFICES ASSUME Inv, [Next]_vars PROVE Inv'
  OBVIOUS
<1>1. ASSUME UNCHANGED cache, UNCHANGED <<again, spoiled, crash>> PROVE Inv'
  BY <1>1, InvSame DEF Inv, CrashNeedsSecondInit
<1>2. CASE UNCHANGED vars
  BY <1>1, <1>2 DEF vars, claims
<1>3. CASE Check
  BY <1>1, <1>3 DEF Check, claims
<1>4. CASE RangeTest
  BY <1>1, <1>4 DEF RangeTest
<1>5. CASE PointerTest
  BY <1>1, <1>5 DEF PointerTest
<1>6. CASE Group
  BY <1>1, <1>6 DEF Group
<1>7. CASE Final
  BY <1>1, <1>7 DEF Final
<1>8. CASE Lower
  BY <1>1, <1>8 DEF Lower
<1>9. CASE Answer
  BY <1>1, <1>9 DEF Answer, claims
<1>10. ASSUME NEW q \in Requests, Submit(q) PROVE Inv'
  BY <1>1, <1>10 DEF Submit, claims
<1>11. CASE RMExit
  BY <1>1, <1>11 DEF RMExit, claims
<1>12. CASE Enable \/ EnableMax \/ EnableFlag \/ EnablePointer
  BY <1>1, <1>12 DEF Enable, EnableMax, EnableFlag, EnablePointer, claims
<1>13. CASE Disable \/ DisableMin \/ DisableMax
  BY <1>1, <1>13 DEF Disable, DisableMin, DisableMax, claims
<1>14. CASE YgRead \/ YgWrite
  BY <1>1, <1>14 DEF YgRead, YgWrite, claims
<1> QED BY <1>2, <1>3, <1>4, <1>5, <1>6, <1>7, <1>8, <1>9, <1>10, <1>11, <1>12, <1>13, <1>14,
           InvRMInit, InvRMSetGroup, InvFirstGroup, InvNextGroup DEF Next, Worker, Control

\* Inv is an invariant of relocation.
THEOREM Correct == Spec => []Inv
BY InvInit, InvNext, PTL DEF Spec

\* For any number of regions there are never more tables in memory than may be,
\* each buffer has its own region's unless one could not be read, and there is
\* always one to reuse until the driver is initialised again.
THEOREM BuffersSound == Spec => []CacheSound
<1>1. ASSUME Inv PROVE CacheSound
  <2>1. Cardinality(Loaded) <= MaxLoaded
    BY <1>1, Numbers DEF Inv, ListInv, BufferInv, Least
  <2>2. \A n \in DOMAIN lru : lru[n] \in Loaded
    BY <1>1 DEF Inv, ListInv, Loaded
  <2>3. again \/ (ToSet(lru) = Loaded /\ Len(lru) = Cardinality(Loaded))
    BY <1>1, <2>2 DEF Inv, BufferInv, ToSet
  <2> QED BY <1>1, <2>1, <2>3 DEF Inv, BufferInv, CacheSound
<1> QED BY <1>1, Correct, PTL

\* The worker uses a missing buffer only after IOCTL_RM_BLKMOV_INIT came again.
THEOREM BufferToReuse == Spec => []CrashNeedsSecondInit
<1>1. Inv => CrashNeedsSecondInit
  BY DEF Inv
<1> QED BY <1>1, Correct, PTL

-----------------------------------------------------------------------------
(* What the sectors hold.                                                  *)

Count  == Len(Groups)
Source == 0 .. Groups[1].t - 1
Inside(i, x) == x \in Span(Groups[i])
Outside(x) == \A i \in 1..Count : ~Inside(i, x)
EndOf(i) == Groups[i].s + Groups[i].n


LEMMA IsGroup == \A i \in 1..Count : Groups[i] \in [s : Nat, n : Nat \ {0}, t : Nat]
<1>1. PICK S : S = [s : Nat, n : Nat \ {0}, t : Nat]
  OBVIOUS
<1>2. Groups \in Seq(S)
  BY <1>1, RelocateAssumption
<1>3. \A i \in 1..Len(Groups) : Groups[i] \in S
  BY <1>2
<1> QED BY <1>1, <1>3 DEF Count

\* The groups and their targets lie in order, the sources in front of the targets.
LEMMA GroupFacts ==
  /\ Count \in Nat /\ Count > 0
  /\ MinSec \in Nat /\ MaxSec \in Nat /\ Size \in Nat /\ MaxSec <= Size /\ MaxSec > 0
  /\ \A i \in 1..Count :
       /\ Groups[i].s \in Nat /\ Groups[i].n \in Nat /\ Groups[i].n > 0 /\ Groups[i].t \in Nat
       /\ MinSec <= Groups[i].s /\ EndOf(i) <= Groups[1].t
       /\ Groups[1].t <= Groups[i].t /\ Groups[i].t + Groups[i].n <= MaxSec
       /\ Groups[i].t + Groups[i].n = MaxSec <=> i = Count
  /\ \A i, j \in 1..Count : i < j => /\ EndOf(i) <= Groups[j].s
                                     /\ Groups[i].t + Groups[i].n <= Groups[j].t
<1>1. Groups \in Seq([s : Nat, n : Nat \ {0}, t : Nat]) /\ Count \in Nat /\ DOMAIN Groups = 1..Count /\ Len(Groups) = Count
  BY RelocateAssumption DEF Count
<1>2. Count > 0
  <2>1. Ends \in Seq(Nat \ {0}) /\ Ends # <<>> /\ Count = Ends[Len(Ends)]
    BY RelocateAssumption DEF Count, Last
  <2>2. Len(Ends) \in 1..Len(Ends)
    BY <2>1
  <2> QED BY <2>1, <2>2
<1>3. /\ MinSec \in Nat /\ MaxSec \in Nat /\ Size \in Nat /\ MaxSec <= Size
      /\ Groups[Count].t + Groups[Count].n = MaxSec
  BY RelocateAssumption DEF Count, Last
<1>4. \A i \in 1..Count : Groups[i] \in [s : Nat, n : Nat \ {0}, t : Nat]
  BY IsGroup
<1>5. \A i \in 1..Count :
        /\ Groups[i].s \in Nat /\ Groups[i].n \in Nat /\ Groups[i].n > 0 /\ Groups[i].t \in Nat
  BY <1>4
<1>6. \A i \in 1..Count : /\ MinSec <= Groups[i].s /\ Groups[i].t + Groups[i].n <= MaxSec
                          /\ \A j \in 1..Count : EndOf(j) <= Groups[i].t
  BY <1>1, RelocateAssumption DEF EndOf
<1>7. \A i, j \in 1..Count : i < j => /\ EndOf(i) <= Groups[j].s
                                      /\ Groups[i].t + Groups[i].n <= Groups[j].t
  BY <1>1, RelocateAssumption DEF EndOf
<1>8. 1 \in 1..Count /\ Count \in 1..Count
  BY <1>1, <1>2
<1>9. ASSUME NEW i \in 1..Count PROVE Groups[1].t <= Groups[i].t
  <2>1. CASE i = 1
    BY <1>5, <1>8, <2>1
  <2>2. CASE i # 1
    BY <1>5, <1>7, <1>8, <2>2
  <2> QED BY <2>1, <2>2
<1>10. ASSUME NEW i \in 1..Count PROVE Groups[i].t + Groups[i].n = MaxSec <=> i = Count
  <2>1. CASE i = Count
    BY <1>3, <2>1
  <2>2. CASE i # Count
    <3>1. i < Count
      BY <1>1, <2>2
    <3>2. Groups[i].t + Groups[i].n <= Groups[Count].t
      BY <1>7, <1>8, <3>1
    <3> QED BY <1>3, <1>5, <1>8, <2>2, <3>2
  <2> QED BY <2>1, <2>2
<1>11. MaxSec > 0
  BY <1>3, <1>5, <1>8
<1> QED BY <1>1, <1>2, <1>3, <1>5, <1>6, <1>7, <1>8, <1>9, <1>10, <1>11

\* No two sectors share a place.
LEMMA Places ==
  /\ Source \subseteq Sectors /\ Source \subseteq Nat
  /\ \A i \in 1..Count : \A x \in Span(Groups[i]) :
       /\ x \in Source /\ x >= MinSec /\ Target(Groups[i], x) \in Sectors \ Source
       /\ Target(Groups[i], x) \in Groups[i].t .. Groups[i].t + Groups[i].n - 1
  /\ \A i, j \in 1..Count : \A x \in Span(Groups[i]), y \in Span(Groups[j]) :
       Target(Groups[i], x) = Target(Groups[j], y) => x = y /\ i = j
  /\ \A i, j \in 1..Count : \A x \in Span(Groups[i]) : x \in Span(Groups[j]) => i = j
<1>1. 1 \in 1..Count
  BY GroupFacts
<1>2. Source \subseteq Sectors /\ Source \subseteq Nat
  <2>1. Groups[1].t \in Nat /\ Groups[1].t <= Size
    BY <1>1, GroupFacts
  <2> QED BY <2>1, GroupFacts DEF Source, Sectors
<1>3. ASSUME NEW i \in 1..Count, NEW x \in Span(Groups[i])
      PROVE  /\ x \in Source /\ x >= MinSec /\ Target(Groups[i], x) \in Sectors \ Source
             /\ Target(Groups[i], x) \in Groups[i].t .. Groups[i].t + Groups[i].n - 1
  <2>1. /\ Groups[i].s \in Nat /\ Groups[i].n \in Nat /\ Groups[i].n > 0 /\ Groups[i].t \in Nat
        /\ MinSec \in Nat /\ MinSec <= Groups[i].s /\ Groups[i].s + Groups[i].n <= Groups[1].t
        /\ Groups[1].t \in Nat /\ Groups[1].t <= Groups[i].t /\ Groups[i].t + Groups[i].n <= Size /\ Size \in Nat
    <3>1. /\ Groups[i].t + Groups[i].n <= MaxSec /\ MaxSec <= Size /\ MaxSec \in Nat /\ Size \in Nat
          /\ Groups[i].n \in Nat /\ Groups[i].t \in Nat
      BY GroupFacts
    <3> QED BY <1>1, <3>1, GroupFacts DEF EndOf
  <2>2. x \in Int /\ Groups[i].s <= x /\ x < Groups[i].s + Groups[i].n
    BY <2>1 DEF Span
  <2> QED BY <2>1, <2>2 DEF Source, Sectors, Target
<1>4. \A i, j \in 1..Count : i = j \/ i < j \/ j < i
  BY GroupFacts
<1>5. ASSUME NEW i \in 1..Count, NEW j \in 1..Count, NEW x \in Span(Groups[i]), NEW y \in Span(Groups[j]),
             Target(Groups[i], x) = Target(Groups[j], y)
      PROVE  x = y /\ i = j
  <2>1. i = j
    <3>1. /\ Target(Groups[i], x) \in Groups[i].t .. Groups[i].t + Groups[i].n - 1
          /\ Target(Groups[j], y) \in Groups[j].t .. Groups[j].t + Groups[j].n - 1
      BY <1>3
    <3>2. \A a, b \in 1..Count : /\ Groups[a].t \in Nat /\ Groups[a].n \in Nat
                                 /\ a < b => Groups[a].t + Groups[a].n <= Groups[b].t
      BY GroupFacts
    <3>3. ~(i < j) /\ ~(j < i)
      BY <1>5, <3>1, <3>2
    <3> QED BY <1>4, <3>3
  <2>2. Groups[i].s \in Nat /\ Groups[i].n \in Nat /\ Groups[i].t \in Nat
    BY GroupFacts
  <2> QED BY <1>5, <2>1, <2>2 DEF Span, Target
<1>6. ASSUME NEW i \in 1..Count, NEW j \in 1..Count, NEW x \in Span(Groups[i]), x \in Span(Groups[j])
      PROVE  i = j
  <2>1. \A a, b \in 1..Count : /\ Groups[a].s \in Nat /\ Groups[a].n \in Nat
                               /\ a < b => Groups[a].s + Groups[a].n <= Groups[b].s
    BY GroupFacts DEF EndOf
  <2>2. ~(i < j) /\ ~(j < i)
    BY <1>6, <2>1 DEF Span
  <2> QED BY <1>4, <2>2
<1> QED BY <1>2, <1>3, <1>5, <1>6

\* A region has the groups behind those of the regions in front of it.
LEMMA RegionFacts ==
  /\ \A r \in Tables :
       /\ Before(r) \in Nat /\ Ends[r] \in Nat /\ Before(r) < Ends[r] /\ Ends[r] <= Count
       /\ Len(Regions[r]) = Ends[r] - Before(r) /\ DOMAIN Regions[r] = 1 .. Ends[r] - Before(r)
       /\ \A k \in 1 .. Ends[r] - Before(r) : Regions[r][k] = Groups[Before(r) + k]
       /\ End(r) = EndOf(Ends[r])
  /\ \A q, r \in Tables : q < r => Ends[q] <= Before(r)
  /\ \A i \in 1..Count : \E r \in Tables : Before(r) < i /\ i <= Ends[r]
<1>1. /\ Len(Ends) \in Nat /\ Ends # <<>> /\ Tables = 1..Len(Ends) /\ Len(Ends) \in Tables
      /\ \A r \in Tables : Ends[r] \in Nat /\ Ends[r] > 0
      /\ \A q, r \in Tables : q < r => Ends[q] < Ends[r]
      /\ Ends[Len(Ends)] = Count
  <2>1. Ends \in Seq(Nat \ {0}) /\ Ends # <<>> /\ Ends[Len(Ends)] = Count
    BY RelocateAssumption DEF Count, Last
  <2>2. \A q, r \in Tables : q < r => Ends[q] < Ends[r]
    BY RelocateAssumption
  <2> QED BY <2>1, <2>2 DEF Tables
<1>2. ASSUME NEW r \in Tables PROVE r = 1 \/ (r # 1 /\ r - 1 \in Tables /\ r - 1 < r)
  BY <1>1
<1>3. ASSUME NEW r \in Tables PROVE Before(r) \in Nat /\ Before(r) < Ends[r]
  BY <1>1, <1>2 DEF Before
<1>4. ASSUME NEW r \in Tables PROVE Ends[r] <= Count
  <2>1. r = Len(Ends) \/ r < Len(Ends)
    BY <1>1
  <2> QED BY <1>1, <2>1
<1>5. ASSUME NEW r \in Tables
      PROVE  /\ Len(Regions[r]) = Ends[r] - Before(r) /\ DOMAIN Regions[r] = 1 .. Ends[r] - Before(r)
             /\ \A k \in 1 .. Ends[r] - Before(r) : Regions[r][k] = Groups[Before(r) + k]
  <2>1. Regions[r] = SubSeq(Groups, Before(r) + 1, Ends[r])
    BY DEF Regions
  <2>2. PICK b, e : b = Before(r) /\ e = Ends[r]
    OBVIOUS
  <2>3. b \in Nat /\ e \in Nat /\ b < e /\ e <= Len(Groups) /\ Len(Groups) \in Nat
    BY <1>1, <1>3, <1>4, <2>2, GroupFacts DEF Count
  <2>4. \A i \in b + 1 .. e : Groups[i] \in [s : Nat, n : Nat \ {0}, t : Nat]
    BY <2>3, IsGroup DEF Count
  <2>5. PICK z : z = SubSeq(Groups, b + 1, e)
    OBVIOUS
  <2>6. /\ z \in Seq([s : Nat, n : Nat \ {0}, t : Nat])
        /\ Len(z) = IF b + 1 <= e THEN e - (b + 1) + 1 ELSE 0
        /\ \A i \in 1 .. e - (b + 1) + 1 : z[i] = Groups[b + 1 + i - 1]
    <3>1. b + 1 \in Int /\ e \in Int
      BY <2>3
    <3> QED BY <2>4, <2>5, <3>1, SubSeqProperties
  <2>7. Len(z) = e - b /\ DOMAIN z = 1 .. e - b
    BY <2>3, <2>6
  <2>8. \A i \in 1 .. e - b : z[i] = Groups[b + i]
    BY <2>3, <2>6
  <2> QED BY <2>1, <2>2, <2>5, <2>7, <2>8
<1>6. ASSUME NEW r \in Tables PROVE End(r) = EndOf(Ends[r])
  <2>1. Len(Regions[r]) \in 1 .. Ends[r] - Before(r) /\ Before(r) + Len(Regions[r]) = Ends[r]
    BY <1>1, <1>3, <1>5
  <2>2. Last(Regions[r]) = Groups[Ends[r]]
    BY <1>5, <2>1 DEF Last
  <2> QED BY <2>2 DEF End, EndOf
<1>7. ASSUME NEW q \in Tables, NEW r \in Tables, q < r PROVE Ends[q] <= Before(r)
  <2>1. r # 1 /\ r - 1 \in Tables /\ (q = r - 1 \/ q < r - 1)
    BY <1>1, <1>7
  <2> QED BY <1>1, <2>1 DEF Before
<1>8. ASSUME NEW i \in 1..Count PROVE \E r \in Tables : Before(r) < i /\ i <= Ends[r]
  <2>1. PICK T : T = {r \in Tables : i <= Ends[r]}
    OBVIOUS
  <2>2. T \subseteq Nat /\ Len(Ends) \in T
    BY <1>1, <2>1, GroupFacts
  <2>3. PICK r \in T : \A q \in T : r <= q
    BY <2>2, Smallest
  <2>4. r \in Tables /\ i <= Ends[r]
    BY <2>1
  <2>5. Before(r) < i
    <3>1. CASE r = 1
      BY <3>1 DEF Before
    <3>2. CASE r # 1
      <4>1. r - 1 \in Tables /\ r - 1 \notin T
        BY <1>1, <2>3, <2>4, <3>2
      <4> QED BY <1>1, <2>1, <3>2, <4>1 DEF Before
    <3> QED BY <3>1, <3>2
  <2> QED BY <2>4, <2>5
<1> QED BY <1>1, <1>3, <1>4, <1>5, <1>6, <1>7, <1>8

Walk     == {"first", "group", "next", "final"}
AtWorker == {"range", "pointer"} \cup Walk

\* The control program: relocation is on between Enable and Disable, which does not
\* come after the last copy; then alone the pointer has reached the maximum.
FlagInv ==
  /\ init \in BOOLEAN /\ relocate \in BOOLEAN /\ ctl \in {"idle", "enmax", "enflag", "pointer", "min", "max"}
  /\ pointer \in 0..MaxSec /\ copied \in 0..Count
  /\ relocate => init /\ set = Len(Ends) /\ ctl \in {"idle", "pointer"}
  /\ min = (IF relocate \/ ctl \in {"min", "enmax", "enflag"} THEN MinSec ELSE 0)
  /\ max = (IF relocate \/ ctl \in {"min", "max", "enflag"} THEN MaxSec ELSE 0)
  /\ ctl \in {"enmax", "enflag"} => init /\ set = Len(Ends) /\ ~relocate /\ copied = 0
  /\ pointer = MaxSec <=> copied = Count
  /\ copied = Count => relocate
  /\ ctl = "pointer" => relocate /\ copied = 0
  /\ chunk # <<>> => /\ relocate /\ copied < Count /\ ctl = "idle"
                     /\ chunk \in [1..Groups[copied + 1].n -> Values \X Sectors]

Shape(a) == a = [pc |-> a.pc, req |-> a.req, pos |-> a.pos, node |-> a.node, k |-> a.k,
                 plain |-> a.plain, ok |-> a.ok, buf |-> a.buf, bad |-> a.bad]

\* The request and how far it has come.
RequestInv ==
  /\ Shape(app)
  /\ app.pc \in {"idle", "lower", "queued", "done"} \cup AtWorker
  /\ app.req \in [op : {"read", "write"}, start : Nat, n : Nat \ {0}, val : Values]
  /\ Stop <= Groups[1].t
  /\ app.plain \in BOOLEAN /\ app.ok \in BOOLEAN /\ app.bad \subseteq Of(app.req)
  /\ app.pc \in AtWorker => set = Len(Ends)
  /\ app.pc \in {"lower", "queued", "range"} => app.bad = {}
  /\ app.pc = "pointer" /\ max = 0 /\ pointer = 0 => app.bad = Of(app.req)
  /\ app.pc \in Walk => app.pos \in app.req.start .. Stop - 1
  /\ app.pc = "first" => app.pos = app.req.start
  /\ app.pc \in {"group", "next"} => app.node \in Tables /\ app.k \in 1..Len(Regions[app.node])
  /\ app.pc \in {"group", "next"} => holds[app.node] # 0
  \* A write that went to the plain places is not the last copy's; one that did not
  \* is, or it was taken for one.
  /\ app.pc \in Walk => IF app.plain THEN Writes /\ copied < Count
                        ELSE copied = Count \/ app.bad = Of(app.req)

\* Groups that the worker has left behind.
Index == Before(app.node) + app.k
PassedInv ==
  /\ app.pc = "group" => \A i \in 1..Count : i < Index => EndOf(i) <= app.pos
  /\ app.pc = "next"  => \A i \in 1..Count : i <= Index => EndOf(i) <= app.pos
  /\ app.pc = "final" => \A i \in 1..Count : EndOf(i) <= app.pos

\* Sectors that nothing is claimed of now.
Open == unsure \cup (IF app.pc \in Walk /\ Writes THEN Of(app.req) ELSE {})

\* A sector's own place is up to date until the last copy, and for a request that
\* was passed down still; afterwards if no group has it.
PlainInv   == copied < Count \/ app.pc = "lower" => \A x \in Source \ Open : disk[x] = stored[x]
OutsideInv == \A x \in Source \ Open : Outside(x) => disk[x] = stored[x]

\* So are the targets of what was copied, and what was read of the next group.
CopyInv  == relocate => \A i \in 1..copied : \A x \in Span(Groups[i]) \ Open :
                          disk[Target(Groups[i], x)] = stored[x]
ChunkInv == chunk # <<>> => \A x \in Span(Groups[copied + 1]) \ Open :
                          chunk[x - Groups[copied + 1].s + 1] = stored[x]

\* Places that the worker has written to.
Written(x) == IF Outside(x) THEN disk[x] = Data(x)
              ELSE \A i \in 1..Count : Inside(i, x) => disk[Target(Groups[i], x)] = Data(x)
WriteInv ==
  app.pc \in Walk /\ Writes =>
    /\ app.plain => \A x \in Of(app.req) \ app.bad : disk[x] = Data(x)
    /\ \A x \in app.req.start .. app.pos - 1 \ app.bad : Written(x)

\* What the worker has read.
ReadInv ==
  app.pc \in Walk /\ ~Writes =>
    \A x \in app.req.start .. app.pos - 1 \ (unsure \cup app.bad) : x \in DOMAIN app.buf /\ app.buf[x] = stored[x]

DataInv    == PlainInv /\ OutsideInv /\ CopyInv /\ ChunkInv
ContentInv == DataInv /\ PassedInv /\ WriteInv /\ ReadInv /\ ReadsBack

StoreType == /\ disk \in [Sectors -> Values \X Sectors] /\ stored \in [Sectors -> Values \X Sectors]
             /\ unsure \subseteq Sectors
StoreInv  == StoreType /\ (~spoiled => ContentInv)

-----------------------------------------------------------------------------
(* What a step does to the claims about the sectors.                       *)

\* A step that stores new contents in the sectors of T, or opens them, and that
\* leaves the places of all others alone.
LEMMA DataStep ==
  ASSUME FlagInv, DataInv, UNCHANGED <<relocate, copied, chunk>>, app'.pc # "lower", NEW T,
         Open \ T \subseteq Open',
         \A x \in Source \ T : disk'[x] = disk[x] /\ stored'[x] = stored[x],
         \A i \in 1..Count : \A x \in Span(Groups[i]) \ T : disk'[Target(Groups[i], x)] = disk[Target(Groups[i], x)],
         \A x \in (Source \cap T) \ Open' : copied < Count \/ Outside(x) => disk'[x] = stored'[x],
         relocate => \A i \in 1..copied : \A x \in (Span(Groups[i]) \cap T) \ Open' :
                       disk'[Target(Groups[i], x)] = stored'[x],
         chunk # <<>> => Span(Groups[copied + 1]) \cap T \subseteq Open'
  PROVE  DataInv'
<1>1. PlainInv'
  BY DEF DataInv, PlainInv
<1>2. OutsideInv'
  BY DEF DataInv, OutsideInv, Outside, Inside
<1>3. CopyInv'
  <2> SUFFICES ASSUME relocate, NEW i \in 1..copied, NEW x \in Span(Groups[i]) \ Open'
               PROVE  disk'[Target(Groups[i], x)] = stored'[x]
    BY DEF CopyInv
  <2>1. CASE x \in T
    BY <2>1
  <2>2. CASE x \notin T
    <3>1. i \in 1..Count
      BY GroupFacts DEF FlagInv
    <3>2. x \in Source
      BY <3>1, Places
    <3>3. disk[Target(Groups[i], x)] = stored[x]
      BY <2>2 DEF DataInv, CopyInv
    <3> QED BY <2>2, <3>1, <3>2, <3>3
  <2> QED BY <2>1, <2>2
<1>4. ChunkInv'
  <2> SUFFICES ASSUME chunk # <<>>, NEW x \in Span(Groups[copied + 1]) \ Open'
               PROVE  chunk[x - Groups[copied + 1].s + 1] = stored'[x]
    BY DEF ChunkInv
  <2>1. x \notin T
    OBVIOUS
  <2>2. copied + 1 \in 1..Count
    BY GroupFacts DEF FlagInv
  <2>3. x \in Source
    BY <2>2, Places
  <2> QED BY <2>1, <2>3 DEF DataInv, ChunkInv
<1> QED BY <1>1, <1>2, <1>3, <1>4 DEF DataInv

\* The claims about the sectors when nothing is written.
LEMMA DataSame ==
  ASSUME DataInv, UNCHANGED <<disk, stored, unsure, relocate, copied, chunk>>, Open \subseteq Open',
         app'.pc = "lower" => app.pc = "lower" \/ copied < Count
  PROVE  DataInv'
<1>1. PlainInv'
  BY DEF DataInv, PlainInv
<1>2. OutsideInv' /\ CopyInv' /\ ChunkInv'
  BY DEF DataInv, OutsideInv, CopyInv, ChunkInv, Outside, Inside
<1> QED BY <1>1, <1>2 DEF DataInv

\* The sectors from a to the end of the request are transferred at their own place.
LEMMA PlainTransfer ==
  ASSUME NEW xs, disk \in [Sectors -> Values \X Sectors], disk' = OnDisk(xs, Plain)
  PROVE  /\ ~Writes => disk' = disk
         /\ Writes => \A y \in Sectors : disk'[y] = IF y \in xs THEN Data(y) ELSE disk[y]
BY DEF OnDisk, Plain

LEMMA PlainBuffer ==
  ASSUME NEW xs, NEW b, b = InBuf(xs, Plain)
  PROVE  /\ Writes => b = app.buf
         /\ ~Writes => /\ DOMAIN b = xs \cup DOMAIN app.buf
                       /\ \A x \in xs \cup DOMAIN app.buf : b[x] = IF x \in xs THEN disk[x] ELSE app.buf[x]
BY DEF InBuf, Plain

LEMMA ShapePc ==
  ASSUME NEW a, Shape(a), NEW l, NEW b, b = [a EXCEPT !.pc = l]
  PROVE  /\ Shape(b) /\ b.pc = l /\ b.req = a.req /\ b.pos = a.pos /\ b.node = a.node /\ b.k = a.k
         /\ b.plain = a.plain /\ b.ok = a.ok /\ b.buf = a.buf /\ b.bad = a.bad
BY DEF Shape

LEMMA ShapeBad ==
  ASSUME NEW a, Shape(a), NEW v, NEW b, b = [a EXCEPT !.bad = v]
  PROVE  /\ Shape(b) /\ b.pc = a.pc /\ b.req = a.req /\ b.pos = a.pos /\ b.node = a.node /\ b.k = a.k
         /\ b.plain = a.plain /\ b.ok = a.ok /\ b.buf = a.buf /\ b.bad = v
BY DEF Shape

LEMMA ShapeOk ==
  ASSUME NEW a, Shape(a), NEW v, NEW b, b = [a EXCEPT !.ok = v]
  PROVE  /\ Shape(b) /\ b.pc = a.pc /\ b.req = a.req /\ b.pos = a.pos /\ b.node = a.node /\ b.k = a.k
         /\ b.plain = a.plain /\ b.ok = v /\ b.buf = a.buf /\ b.bad = a.bad
BY DEF Shape

LEMMA ShapeBuf ==
  ASSUME NEW a, Shape(a), NEW v, NEW b, b = [a EXCEPT !.buf = v]
  PROVE  /\ Shape(b) /\ b.pc = a.pc /\ b.req = a.req /\ b.pos = a.pos /\ b.node = a.node /\ b.k = a.k
         /\ b.plain = a.plain /\ b.ok = a.ok /\ b.buf = v /\ b.bad = a.bad
BY DEF Shape

-----------------------------------------------------------------------------
(* Requests that end.                                                      *)

LEMMA RequestPlaces ==
  ASSUME RequestInv
  PROVE  /\ app.req.start \in Nat /\ app.req.n \in Nat /\ app.req.n > 0 /\ app.req.val \in Values
         /\ Stop \in Nat /\ app.req.start < Stop /\ Of(app.req) = app.req.start .. Stop - 1
         /\ Of(app.req) \subseteq Source /\ Of(app.req) \subseteq Sectors /\ Of(app.req) \subseteq Nat
         /\ \A x \in Sectors \cap Of(app.req) : Data(x) \in Values \X Sectors
         /\ \A x \in Of(app.req) : \A i \in 1..Count : \A y \in Span(Groups[i]) : Target(Groups[i], y) # x
<1>1. /\ app.req.start \in Nat /\ app.req.n \in Nat /\ app.req.n > 0 /\ app.req.val \in Values
      /\ Stop = app.req.start + app.req.n /\ Stop <= Groups[1].t
  BY DEF RequestInv, Stop
<1>2. Stop \in Nat /\ app.req.start < Stop
  BY <1>1
<1>3. Of(app.req) = app.req.start .. Stop - 1
  BY <1>1 DEF Of
<1>4. Groups[1].t \in Nat
  BY GroupFacts
<1>5. Of(app.req) \subseteq Source
  BY <1>1, <1>2, <1>3, <1>4 DEF Source
<1>6. Of(app.req) \subseteq Sectors /\ Of(app.req) \subseteq Nat
  BY <1>5, Places
<1>7. \A x \in Sectors \cap Of(app.req) : Data(x) \in Values \X Sectors
  BY <1>1 DEF Data
<1>8. \A x \in Of(app.req) : \A i \in 1..Count : \A y \in Span(Groups[i]) : Target(Groups[i], y) # x
  BY <1>5, Places
<1> QED BY <1>1, <1>2, <1>3, <1>5, <1>6, <1>7, <1>8

LEMMA FinishFacts ==
  ASSUME NEW a, Shape(a), a.req = app.req, NEW missed, Finish(a, missed)
  PROVE  /\ Shape(app') /\ app'.pc = "done" /\ app'.req = app.req /\ app'.plain = a.plain /\ app'.ok = a.ok
         /\ app'.buf = a.buf /\ app'.bad = a.bad
         /\ ~Writes => UNCHANGED <<stored, unsure>>
         /\ Writes => /\ stored' = [x \in Sectors |-> IF x \in Of(app.req) THEN Data(x) ELSE stored[x]]
                      /\ unsure' = unsure \cup a.bad \cup (Of(app.req) \cap missed)
                                     \cup (IF a.ok THEN {} ELSE Of(app.req))
<1>1. app' = [a EXCEPT !.pc = "done"]
  BY DEF Finish
<1>2. /\ Shape(app') /\ app'.pc = "done" /\ app'.req = app.req /\ app'.plain = a.plain /\ app'.ok = a.ok
      /\ app'.buf = a.buf /\ app'.bad = a.bad
  BY <1>1, ShapePc
<1> QED BY <1>2 DEF Finish

LEMMA DoneRequest ==
  ASSUME RequestInv, Shape(app'), app'.pc = "done", app'.req = app.req, app'.plain \in BOOLEAN,
         app'.ok \in BOOLEAN, app'.bad \subseteq Of(app.req)
  PROVE  RequestInv'
BY DEF RequestInv, AtWorker, Walk, Stop, Of

\* A write ends: where it counts its sectors hold the new contents.
LEMMA WriteDone ==
  ASSUME FlagInv, RequestInv, StoreType, DataInv, UNCHANGED <<relocate, copied, chunk>>, Writes,
         app'.pc = "done", app'.req = app.req, unsure \subseteq unsure',
         stored' = [x \in Sectors |-> IF x \in Of(app.req) THEN Data(x) ELSE stored[x]],
         \A x \in Source \ Of(app.req) : disk'[x] = disk[x],
         \A i \in 1..Count : \A x \in Span(Groups[i]) \ Of(app.req) :
           disk'[Target(Groups[i], x)] = disk[Target(Groups[i], x)],
         \A x \in Of(app.req) \ unsure' :
           /\ copied < Count \/ Outside(x) => disk'[x] = Data(x)
           /\ relocate => \A i \in 1..copied : Inside(i, x) => disk'[Target(Groups[i], x)] = Data(x)
           /\ chunk # <<>> => ~Inside(copied + 1, x)
  PROVE  ContentInv'
<1> DEFINE T == Of(app.req)
<1>1. T \subseteq Source /\ T \subseteq Sectors /\ Source \subseteq Sectors
  BY RequestPlaces, Places
<1>2. Open' = unsure' /\ Open \ T \subseteq Open'
  BY DEF Open, Walk
<1>3. \A x \in Source \ T : disk'[x] = disk[x] /\ stored'[x] = stored[x]
  BY <1>1
<1>4. \A x \in T : stored'[x] = Data(x)
  BY <1>1
<1>5. \A x \in (Source \cap T) \ Open' : copied < Count \/ Outside(x) => disk'[x] = stored'[x]
  BY <1>2, <1>4
<1>6. relocate => \A i \in 1..copied : \A x \in (Span(Groups[i]) \cap T) \ Open' :
                    disk'[Target(Groups[i], x)] = stored'[x]
  BY <1>2, <1>4 DEF Inside
<1>7. chunk # <<>> => Span(Groups[copied + 1]) \cap T \subseteq Open'
  BY <1>2 DEF Inside
<1>8. app'.pc # "lower"
  OBVIOUS
<1>9. \A i \in 1..Count : \A x \in Span(Groups[i]) \ T : disk'[Target(Groups[i], x)] = disk[Target(Groups[i], x)]
  OBVIOUS
<1> HIDE DEF T
<1>10. DataInv'
  BY <1>2, <1>3, <1>5, <1>6, <1>7, <1>8, <1>9, DataStep
<1>11. PassedInv' /\ WriteInv' /\ ReadInv' /\ ReadsBack'
  BY DEF PassedInv, WriteInv, ReadInv, ReadsBack, Walk, Writes
<1> QED BY <1>10, <1>11 DEF ContentInv

\* A read ends: what it returns is what was stored.
LEMMA ReadDone ==
  ASSUME DataInv, UNCHANGED <<relocate, copied, chunk, disk, stored, unsure>>, ~Writes,
         app'.pc = "done", app'.req = app.req,
         app'.ok => \A x \in Of(app.req) \ (unsure \cup app'.bad) :
                      x \in DOMAIN app'.buf /\ app'.buf[x] = stored[x]
  PROVE  ContentInv'
<1>1. Open \subseteq Open'
  BY DEF Open
<1>2. DataInv'
  BY <1>1, DataSame
<1>3. PassedInv' /\ WriteInv' /\ ReadInv'
  BY DEF PassedInv, WriteInv, ReadInv, Walk
<1>4. ReadsBack'
  BY DEF ReadsBack, Of
<1> QED BY <1>2, <1>3, <1>4 DEF ContentInv

\* The driver below, or the worker, transfers what is left of the request at its
\* own place.
Ended(ok, buf, bad, missed) ==
  /\ Shape(app') /\ app'.pc = "done" /\ app'.req = app.req /\ app'.plain = app.plain /\ app'.ok = ok
  /\ app'.buf = buf /\ app'.bad = bad
  /\ ~Writes => UNCHANGED <<stored, unsure>>
  /\ Writes => /\ stored' = [x \in Sectors |-> IF x \in Of(app.req) THEN Data(x) ELSE stored[x]]
               /\ unsure' = unsure \cup bad \cup (Of(app.req) \cap missed) \cup (IF ok THEN {} ELSE Of(app.req))

LEMMA RestFacts ==
  ASSUME Shape(app), NEW pos, NEW missed, Rest(pos, missed)
  PROVE  \/ /\ disk' = OnDisk(pos .. Stop - 1, Plain)
            /\ Ended(app.ok, InBuf(pos .. Stop - 1, Plain), app.bad, missed)
         \/ UNCHANGED disk /\ Ended(FALSE, app.buf, app.bad, {})
<1>1. CASE disk' = OnDisk(pos .. Stop - 1, Plain) /\ Finish([app EXCEPT !.buf = InBuf(pos .. Stop - 1, Plain)], missed)
  <2>1. PICK v : v = InBuf(pos .. Stop - 1, Plain)
    OBVIOUS
  <2>2. PICK a : a = [app EXCEPT !.buf = v]
    OBVIOUS
  <2>3. /\ Shape(a) /\ a.req = app.req /\ a.plain = app.plain /\ a.ok = app.ok /\ a.bad = app.bad /\ a.buf = v
    BY <2>2, ShapeBuf
  <2>4. Finish(a, missed)
    BY <1>1, <2>1, <2>2
  <2>5. Ended(app.ok, v, app.bad, missed)
    BY <2>3, <2>4, FinishFacts DEF Ended
  <2> QED BY <1>1, <2>1, <2>5
<1>2. CASE Finish([app EXCEPT !.ok = FALSE], {}) /\ UNCHANGED disk
  <2>1. PICK a : a = [app EXCEPT !.ok = FALSE]
    OBVIOUS
  <2>2. /\ Shape(a) /\ a.req = app.req /\ a.plain = app.plain /\ a.ok = FALSE /\ a.bad = app.bad /\ a.buf = app.buf
    BY <2>1, ShapeOk
  <2>3. Finish(a, {})
    BY <1>2, <2>1
  <2>4. Ended(FALSE, app.buf, app.bad, {})
    BY <2>2, <2>3, FinishFacts DEF Ended
  <2> QED BY <1>2, <2>4
<1> QED BY <1>1, <1>2 DEF Rest

LEMMA EndedState ==
  ASSUME RequestInv, StoreType, NEW ok \in BOOLEAN, NEW buf, NEW bad, bad \subseteq Of(app.req), NEW missed,
         Ended(ok, buf, bad, missed), disk' \in [Sectors -> Values \X Sectors]
  PROVE  RequestInv' /\ StoreType'
<1>1. RequestInv'
  <2>1. app.plain \in BOOLEAN
    BY DEF RequestInv
  <2> QED BY <2>1, DoneRequest DEF Ended
<1>2. CASE ~Writes
  BY <1>1, <1>2 DEF StoreType, Ended
<1>3. CASE Writes
  <2>1. stored' = [x \in Sectors |-> IF x \in Of(app.req) THEN Data(x) ELSE stored[x]]
    BY <1>3 DEF Ended
  <2>2. unsure' \subseteq unsure \cup Of(app.req)
    BY <1>3 DEF Ended
  <2>3. stored' \in [Sectors -> Values \X Sectors]
    BY <2>1, RequestPlaces DEF StoreType
  <2> QED BY <1>1, <2>2, <2>3, RequestPlaces DEF StoreType
<1> QED BY <1>2, <1>3, <1>1

LEMMA PlainType ==
  ASSUME RequestInv, StoreType, NEW xs, xs \subseteq Of(app.req), disk' = OnDisk(xs, Plain)
  PROVE  disk' \in [Sectors -> Values \X Sectors]
<1>1. CASE ~Writes
  BY <1>1 DEF OnDisk, StoreType
<1>2. CASE Writes
  <2>1. \A y \in Sectors : (\E x \in xs : x = y) => (CHOOSE x \in xs : x = y) = y
    OBVIOUS
  <2>2. disk' = [y \in Sectors |-> IF \E x \in xs : x = y THEN Data(y) ELSE disk[y]]
    BY <1>2, <2>1 DEF OnDisk, Plain
  <2>3. \A y \in Sectors : (\E x \in xs : x = y) => Data(y) \in Values \X Sectors
    BY RequestPlaces
  <2>4. \A y \in Sectors : disk[y] \in Values \X Sectors
    BY DEF StoreType
  <2> QED BY <2>2, <2>3, <2>4
<1> QED BY <1>1, <1>2

LEMMA RestState ==
  ASSUME RequestInv, StoreType, NEW pos, pos \in Nat, app.req.start <= pos, NEW missed, Rest(pos, missed)
  PROVE  RequestInv' /\ StoreType'
<1>1. Shape(app) /\ app.ok \in BOOLEAN /\ app.bad \subseteq Of(app.req)
  BY DEF RequestInv
<1>2. pos .. Stop - 1 \subseteq Of(app.req)
  BY RequestPlaces
<1>3. CASE disk' = OnDisk(pos .. Stop - 1, Plain) /\ Ended(app.ok, InBuf(pos .. Stop - 1, Plain), app.bad, missed)
  BY <1>1, <1>2, <1>3, PlainType, EndedState
<1>4. CASE UNCHANGED disk /\ Ended(FALSE, app.buf, app.bad, {})
  BY <1>1, <1>4, EndedState DEF StoreType
<1> QED BY <1>1, <1>3, <1>4, RestFacts

LEMMA RestContent ==
  ASSUME FlagInv, RequestInv, StoreType, DataInv, UNCHANGED <<relocate, copied, chunk>>,
         NEW pos, pos \in Nat, app.req.start <= pos, NEW missed, Rest(pos, missed),
         Writes => /\ \A x \in app.req.start .. pos - 1 \ app.bad :
                        /\ copied < Count \/ Outside(x) => disk[x] = Data(x)
                        /\ \A i \in 1..copied : Inside(i, x) => disk[Target(Groups[i], x)] = Data(x)
                   /\ \A x \in pos .. Stop - 1 \ missed : relocate => \A i \in 1..copied : ~Inside(i, x)
                   /\ \A x \in Of(app.req) \ missed : chunk # <<>> => ~Inside(copied + 1, x),
         ~Writes => /\ \A x \in app.req.start .. pos - 1 \ (unsure \cup app.bad) :
                         x \in DOMAIN app.buf /\ app.buf[x] = stored[x]
                    /\ \A x \in pos .. Stop - 1 \ (unsure \cup app.bad) : disk[x] = stored[x]
  PROVE  ContentInv'
<1> DEFINE xs == pos .. Stop - 1
<1>s. Shape(app)
  BY DEF RequestInv
<1>1. Of(app.req) = app.req.start .. Stop - 1 /\ app.req.start \in Nat /\ Stop \in Nat
  BY RequestPlaces DEF RequestInv
<1>2. \A x \in Of(app.req) : x \in xs \/ x \in app.req.start .. pos - 1
  BY <1>1
<1>3. CASE disk' = OnDisk(xs, Plain) /\ Ended(app.ok, InBuf(xs, Plain), app.bad, missed)
  <2>2. app'.pc = "done" /\ app'.req = app.req /\ app'.buf = InBuf(xs, Plain) /\ app'.bad = app.bad
    BY <1>3 DEF Ended
  <2>3. CASE Writes
    <3>1. \A y \in Sectors : disk'[y] = IF y \in xs THEN Data(y) ELSE disk[y]
      BY <1>3, <2>3, PlainTransfer DEF StoreType
    <3>2. /\ stored' = [x \in Sectors |-> IF x \in Of(app.req) THEN Data(x) ELSE stored[x]]
          /\ unsure \subseteq unsure' /\ app.bad \subseteq unsure' /\ Of(app.req) \cap missed \subseteq unsure'
      BY <1>3, <2>3 DEF Ended
    <3>3. xs \subseteq Of(app.req) /\ Of(app.req) \subseteq Source /\ Source \subseteq Sectors
      BY <1>1, RequestPlaces, Places
    <3> HIDE DEF xs
    <3>4. \A x \in Source \ Of(app.req) : disk'[x] = disk[x]
      BY <3>1, <3>3
    <3>5. \A i \in 1..Count : \A x \in Span(Groups[i]) : disk'[Target(Groups[i], x)] = disk[Target(Groups[i], x)]
      BY <3>1, <3>3, Places
    <3>6. \A i \in 1..copied : i \in 1..Count
      BY GroupFacts DEF FlagInv
    <3>7. ASSUME NEW x \in Of(app.req) \ unsure'
          PROVE  /\ copied < Count \/ Outside(x) => disk'[x] = Data(x)
                 /\ relocate => \A i \in 1..copied : Inside(i, x) => disk'[Target(Groups[i], x)] = Data(x)
                 /\ chunk # <<>> => ~Inside(copied + 1, x)
      <4>1. x \notin missed /\ x \notin app.bad
        BY <3>2
      <4>2. chunk # <<>> => ~Inside(copied + 1, x)
        BY <2>3, <4>1
      <4>3. CASE x \in xs
        BY <2>3, <3>1, <3>3, <4>1, <4>2, <4>3 DEF xs
      <4>4. CASE x \notin xs
        <5>1. x \in app.req.start .. pos - 1 \ app.bad
          BY <1>2, <4>1, <4>4
        <5>2. /\ copied < Count \/ Outside(x) => disk[x] = Data(x)
              /\ \A i \in 1..copied : Inside(i, x) => disk[Target(Groups[i], x)] = Data(x)
          BY <2>3, <5>1
        <5>3. disk'[x] = disk[x]
          BY <3>1, <3>3, <4>4
        <5> QED BY <3>5, <3>6, <4>2, <5>2, <5>3 DEF Inside
      <4> QED BY <4>3, <4>4
    <3> QED BY <2>2, <2>3, <3>2, <3>4, <3>5, <3>7, WriteDone
  <2>4. CASE ~Writes
    <3>1. /\ DOMAIN app'.buf = xs \cup DOMAIN app.buf
          /\ \A x \in xs \cup DOMAIN app.buf : app'.buf[x] = IF x \in xs THEN disk[x] ELSE app.buf[x]
      <4> HIDE DEF xs
      <4>1. app'.buf = InBuf(xs, Plain)
        BY <2>2
      <4> QED BY <2>4, <4>1, PlainBuffer
    <3>2. UNCHANGED <<disk, stored, unsure>>
      BY <1>3, <2>4 DEF Ended, OnDisk
    <3>3. \A x \in Of(app.req) \ (unsure \cup app'.bad) : x \in DOMAIN app'.buf /\ app'.buf[x] = stored[x]
      BY <1>2, <2>2, <2>4, <3>1
    <3> QED BY <2>2, <2>4, <3>2, <3>3, ReadDone
  <2> QED BY <2>3, <2>4
<1>4. CASE UNCHANGED disk /\ Ended(FALSE, app.buf, app.bad, {})
  <2>1. app'.pc = "done" /\ app'.req = app.req /\ app'.ok = FALSE
    BY <1>4 DEF Ended
  <2>2. CASE Writes
    <3>1. /\ stored' = [x \in Sectors |-> IF x \in Of(app.req) THEN Data(x) ELSE stored[x]]
          /\ unsure \subseteq unsure' /\ Of(app.req) \subseteq unsure'
      BY <1>4, <2>2 DEF Ended
    <3> QED BY <1>4, <2>1, <2>2, <3>1, WriteDone
  <2>3. CASE ~Writes
    <3>1. UNCHANGED <<stored, unsure>>
      BY <1>4, <2>3 DEF Ended
    <3> QED BY <1>4, <2>1, <2>3, <3>1, ReadDone
  <2> QED BY <2>2, <2>3
<1> QED BY <1>s, <1>3, <1>4, RestFacts

-----------------------------------------------------------------------------
(* Steps of the control program.                                           *)

Whole == Inv /\ FlagInv /\ RequestInv /\ StoreInv

\* The request goes on where it was.
LEMMA RequestSame ==
  ASSUME RequestInv, UNCHANGED app,
         app.pc \in AtWorker => set' = set /\ holds' = holds,
         app.pc = "pointer" /\ max' = 0 /\ pointer' = 0 => app.bad = Of(app.req),
         app.pc \in Walk => copied' = copied \/ (copied # Count /\ copied' < Count)
  PROVE  RequestInv'
<1>1. Stop' = Stop /\ (Writes' <=> Writes)
  BY DEF Stop, Writes
<1>2. app.pc \in {"group", "next"} => app.pc \in AtWorker
  BY DEF AtWorker, Walk
<1>3. /\ app.pc \in AtWorker => set' = Len(Ends)
      /\ app.pc \in {"group", "next"} => holds'[app.node] # 0
  BY <1>2 DEF RequestInv
<1>4. app.pc \in Walk => IF app.plain THEN Writes /\ copied' < Count
                         ELSE copied' = Count \/ app.bad = Of(app.req)
  <2>1. app.pc \in Walk => IF app.plain THEN Writes /\ copied < Count
                           ELSE copied = Count \/ app.bad = Of(app.req)
    BY DEF RequestInv
  <2> QED BY <2>1
<1> QED BY <1>1, <1>3, <1>4 DEF RequestInv

\* So do the claims, when relocation is switched and nothing is transferred.
LEMMA StoreSame ==
  ASSUME FlagInv, StoreInv, UNCHANGED <<app, disk, stored, unsure, spoiled>>,
         relocate' => copied' = 0 \/ (relocate /\ copied' = copied),
         copied' < Count => copied < Count,
         chunk' # <<>> => chunk' = chunk /\ copied' = copied
  PROVE  StoreInv'
<1>1. Open' = Open
  BY DEF Open, Writes
<1>2. ASSUME ContentInv PROVE ContentInv'
  <2>1. PlainInv' /\ OutsideInv'
    BY <1>1, <1>2 DEF ContentInv, DataInv, PlainInv, OutsideInv, Outside, Inside
  <2>2. CopyInv'
    <3> SUFFICES ASSUME relocate', NEW i \in 1..copied', NEW x \in Span(Groups[i]) \ Open'
                 PROVE  disk'[Target(Groups[i], x)] = stored'[x]
      BY DEF CopyInv
    <3>1. relocate /\ i \in 1..copied
      OBVIOUS
    <3> QED BY <1>1, <1>2, <3>1 DEF ContentInv, DataInv, CopyInv
  <2>3. ChunkInv'
    BY <1>1, <1>2 DEF ContentInv, DataInv, ChunkInv
  <2>4. PassedInv' /\ ReadsBack'
    BY <1>2 DEF ContentInv, PassedInv, ReadsBack, Index, Writes, Of
  <2>5. WriteInv'
    BY <1>2 DEF ContentInv, WriteInv, Written, Outside, Inside, Data, Writes
  <2>6. ReadInv'
    BY <1>2 DEF ContentInv, ReadInv, Writes
  <2> QED BY <2>1, <2>2, <2>3, <2>4, <2>5, <2>6 DEF ContentInv, DataInv
<1> QED BY <1>2 DEF StoreInv, StoreType

LEMMA Switches ==
  ASSUME Whole, RMInit \/ RMExit \/ RMSetGroup \/ Enable \/ EnableMax \/ EnableFlag
           \/ EnablePointer \/ Disable \/ DisableMin
  PROVE  FlagInv' /\ RequestInv' /\ StoreInv'
<1>0. FlagInv /\ RequestInv /\ StoreInv /\ set \in 0..Len(Ends) /\ Len(Ends) \in Nat
  BY Numbers DEF Whole, Inv, ListInv
<1>1. UNCHANGED <<app, disk, stored, unsure, spoiled>>
  BY DEF RMInit, RMExit, RMSetGroup, Enable, EnableMax, EnableFlag, EnablePointer, Disable,
         DisableMin, claims
<1>2. app.pc \in AtWorker => set = Len(Ends)
  BY <1>0 DEF RequestInv
<1>3. Count \in Nat /\ Count > 0 /\ MaxSec \in Nat /\ MaxSec > 0 /\ MinSec \in Nat
  BY GroupFacts
<1>4. CASE RMInit \/ RMExit
  <2>1. UNCHANGED <<relocate, min, max, pointer, set, holds, ctl, copied, chunk>>
    BY <1>4 DEF RMInit, RMExit, cache
  <2>2. FlagInv'
    <3>1. init' \in BOOLEAN /\ (relocate => init') /\ ctl = "idle"
      BY <1>0, <1>4 DEF RMInit, RMExit, FlagInv
    <3> QED BY <1>0, <2>1, <3>1 DEF FlagInv
  <2>3. RequestInv'
    BY <1>0, <1>1, <2>1, RequestSame DEF RequestInv
  <2>4. StoreInv'
    BY <1>0, <1>1, <2>1, StoreSame
  <2> QED BY <2>2, <2>3, <2>4
<1>5. CASE RMSetGroup
  <2>1. UNCHANGED <<init, relocate, min, max, pointer, ctl, copied, chunk>> /\ ~relocate /\ set < Len(Ends)
    BY <1>5 DEF RMSetGroup, flags, program
  <2>2. FlagInv'
    BY <1>0, <2>1 DEF FlagInv
  <2>3. RequestInv'
    BY <1>0, <1>1, <1>2, <2>1, RequestSame DEF RequestInv
  <2>4. StoreInv'
    BY <1>0, <1>1, <2>1, StoreSame
  <2> QED BY <2>2, <2>3, <2>4
<1>6. CASE Enable
  <2>1. /\ UNCHANGED <<init, pointer, set, holds, chunk, max, relocate>> /\ init /\ ~relocate
        /\ set = Len(Ends) /\ ctl = "idle" /\ min' = MinSec /\ ctl' = "enmax" /\ copied' = 0
    BY <1>6 DEF Enable, cache
  <2>2. copied # Count /\ copied < Count /\ chunk = <<>> /\ max = 0
    BY <1>0, <1>3, <2>1 DEF FlagInv
  <2>3. FlagInv'
    BY <1>0, <1>3, <2>1, <2>2 DEF FlagInv
  <2>4. RequestInv'
    <3>1. app.pc = "pointer" /\ max' = 0 /\ pointer' = 0 => app.bad = Of(app.req)
      BY <1>0, <2>1 DEF RequestInv
    <3> QED BY <1>0, <1>1, <1>3, <2>1, <2>2, <3>1, RequestSame
  <2>5. StoreInv'
    BY <1>0, <1>1, <2>1, <2>2, StoreSame
  <2> QED BY <2>3, <2>4, <2>5
<1>10. CASE EnableMax
  <2>1. /\ UNCHANGED <<init, pointer, set, holds, chunk, min, relocate, copied>>
        /\ ctl = "enmax" /\ max' = MaxSec /\ ctl' = "enflag"
    BY <1>10 DEF EnableMax, cache
  <2>2. FlagInv'
    BY <1>0, <1>3, <2>1 DEF FlagInv
  <2>3. RequestInv'
    BY <1>0, <1>1, <1>3, <2>1, RequestSame
  <2>4. StoreInv'
    BY <1>0, <1>1, <2>1, StoreSame
  <2> QED BY <2>2, <2>3, <2>4
<1>11. CASE EnableFlag
  <2>1. /\ UNCHANGED <<init, pointer, set, holds, chunk, min, max, copied>>
        /\ ctl = "enflag" /\ relocate' = TRUE /\ ctl' = "pointer"
    BY <1>11 DEF EnableFlag, cache
  <2>2. /\ init /\ set = Len(Ends) /\ ~relocate /\ copied = 0 /\ chunk = <<>>
        /\ max = MaxSec /\ min = MinSec /\ copied # Count
    BY <1>0, <1>3, <2>1 DEF FlagInv
  <2>3. FlagInv'
    BY <1>0, <1>3, <2>1, <2>2 DEF FlagInv
  <2>4. RequestInv'
    BY <1>0, <1>1, <1>3, <2>1, <2>2, RequestSame
  <2>5. StoreInv'
    BY <1>0, <1>1, <2>1, <2>2, StoreSame
  <2> QED BY <2>3, <2>4, <2>5
<1>7. CASE EnablePointer
  <2>1. /\ UNCHANGED <<init, relocate, min, max, set, holds, copied, chunk>>
        /\ ctl = "pointer" /\ pointer' = 0 /\ ctl' = "idle"
    BY <1>7 DEF EnablePointer, cache
  <2>2. relocate /\ copied = 0 /\ max = MaxSec /\ chunk = <<>>
    BY <1>0, <2>1 DEF FlagInv
  <2>3. FlagInv'
    BY <1>0, <1>3, <2>1, <2>2 DEF FlagInv
  <2>4. RequestInv'
    BY <1>0, <1>1, <1>3, <2>1, <2>2, RequestSame
  <2>5. StoreInv'
    BY <1>0, <1>1, <2>1, <2>2, StoreSame
  <2> QED BY <2>3, <2>4, <2>5
<1>8. CASE Disable
  <2>1. /\ UNCHANGED <<init, min, max, pointer, set, holds, copied>> /\ ctl = "idle" /\ relocate
        /\ copied < Count /\ relocate' = FALSE /\ ctl' = "min" /\ chunk' = <<>>
    BY <1>8 DEF Disable, cache, Count
  <2>2. FlagInv'
    <3>1. min = MinSec /\ max = MaxSec /\ pointer # MaxSec /\ copied # Count /\ pointer \in 0..MaxSec /\ copied \in 0..Count
      BY <1>0, <1>3, <2>1 DEF FlagInv
    <3> QED BY <1>0, <2>1, <3>1 DEF FlagInv
  <2>3. RequestInv'
    BY <1>0, <1>1, <2>1, RequestSame DEF RequestInv
  <2>4. StoreInv'
    BY <1>0, <1>1, <2>1, StoreSame
  <2> QED BY <2>2, <2>3, <2>4
<1>9. CASE DisableMin
  <2>1. /\ UNCHANGED <<init, relocate, max, pointer, set, holds, copied, chunk>> /\ ctl = "min"
        /\ min' = 0 /\ ctl' = "max"
    BY <1>9 DEF DisableMin, cache
  <2>2. FlagInv'
    BY <1>0, <1>3, <2>1 DEF FlagInv
  <2>3. RequestInv'
    BY <1>0, <1>1, <2>1, RequestSame DEF RequestInv
  <2>4. StoreInv'
    BY <1>0, <1>1, <2>1, StoreSame
  <2> QED BY <2>2, <2>3, <2>4
<1> QED BY <1>4, <1>5, <1>6, <1>7, <1>8, <1>9, <1>10, <1>11

\* The maximum becomes 0 under a request that may be taken for one after the last copy.
LEMMA MaxSwitch ==
  ASSUME Whole, DisableMax
  PROVE  FlagInv' /\ RequestInv' /\ StoreInv'
<1>0. FlagInv /\ RequestInv /\ StoreInv
  BY DEF Whole
<1>1. /\ UNCHANGED <<init, relocate, min, pointer, set, holds, copied, chunk, disk, stored, unsure, spoiled>>
      /\ ctl = "max" /\ max' = 0 /\ ctl' = "idle"
      /\ app' = IF app.pc = "pointer" /\ pointer = 0 THEN [app EXCEPT !.bad = Of(app.req)] ELSE app
  BY DEF DisableMax, cache, claims
<1>2. FlagInv'
  BY <1>0, <1>1, GroupFacts DEF FlagInv
<1>3. CASE app.pc = "pointer" /\ pointer = 0
  <2>1. /\ Shape(app') /\ app'.pc = "pointer" /\ app'.req = app.req /\ app'.plain = app.plain /\ app'.ok = app.ok
        /\ app'.bad = Of(app.req)
    <3>1. Shape(app) /\ app' = [app EXCEPT !.bad = Of(app.req)]
      BY <1>0, <1>1, <1>3 DEF RequestInv
    <3> QED BY <1>3, <3>1, ShapeBad
  <2>2. RequestInv'
    BY <1>0, <1>1, <1>3, <2>1 DEF RequestInv, AtWorker, Walk, Stop, Of
  <2>3. ASSUME ContentInv PROVE ContentInv'
    <3>1. Open \subseteq Open'
      BY <1>1, <1>3 DEF Open, Walk
    <3>2. DataInv'
      BY <1>1, <2>1, <2>3, <3>1, DataSame DEF ContentInv
    <3>3. PassedInv' /\ WriteInv' /\ ReadInv' /\ ReadsBack'
      BY <2>1 DEF PassedInv, WriteInv, ReadInv, ReadsBack, Walk
    <3> QED BY <3>2, <3>3 DEF ContentInv
  <2> QED BY <1>0, <1>1, <1>2, <2>2, <2>3 DEF StoreInv, StoreType
<1>4. CASE ~(app.pc = "pointer" /\ pointer = 0)
  <2>1. UNCHANGED app
    BY <1>1, <1>4
  <2>2. RequestInv'
    BY <1>0, <1>1, <1>4, <2>1, RequestSame
  <2>3. StoreInv'
    BY <1>0, <1>1, <2>1, StoreSame
  <2> QED BY <1>2, <2>2, <2>3
<1> QED BY <1>3, <1>4

\* The next group is read.
LEMMA Reads ==
  ASSUME Whole, YgRead
  PROVE  FlagInv' /\ RequestInv' /\ StoreInv'
<1>0. FlagInv /\ RequestInv /\ StoreInv /\ StoreType
  BY DEF Whole, StoreInv
<1>1. /\ UNCHANGED <<init, relocate, min, max, pointer, set, holds, ctl, copied, app, disk, stored, unsure, spoiled>>
      /\ ctl = "idle" /\ relocate /\ copied < Count /\ ~Working
      /\ chunk' = [i \in 1..Groups[copied + 1].n |-> disk[Groups[copied + 1].s + i - 1]]
  BY DEF YgRead, Copying, Next1, flags, cache, claims, Count
<1>2. copied + 1 \in 1..Count /\ copied \in Nat
  BY <1>0, <1>1, GroupFacts DEF FlagInv
<1>3. PICK s, n : s = Groups[copied + 1].s /\ n = Groups[copied + 1].n
  OBVIOUS
<1>4. /\ s \in Nat /\ n \in Nat /\ Span(Groups[copied + 1]) = s .. s + n - 1
      /\ \A i \in 1..n : s + i - 1 \in Span(Groups[copied + 1]) /\ s + i - 1 \in Sectors
  <2>1. s \in Nat /\ n \in Nat /\ Span(Groups[copied + 1]) = s .. s + n - 1
    BY <1>2, <1>3, GroupFacts DEF Span
  <2>2. \A i \in 1..n : s + i - 1 \in s .. s + n - 1
    BY <2>1
  <2>3. \A x \in Span(Groups[copied + 1]) : x \in Sectors
    BY <1>2, Places
  <2> QED BY <2>1, <2>2, <2>3
<1>5. chunk' \in [1..n -> Values \X Sectors]
  <2>1. \A i \in 1..n : disk[s + i - 1] \in Values \X Sectors
    BY <1>0, <1>4 DEF StoreType
  <2>2. chunk' = [i \in 1..n |-> disk[s + i - 1]]
    BY <1>1, <1>3
  <2> QED BY <2>1, <2>2
<1>6. FlagInv'
  BY <1>0, <1>1, <1>3, <1>5 DEF FlagInv
<1>7. RequestInv'
  BY <1>0, <1>1, RequestSame DEF RequestInv
<1>8. ASSUME ContentInv PROVE ContentInv'
  <2>1. Open' = Open
    BY <1>1 DEF Open, Writes
  <2>2. PlainInv' /\ OutsideInv' /\ CopyInv'
    BY <1>1, <1>8, <2>1 DEF ContentInv, DataInv, PlainInv, OutsideInv, CopyInv, Outside, Inside
  <2>3. ChunkInv'
    <3> SUFFICES ASSUME NEW x \in Span(Groups[copied + 1]) \ Open
                 PROVE  chunk'[x - Groups[copied + 1].s + 1] = stored[x]
      BY <1>1, <2>1 DEF ChunkInv
    <3>1. disk[x] = stored[x]
      BY <1>1, <1>2, <1>8, Places DEF ContentInv, DataInv, PlainInv
    <3>2. x - s + 1 \in 1..n /\ s + (x - s + 1) - 1 = x
      BY <1>4
    <3>3. chunk' = [i \in 1..n |-> disk[s + i - 1]]
      BY <1>1, <1>3
    <3> QED BY <1>3, <3>1, <3>2, <3>3
  <2>4. PassedInv' /\ ReadsBack'
    BY <1>1, <1>8 DEF ContentInv, PassedInv, ReadsBack, Index, Writes, Of
  <2>5. WriteInv'
    BY <1>1, <1>8 DEF ContentInv, WriteInv, Written, Outside, Inside, Data, Writes
  <2>6. ReadInv'
    BY <1>1, <1>8 DEF ContentInv, ReadInv, Writes
  <2> QED BY <2>2, <2>3, <2>4, <2>5, <2>6 DEF ContentInv, DataInv
<1> QED BY <1>0, <1>1, <1>6, <1>7, <1>8 DEF StoreInv, StoreType

\* It is written to its targets, or that fails; the pointer moves.
LEMMA Copies ==
  ASSUME Whole, YgWrite
  PROVE  FlagInv' /\ RequestInv' /\ StoreInv'
<1> DEFINE g == Groups[copied + 1]
           to == g.t .. g.t + g.n - 1
<1>0. FlagInv /\ RequestInv /\ StoreInv /\ StoreType
  BY DEF Whole, StoreInv
<1>1. /\ UNCHANGED <<init, relocate, min, max, set, holds, ctl, app, stored, spoiled>>
      /\ ctl = "idle" /\ relocate /\ copied < Count /\ ~Working /\ chunk # <<>>
      /\ pointer' = g.t + g.n /\ copied' = copied + 1 /\ chunk' = <<>>
      /\ \/ /\ disk' = [x \in Sectors |-> IF x \in to THEN chunk[x - g.t + 1] ELSE disk[x]]
            /\ UNCHANGED unsure
         \/ unsure' = unsure \cup Span(g) /\ UNCHANGED disk
  BY DEF YgWrite, Copying, Next1, cache, Count
<1>2. copied + 1 \in 1..Count /\ copied \in Nat /\ chunk \in [1..g.n -> Values \X Sectors] /\ max = MaxSec
  BY <1>0, <1>1, GroupFacts DEF FlagInv
<1>3. /\ g.s \in Nat /\ g.n \in Nat /\ g.n > 0 /\ g.t \in Nat /\ g.t + g.n <= MaxSec
      /\ (g.t + g.n = MaxSec <=> copied + 1 = Count)
  BY <1>2, GroupFacts
<1>4. /\ app.pc \notin Walk /\ app.pc # "pointer" /\ Open = unsure /\ Open' = unsure'
  BY <1>1 DEF Working, Walk, Open
<1>5. \A x \in Span(g) : x \in Source /\ x \in Sectors /\ Target(g, x) \in Sectors /\ Target(g, x) \in to
  BY <1>2, Places
<1>6. FlagInv'
  <2>1. pointer' \in 0..MaxSec /\ (pointer' = MaxSec <=> copied' = Count) /\ copied' \in 0..Count
    BY <1>1, <1>2, <1>3, GroupFacts
  <2> HIDE DEF g, to
  <2> QED BY <1>0, <1>1, <2>1 DEF FlagInv
<1>7. RequestInv'
  BY <1>0, <1>1, <1>4, RequestSame
<1>8. StoreType'
  <2> HIDE DEF g
  <2>1. CASE /\ disk' = [x \in Sectors |-> IF x \in to THEN chunk[x - g.t + 1] ELSE disk[x]]
             /\ UNCHANGED unsure
    <3>1. \A x \in Sectors : x \in to => chunk[x - g.t + 1] \in Values \X Sectors
      <4> SUFFICES ASSUME NEW x \in to PROVE x - g.t + 1 \in 1..g.n
        BY <1>2
      <4> QED BY <1>3
    <3>2. \A x \in Sectors : disk[x] \in Values \X Sectors
      BY <1>0 DEF StoreType
    <3>3. disk' \in [Sectors -> Values \X Sectors]
      BY <2>1, <3>1, <3>2
    <3> QED BY <1>0, <1>1, <2>1, <3>3 DEF StoreType
  <2>2. CASE unsure' = unsure \cup Span(g) /\ UNCHANGED disk
    BY <1>0, <1>1, <1>5, <2>2 DEF StoreType
  <2> QED BY <1>1, <2>1, <2>2
<1>9. ASSUME ContentInv PROVE ContentInv'
  <2>0. PlainInv /\ OutsideInv /\ CopyInv /\ ChunkInv
    BY <1>9 DEF ContentInv, DataInv
  <2>1. /\ \A x \in Source : disk'[x] = disk[x]
        /\ \A i \in 1..copied : \A x \in Span(Groups[i]) : disk'[Target(Groups[i], x)] = disk[Target(Groups[i], x)]
        /\ \A x \in Span(g) \ unsure' : disk'[Target(g, x)] = chunk[x - g.s + 1]
        /\ unsure \subseteq unsure'
    <3>1. CASE /\ disk' = [x \in Sectors |-> IF x \in to THEN chunk[x - g.t + 1] ELSE disk[x]]
               /\ UNCHANGED unsure
      <4>1. ASSUME NEW x \in Source PROVE x \in Sectors /\ x \notin to
        <5>1. x \in Sectors /\ x < Groups[1].t /\ x \in Nat /\ Groups[1].t \in Nat
          BY Places, GroupFacts DEF Source
        <5>2. Groups[1].t <= g.t
          BY <1>2, GroupFacts
        <5> QED BY <1>3, <5>1, <5>2
      <4>2. ASSUME NEW i \in 1..copied, NEW x \in Span(Groups[i])
            PROVE  Target(Groups[i], x) \in Sectors /\ Target(Groups[i], x) \notin to
        <5>1. i \in 1..Count /\ i < copied + 1
          BY <1>2, GroupFacts
        <5>2. /\ Target(Groups[i], x) \in Sectors
              /\ Target(Groups[i], x) \in Groups[i].t .. Groups[i].t + Groups[i].n - 1
          BY <5>1, Places
        <5>3. Groups[i].t + Groups[i].n <= g.t /\ Groups[i].t \in Nat /\ Groups[i].n \in Nat
          BY <1>2, <5>1, GroupFacts
        <5> HIDE DEF g
        <5> QED BY <1>3, <5>2, <5>3
      <4>3. ASSUME NEW x \in Span(g) PROVE Target(g, x) - g.t + 1 = x - g.s + 1
        BY <1>3 DEF Span, Target
      <4> HIDE DEF to, g
      <4> QED BY <1>5, <3>1, <4>1, <4>2, <4>3
    <3>2. CASE unsure' = unsure \cup Span(g) /\ UNCHANGED disk
      BY <3>2
    <3> QED BY <1>1, <3>1, <3>2
  <2>2. PlainInv' /\ OutsideInv'
    <3>1. copied < Count
      BY <1>1
    <3> QED BY <1>1, <1>4, <2>0, <2>1, <3>1 DEF PlainInv, OutsideInv, Outside, Inside
  <2>3. CopyInv'
    <3> SUFFICES ASSUME NEW i \in 1..copied + 1, NEW x \in Span(Groups[i]) \ unsure'
                 PROVE  disk'[Target(Groups[i], x)] = stored[x]
      BY <1>1, <1>4 DEF CopyInv
    <3>1. CASE i = copied + 1
      BY <1>1, <1>4, <2>0, <2>1, <3>1 DEF ChunkInv
    <3>2. CASE i # copied + 1
      <4>1. i \in 1..copied
        BY <1>2, <3>2
      <4> QED BY <1>1, <1>4, <2>0, <2>1, <4>1 DEF CopyInv
    <3> QED BY <3>1, <3>2
  <2>4. ChunkInv'
    BY <1>1 DEF ChunkInv
  <2>5. PassedInv' /\ WriteInv' /\ ReadInv'
    BY <1>1, <1>4 DEF PassedInv, WriteInv, ReadInv, Walk
  <2>6. ReadsBack'
    BY <1>1, <1>9, <2>1 DEF ContentInv, ReadsBack, Writes
  <2> QED BY <2>2, <2>3, <2>4, <2>5, <2>6 DEF ContentInv, DataInv
<1> QED BY <1>1, <1>6, <1>7, <1>8, <1>9, <1>0 DEF StoreInv

-----------------------------------------------------------------------------
(* Steps of the request up to the walk through the tables.                 *)

LEMMA FlagSame ==
  ASSUME FlagInv, UNCHANGED <<init, relocate, min, max, pointer, set, ctl, copied, chunk>>
  PROVE  FlagInv'
BY DEF FlagInv

LEMMA Arrives ==
  ASSUME Whole, NEW q \in Requests, Submit(q)
  PROVE  FlagInv' /\ RequestInv' /\ StoreInv'
<1>0. FlagInv /\ RequestInv /\ StoreInv
  BY DEF Whole
<1>1. /\ UNCHANGED <<init, relocate, min, max, pointer, set, holds, ctl, copied, chunk, disk, stored, unsure, spoiled>>
      /\ app.pc = "idle"
  BY DEF Submit, flags, cache, program, claims
<1>2. PICK l : l = IF relocate /\ init THEN "queued" ELSE "lower"
  OBVIOUS
<1>3. app' = [Idle EXCEPT !.pc = l, !.req = q]
  BY <1>2 DEF Submit
<1>4. /\ Shape(app') /\ app'.pc = l /\ app'.req = q /\ app'.plain = FALSE /\ app'.ok = TRUE /\ app'.bad = {}
  BY <1>3 DEF Idle, Shape
<1>5. /\ q \in [op : {"read", "write"}, start : Nat, n : Nat \ {0}, val : Values]
      /\ q.start + q.n <= Groups[1].t
  BY RelocateAssumption
<1>6. RequestInv'
  BY <1>2, <1>4, <1>5 DEF RequestInv, AtWorker, Walk, Stop, Of
<1>7. FlagInv'
  BY <1>0, <1>1, FlagSame
<1>8. ASSUME ContentInv PROVE ContentInv'
  <2>1. Open \subseteq Open'
    BY <1>1 DEF Open, Walk
  <2>2. l = "lower" => copied < Count
    BY <1>0, <1>2, GroupFacts DEF FlagInv
  <2>3. DataInv'
    BY <1>1, <1>4, <1>8, <2>1, <2>2, DataSame DEF ContentInv
  <2>4. PassedInv' /\ WriteInv' /\ ReadInv' /\ ReadsBack'
    BY <1>2, <1>4 DEF PassedInv, WriteInv, ReadInv, ReadsBack, Walk
  <2> QED BY <2>3, <2>4 DEF ContentInv
<1> QED BY <1>0, <1>1, <1>6, <1>7, <1>8 DEF StoreInv, StoreType

LEMMA Answers ==
  ASSUME Whole, Answer
  PROVE  FlagInv' /\ RequestInv' /\ StoreInv'
<1>0. FlagInv /\ RequestInv /\ StoreInv
  BY DEF Whole
<1>1. /\ UNCHANGED <<init, relocate, min, max, pointer, set, holds, ctl, copied, chunk, disk, stored, unsure, spoiled>>
      /\ app.pc = "done" /\ app' = Idle
  BY DEF Answer, flags, cache, program, claims
<1>2. /\ Shape(app') /\ app'.pc = "idle" /\ app'.plain = FALSE /\ app'.ok = TRUE /\ app'.bad = {}
      /\ app'.req = [op |-> "read", start |-> 0, n |-> 1, val |-> Old]
  BY <1>1 DEF Idle, Shape
<1>3. RequestInv'
  <2>1. 1 <= Groups[1].t /\ Old \in Values
    <3>1. 1 \in 1..Count
      BY GroupFacts
    <3>2. /\ Groups[1].s \in Nat /\ Groups[1].n \in Nat /\ Groups[1].n > 0 /\ Groups[1].t \in Nat
          /\ EndOf(1) <= Groups[1].t
      BY <3>1, GroupFacts
    <3>3. Old \in Values
      BY RelocateAssumption
    <3> QED BY <3>2, <3>3 DEF EndOf
  <2>2. app'.req \in [op : {"read", "write"}, start : Nat, n : Nat \ {0}, val : Values]
    BY <1>2, <2>1
  <2>3. Stop' = 1
    BY <1>2 DEF Stop
  <2> QED BY <1>2, <2>1, <2>2, <2>3 DEF RequestInv, AtWorker, Walk
<1>4. FlagInv'
  BY <1>0, <1>1, FlagSame
<1>5. ASSUME ContentInv PROVE ContentInv'
  <2>1. Open \subseteq Open'
    BY <1>1 DEF Open, Walk
  <2>2. DataInv'
    BY <1>1, <1>2, <1>5, <2>1, DataSame DEF ContentInv
  <2>3. PassedInv' /\ WriteInv' /\ ReadInv' /\ ReadsBack'
    BY <1>2 DEF PassedInv, WriteInv, ReadInv, ReadsBack, Walk
  <2> QED BY <2>2, <2>3 DEF ContentInv
<1> QED BY <1>0, <1>1, <1>3, <1>4, <1>5 DEF StoreInv, StoreType

LEMMA Checks ==
  ASSUME Whole, Check
  PROVE  FlagInv' /\ RequestInv' /\ StoreInv'
<1>0. FlagInv /\ RequestInv /\ StoreInv
  BY DEF Whole
<1>1. /\ UNCHANGED <<init, relocate, min, max, pointer, set, holds, ctl, copied, chunk, disk, stored, unsure, spoiled>>
      /\ app.pc = "queued"
  BY DEF Check, flags, cache, program, claims
<1>2. PICK l : l = IF relocate THEN "range" ELSE "done"
  OBVIOUS
<1>3. /\ Shape(app') /\ app'.pc = l /\ app'.req = app.req /\ app'.plain = app.plain /\ app'.ok = relocate
      /\ app'.bad = app.bad
  <2>1. Shape(app) /\ app' = [app EXCEPT !.pc = l, !.ok = relocate]
    BY <1>0, <1>2 DEF Check, RequestInv
  <2> QED BY <2>1 DEF Shape
<1>4. RequestInv'
  <2>1. relocate \in BOOLEAN /\ (relocate => set = Len(Ends))
    BY <1>0 DEF FlagInv
  <2> QED BY <1>0, <1>1, <1>2, <1>3, <2>1 DEF RequestInv, AtWorker, Walk, Stop, Of
<1>5. FlagInv'
  BY <1>0, <1>1, FlagSame
<1>6. ASSUME ContentInv PROVE ContentInv'
  <2>1. Open \subseteq Open'
    BY <1>1 DEF Open, Walk
  <2>2. DataInv'
    BY <1>1, <1>2, <1>3, <1>6, <2>1, DataSame DEF ContentInv
  <2>3. PassedInv' /\ WriteInv' /\ ReadInv' /\ ReadsBack'
    BY <1>2, <1>3 DEF PassedInv, WriteInv, ReadInv, ReadsBack, Walk
  <2> QED BY <2>2, <2>3 DEF ContentInv
<1> QED BY <1>0, <1>1, <1>4, <1>5, <1>6 DEF StoreInv, StoreType

\* A request that was passed down, maybe before relocation was enabled.
LEMMA PassesDown ==
  ASSUME Whole, Lower
  PROVE  FlagInv' /\ RequestInv' /\ StoreInv'
<1>0. FlagInv /\ RequestInv /\ StoreInv /\ StoreType
  BY DEF Whole, StoreInv
<1>1. /\ UNCHANGED <<init, relocate, min, max, pointer, set, holds, ctl, copied, chunk, spoiled>>
      /\ app.pc = "lower" /\ Rest(app.req.start, Begun)
  BY DEF Lower, flags, cache, program
<1>2. app.req.start \in Nat /\ Of(app.req) = app.req.start .. Stop - 1 /\ Of(app.req) \subseteq Source
  BY <1>0, RequestPlaces
<1>3. FlagInv'
  BY <1>0, <1>1, FlagSame
<1>4. RequestInv' /\ StoreType'
  BY <1>0, <1>1, <1>2, RestState
<1>5. ASSUME ContentInv PROVE ContentInv'
  <2>1. DataInv /\ Open = unsure
    BY <1>1, <1>5 DEF ContentInv, Open, Walk
  <2>2. app.req.start .. app.req.start - 1 = {}
    BY <1>2
  <2>3. \A x \in Of(app.req) \ Begun : relocate => \A i \in 1..copied : ~Inside(i, x)
    BY DEF Begun, Inside
  <2>4. \A x \in Of(app.req) \ Begun : chunk # <<>> => ~Inside(copied + 1, x)
    BY <1>0 DEF Begun, Inside, InChunk, Next1, FlagInv
  <2>5. \A x \in Of(app.req) \ unsure : disk[x] = stored[x]
    BY <1>1, <1>2, <2>1 DEF DataInv, PlainInv
  <2> QED BY <1>0, <1>1, <1>2, <2>1, <2>2, <2>3, <2>4, <2>5, RestContent
<1> QED BY <1>0, <1>1, <1>3, <1>4, <1>5 DEF StoreInv

\* A request outside the range has no part in a group.
LEMMA LeavesRange ==
  ASSUME Whole, RangeTest
  PROVE  FlagInv' /\ RequestInv' /\ StoreInv'
<1>0. FlagInv /\ RequestInv /\ StoreInv /\ StoreType
  BY DEF Whole, StoreInv
<1>1. /\ UNCHANGED <<init, relocate, min, max, pointer, set, holds, ctl, copied, chunk, spoiled>>
      /\ app.pc = "range"
  BY DEF RangeTest, flags, cache, program
<1>2. /\ app.req.start \in Nat /\ Of(app.req) = app.req.start .. Stop - 1 /\ Of(app.req) \subseteq Source
      /\ Stop \in Nat /\ app.req.start < Stop
  BY <1>0, RequestPlaces
<1>3. FlagInv'
  BY <1>0, <1>1, FlagSame
<1>4. CASE (Stop <= min \/ app.req.start >= max) /\ Rest(app.req.start, {})
  <2>1. RequestInv' /\ StoreType'
    BY <1>0, <1>2, <1>4, RestState
  <2>2. ASSUME ContentInv PROVE ContentInv'
    <3>1. DataInv /\ Open = unsure
      BY <1>1, <2>2 DEF ContentInv, Open, Walk
    <3>2. app.req.start .. app.req.start - 1 = {}
      BY <1>2
    <3>3. ASSUME relocate, NEW x \in Of(app.req) PROVE Outside(x)
      <4>1. min = MinSec /\ max = MaxSec
        BY <1>0, <3>3 DEF FlagInv
      <4>2. app.req.start < MaxSec
        <5>1. Stop <= Groups[1].t /\ Groups[1].t \in Nat /\ Groups[1].t <= MaxSec /\ MaxSec \in Nat
          <6>1. 1 \in 1..Count
            BY GroupFacts
          <6>2. /\ Groups[1].t \in Nat /\ Groups[1].n \in Nat /\ Groups[1].t + Groups[1].n <= MaxSec
                /\ MaxSec \in Nat
            BY <6>1, GroupFacts
          <6> QED BY <1>0, <6>2 DEF RequestInv
        <5> QED BY <1>2, <5>1
      <4>3. Stop <= MinSec /\ MinSec \in Nat /\ MaxSec \in Nat
        BY <1>2, <1>4, <4>1, <4>2, GroupFacts
      <4>4. x \in Nat /\ x < MinSec
        BY <1>2, <4>3
      <4> QED BY <4>3, <4>4, Places DEF Outside, Inside
    <3>4. \A x \in Of(app.req) : relocate => \A i \in 1..copied : ~Inside(i, x)
      <4>1. \A i \in 1..copied : i \in 1..Count
        BY <1>0, GroupFacts DEF FlagInv
      <4> QED BY <3>3, <4>1 DEF Outside
    <3>5. \A x \in Of(app.req) : chunk # <<>> => ~Inside(copied + 1, x)
      <4>1. chunk # <<>> => relocate /\ copied + 1 \in 1..Count
        BY <1>0, GroupFacts DEF FlagInv
      <4> QED BY <3>3, <4>1 DEF Outside
    <3>6. ASSUME NEW x \in Of(app.req) \ unsure PROVE disk[x] = stored[x]
      <4>1. CASE copied < Count
        BY <1>2, <3>1, <4>1 DEF DataInv, PlainInv
      <4>2. CASE ~(copied < Count)
        <5>1. relocate
          BY <1>0, <4>2, GroupFacts DEF FlagInv
        <5> QED BY <1>2, <3>1, <3>3, <5>1 DEF DataInv, OutsideInv
      <4> QED BY <4>1, <4>2
    <3> QED BY <1>0, <1>1, <1>2, <1>4, <3>1, <3>2, <3>4, <3>5, <3>6, RestContent
  <2> QED BY <1>0, <1>1, <1>3, <2>1, <2>2 DEF StoreInv
<1>5. CASE ~(Stop <= min \/ app.req.start >= max) /\ Goto(app, "pointer") /\ UNCHANGED disk
  <2>1. UNCHANGED <<disk, stored, unsure>>
    BY <1>5 DEF Goto
  <2>2. /\ Shape(app') /\ app'.pc = "pointer" /\ app'.req = app.req /\ app'.plain = app.plain /\ app'.ok = app.ok
        /\ app'.bad = app.bad
    <3>1. Shape(app) /\ app' = [app EXCEPT !.pc = "pointer"]
      BY <1>0, <1>5 DEF Goto, RequestInv
    <3> QED BY <3>1, ShapePc
  <2>3. RequestInv'
    <3>1. max # 0
      BY <1>2, <1>5
    <3> QED BY <1>0, <1>1, <2>2, <3>1 DEF RequestInv, AtWorker, Walk, Stop, Of
  <2>4. ASSUME ContentInv PROVE ContentInv'
    <3>1. Open \subseteq Open'
      BY <1>1, <2>1 DEF Open, Walk
    <3>2. DataInv'
      BY <1>1, <2>1, <2>2, <2>4, <3>1, DataSame DEF ContentInv
    <3>3. PassedInv' /\ WriteInv' /\ ReadInv' /\ ReadsBack'
      BY <2>2 DEF PassedInv, WriteInv, ReadInv, ReadsBack, Walk
    <3> QED BY <3>2, <3>3 DEF ContentInv
  <2> QED BY <1>0, <1>1, <1>3, <2>1, <2>3, <2>4 DEF StoreInv, StoreType
<1> QED BY <1>4, <1>5 DEF RangeTest

\* A write that stays with the worker: nothing is claimed of its sectors now.
LEMMA WriteGoes ==
  ASSUME FlagInv, RequestInv, DataInv, UNCHANGED <<relocate, copied, chunk, stored, unsure>>, Writes,
         app'.req = app.req, app'.pc \in Walk,
         \A x \in Source \ Of(app.req) : disk'[x] = disk[x],
         \A i \in 1..Count : \A x \in Span(Groups[i]) \ Of(app.req) :
           disk'[Target(Groups[i], x)] = disk[Target(Groups[i], x)]
  PROVE  DataInv'
<1> DEFINE T == Of(app.req)
<1>1. Open' = unsure \cup T /\ Open \ T \subseteq Open' /\ T \subseteq Open'
  BY DEF Open, Writes, Of
<1>2. app'.pc # "lower"
  BY DEF Walk
<1>3. /\ \A x \in Source \ T : disk'[x] = disk[x] /\ stored'[x] = stored[x]
      /\ \A i \in 1..Count : \A x \in Span(Groups[i]) \ T : disk'[Target(Groups[i], x)] = disk[Target(Groups[i], x)]
  OBVIOUS
<1> HIDE DEF T
<1> QED BY <1>1, <1>2, <1>3, DataStep

\* As long as the pointer is not the maximum there is something to copy.
LEMMA PointerFacts ==
  ASSUME FlagInv
  PROVE  /\ pointer # max => copied < Count
         /\ pointer = max => copied = Count \/ (max = 0 /\ pointer = 0)
BY GroupFacts DEF FlagInv

LEMMA EntersWalk ==
  ASSUME Whole, PointerTest
  PROVE  FlagInv' /\ RequestInv' /\ StoreInv'
<1>0. FlagInv /\ RequestInv /\ StoreInv /\ StoreType /\ Shape(app)
  BY DEF Whole, StoreInv, RequestInv
<1>1. /\ UNCHANGED <<init, relocate, min, max, pointer, set, holds, ctl, copied, chunk, spoiled>>
      /\ app.pc = "pointer"
  BY DEF PointerTest, flags, cache, program
<1>2. /\ app.req.start \in Nat /\ Of(app.req) = app.req.start .. Stop - 1 /\ Of(app.req) \subseteq Source
      /\ Stop \in Nat /\ app.req.start < Stop
  BY <1>0, RequestPlaces
<1>3. FlagInv'
  BY <1>0, <1>1, FlagSame
<1>a. PICK v : v = (pointer # max)
  OBVIOUS
<1>b. PICK a : a = [app EXCEPT !.pos = app.req.start, !.plain = v]
  OBVIOUS
<1>4. /\ Shape(a) /\ a.req = app.req /\ a.pos = app.req.start /\ a.plain = (pointer # max) /\ a.ok = app.ok
      /\ a.buf = app.buf /\ a.bad = app.bad
  <2>1. Shape(app)
    BY <1>0
  <2>2. /\ Shape(a) /\ a.req = app.req /\ a.pos = app.req.start /\ a.plain = v /\ a.ok = app.ok
        /\ a.buf = app.buf /\ a.bad = app.bad
    BY <1>b, <2>1 DEF Shape
  <2> QED BY <1>a, <2>2
<1>5. \/ pointer = max /\ Goto(a, "first") /\ UNCHANGED disk
      \/ pointer # max /\ ~Writes /\ Rest(app.req.start, {})
      \/ pointer # max /\ Writes /\ disk' = OnDisk(Of(app.req), Plain) /\ Goto(a, "first")
      \/ pointer # max /\ Writes /\ UNCHANGED disk /\ Goto([a EXCEPT !.bad = Of(app.req)], "first")
  BY <1>a, <1>b DEF PointerTest
<1>6. ASSUME NEW bad, bad \in {app.bad, Of(app.req)}, UNCHANGED <<stored, unsure>>,
             Shape(app'), app'.pc = "first", app'.req = app.req, app'.pos = app.req.start,
             app'.plain = (pointer # max), app'.ok = app.ok, app'.bad = bad,
             pointer = max => bad = app.bad, pointer # max => Writes
      PROVE  RequestInv'
  <2>1. app.bad \subseteq Of(app.req) /\ app.ok \in BOOLEAN /\ set = Len(Ends)
    BY <1>0, <1>1 DEF RequestInv, AtWorker
  <2>2. app'.pos \in app.req.start .. Stop - 1 /\ bad \subseteq Of(app.req)
    BY <1>2, <1>6, <2>1
  <2>3. IF app'.plain THEN Writes /\ copied < Count ELSE copied = Count \/ bad = Of(app.req)
    <3>1. CASE pointer # max
      BY <1>0, <1>6, <3>1, PointerFacts
    <3>2. CASE pointer = max
      <4>1. copied = Count \/ app.bad = Of(app.req)
        BY <1>0, <1>1, <3>2, PointerFacts DEF RequestInv
      <4> QED BY <1>6, <3>2, <4>1
    <3> QED BY <3>1, <3>2
  <2>4. app'.plain \in BOOLEAN /\ app'.ok \in BOOLEAN
    BY <1>6, <2>1
  <2>5. Stop' = Stop /\ Of(app'.req) = Of(app.req) /\ (Writes' <=> Writes)
    BY <1>6 DEF Stop, Writes
  <2>6. /\ app'.req \in [op : {"read", "write"}, start : Nat, n : Nat \ {0}, val : Values]
        /\ Stop' <= Groups[1].t
    BY <1>0, <1>6, <2>5 DEF RequestInv
  <2>7. app'.pc = "first" /\ app'.pos = app'.req.start /\ app'.pos \in app'.req.start .. Stop' - 1
        /\ app'.bad \subseteq Of(app'.req) /\ set' = Len(Ends)
    BY <1>1, <1>6, <2>1, <2>2, <2>5
  <2>8. IF app'.plain THEN Writes' /\ copied' < Count ELSE copied' = Count \/ app'.bad = Of(app'.req)
    BY <1>1, <1>6, <2>3, <2>5
  <2> QED BY <1>6, <2>4, <2>6, <2>7, <2>8 DEF RequestInv, AtWorker, Walk
<1>7. CASE pointer = max /\ Goto(a, "first") /\ UNCHANGED disk
  <2>1. app' = [a EXCEPT !.pc = "first"] /\ UNCHANGED <<stored, unsure>>
    BY <1>7 DEF Goto
  <2>2. /\ Shape(app') /\ app'.pc = "first" /\ app'.req = app.req /\ app'.pos = app.req.start
        /\ app'.plain = (pointer # max) /\ app'.ok = app.ok /\ app'.buf = app.buf /\ app'.bad = app.bad
    BY <1>4, <2>1, ShapePc
  <2>3. RequestInv'
    BY <1>6, <1>7, <2>1, <2>2
  <2>4. ASSUME ContentInv PROVE ContentInv'
    <3>1. Open \subseteq Open'
      BY <1>1, <2>1 DEF Open, Walk
    <3>2. DataInv'
      BY <1>1, <1>7, <2>1, <2>2, <2>4, <3>1, DataSame DEF ContentInv
    <3>3. app'.req.start .. app'.pos - 1 = {}
      BY <1>2, <2>2
    <3>4. PassedInv' /\ WriteInv' /\ ReadInv' /\ ReadsBack'
      BY <1>7, <2>2, <3>3 DEF PassedInv, WriteInv, ReadInv, ReadsBack, Walk
    <3> QED BY <3>2, <3>4 DEF ContentInv
  <2> QED BY <1>0, <1>1, <1>3, <1>7, <2>1, <2>3, <2>4 DEF StoreInv, StoreType
<1>8. CASE pointer # max /\ ~Writes /\ Rest(app.req.start, {})
  <2>1. RequestInv' /\ StoreType'
    BY <1>0, <1>2, <1>8, RestState
  <2>2. ASSUME ContentInv PROVE ContentInv'
    <3>1. DataInv /\ Open = unsure
      BY <1>1, <2>2 DEF ContentInv, Open, Walk
    <3>2. app.req.start .. app.req.start - 1 = {}
      BY <1>2
    <3>3. \A x \in Of(app.req) \ unsure : disk[x] = stored[x]
      BY <1>0, <1>2, <1>8, <3>1, PointerFacts DEF DataInv, PlainInv
    <3> QED BY <1>0, <1>1, <1>2, <1>8, <3>1, <3>2, <3>3, RestContent
  <2> QED BY <1>0, <1>1, <1>3, <2>1, <2>2 DEF StoreInv
<1>9. ASSUME NEW bad, bad \in {app.bad, Of(app.req)}, pointer # max, Writes, UNCHANGED <<stored, unsure>>,
             Shape(app'), app'.pc = "first", app'.req = app.req, app'.pos = app.req.start,
             app'.plain = (pointer # max), app'.ok = app.ok, app'.bad = bad,
             disk' \in [Sectors -> Values \X Sectors],
             \A y \in Sectors \ Of(app.req) : disk'[y] = disk[y],
             \A y \in Of(app.req) \ bad : disk'[y] = Data(y)
      PROVE  FlagInv' /\ RequestInv' /\ StoreInv'
  <2>1. RequestInv'
    BY <1>6, <1>9
  <2>2. ASSUME ContentInv PROVE ContentInv'
    <3>1. \A x \in Source \ Of(app.req) : disk'[x] = disk[x]
      BY <1>9, Places
    <3>2. \A i \in 1..Count : \A x \in Span(Groups[i]) : disk'[Target(Groups[i], x)] = disk[Target(Groups[i], x)]
      BY <1>2, <1>9, Places
    <3>3. DataInv'
      <4>1. app'.pc \in Walk
        BY <1>9 DEF Walk
      <4>2. DataInv
        BY <2>2 DEF ContentInv
      <4> QED BY <1>0, <1>1, <1>9, <3>1, <3>2, <4>1, <4>2, WriteGoes
    <3>4. app'.req.start .. app'.pos - 1 = {}
      BY <1>2, <1>9
    <3>5. WriteInv'
      <4>1. \A y \in Of(app'.req) \ app'.bad : disk'[y] = Data(y)'
        BY <1>9 DEF Data
      <4> QED BY <3>4, <4>1 DEF WriteInv
    <3>6. PassedInv' /\ ReadInv' /\ ReadsBack'
      BY <1>9 DEF PassedInv, ReadInv, ReadsBack, Walk, Writes
    <3> QED BY <3>3, <3>5, <3>6 DEF ContentInv
  <2> QED BY <1>0, <1>1, <1>3, <1>9, <2>1, <2>2 DEF StoreInv, StoreType
<1>10. CASE pointer # max /\ Writes /\ disk' = OnDisk(Of(app.req), Plain) /\ Goto(a, "first")
  <2>1. app' = [a EXCEPT !.pc = "first"] /\ UNCHANGED <<stored, unsure>>
    BY <1>10 DEF Goto
  <2>2. /\ Shape(app') /\ app'.pc = "first" /\ app'.req = app.req /\ app'.pos = app.req.start
        /\ app'.plain = (pointer # max) /\ app'.ok = app.ok /\ app'.bad = app.bad
    BY <1>4, <2>1, ShapePc
  <2>3. disk' \in [Sectors -> Values \X Sectors]
    BY <1>0, <1>10, PlainType
  <2>4. \A y \in Sectors : disk'[y] = IF y \in Of(app.req) THEN Data(y) ELSE disk[y]
    BY <1>0, <1>10, PlainTransfer DEF StoreType
  <2>5. Of(app.req) \subseteq Sectors
    BY <1>0, RequestPlaces
  <2> QED BY <1>9, <1>10, <2>1, <2>2, <2>3, <2>4, <2>5
<1>11. CASE pointer # max /\ Writes /\ UNCHANGED disk /\ Goto([a EXCEPT !.bad = Of(app.req)], "first")
  <2>1. PICK b : b = [a EXCEPT !.bad = Of(app.req)]
    OBVIOUS
  <2>2. /\ Shape(b) /\ b.req = app.req /\ b.pos = app.req.start /\ b.plain = (pointer # max) /\ b.ok = app.ok
        /\ b.bad = Of(app.req)
    BY <1>4, <2>1, ShapeBad
  <2>3. app' = [b EXCEPT !.pc = "first"] /\ UNCHANGED <<stored, unsure>>
    BY <1>11, <2>1 DEF Goto
  <2>4. /\ Shape(app') /\ app'.pc = "first" /\ app'.req = app.req /\ app'.pos = app.req.start
        /\ app'.plain = (pointer # max) /\ app'.ok = app.ok /\ app'.bad = Of(app.req)
    BY <2>2, <2>3, ShapePc
  <2> QED BY <1>0, <1>9, <1>11, <2>3, <2>4 DEF StoreType
<1> QED BY <1>5, <1>7, <1>8, <1>10, <1>11

-----------------------------------------------------------------------------
(* The walk through the tables.                                            *)

LEMMA FirstFacts ==
  ASSUME set \in Nat, NEW lo, NEW pos, RegionsFrom(lo, pos) # {}
  PROVE  /\ FirstOf(RegionsFrom(lo, pos)) \in RegionsFrom(lo, pos)
         /\ \A q \in RegionsFrom(lo, pos) : FirstOf(RegionsFrom(lo, pos)) <= q
<1> DEFINE rs == RegionsFrom(lo, pos)
<1>1. rs \subseteq Nat
  BY DEF RegionsFrom
<1>2. \E q \in rs : \A p \in rs : q <= p
  BY <1>1, Smallest
<1> HIDE DEF rs
<1> QED BY <1>2 DEF FirstOf, rs

LEMMA EndsOrder ==
  ASSUME NEW i \in 1..Count, NEW j \in 1..Count, i <= j
  PROVE  EndOf(i) <= EndOf(j) /\ EndOf(i) \in Nat /\ EndOf(j) \in Nat
<1>1. /\ Groups[i].s \in Nat /\ Groups[i].n \in Nat /\ Groups[j].s \in Nat /\ Groups[j].n \in Nat
      /\ i < j => EndOf(i) <= Groups[j].s
  BY GroupFacts
<1>2. i = j \/ i < j
  BY GroupFacts
<1> QED BY <1>1, <1>2 DEF EndOf

\* The groups of a region that ends in front of pos do so too.
LEMMA RegionPassed ==
  ASSUME NEW r \in Tables, NEW i \in 1..Count, NEW pos \in Nat, i <= Ends[r], ~(pos < End(r))
  PROVE  EndOf(i) <= pos
<1>1. Ends[r] \in 1..Count /\ End(r) = EndOf(Ends[r])
  BY RegionFacts, GroupFacts
<1>2. EndOf(i) <= EndOf(Ends[r]) /\ EndOf(i) \in Nat /\ EndOf(Ends[r]) \in Nat
  BY <1>1, EndsOrder
<1> QED BY <1>1, <1>2

\* All groups are behind the worker when no region is left.
LEMMA AllPassed ==
  ASSUME set = Len(Ends), NEW lo \in Nat, NEW pos \in Nat, RegionsFrom(lo, pos) = {},
         lo # 0 => lo \in Tables /\ \A i \in 1..Count : i <= Ends[lo] => EndOf(i) <= pos
  PROVE  \A i \in 1..Count : EndOf(i) <= pos
<1> SUFFICES ASSUME NEW i \in 1..Count PROVE EndOf(i) <= pos
  OBVIOUS
<1>1. PICK r \in Tables : Before(r) < i /\ i <= Ends[r]
  BY RegionFacts
<1>2. CASE lo < r
  <2>1. ~(pos < End(r))
    BY <1>2 DEF RegionsFrom, Tables
  <2> QED BY <1>1, <2>1, RegionPassed
<1>3. CASE ~(lo < r)
  <2>1. r \in Nat /\ r > 0
    BY DEF Tables
  <2>2. lo # 0 /\ lo \in Tables /\ (r = lo \/ r < lo)
    BY <1>3, <2>1
  <2>3. i <= Ends[lo]
    <3>1. Ends[r] \in Nat /\ Ends[lo] \in Nat /\ Before(lo) \in Nat /\ Before(lo) < Ends[lo]
          /\ (r < lo => Ends[r] <= Before(lo))
      BY <2>2, RegionFacts
    <3>2. i \in Nat
      OBVIOUS
    <3> QED BY <1>1, <2>2, <3>1, <3>2
  <2> QED BY <2>2, <2>3
<1> QED BY <1>2, <1>3

\* The groups in front of the region that is found are behind the worker.
LEMMA FoundRegion ==
  ASSUME set = Len(Ends), NEW lo \in Nat, NEW pos \in Nat, RegionsFrom(lo, pos) # {},
         lo # 0 => lo \in Tables /\ \A i \in 1..Count : i <= Ends[lo] => EndOf(i) <= pos
  PROVE  /\ FirstOf(RegionsFrom(lo, pos)) \in Tables
         /\ 1 \in 1..Len(Regions[FirstOf(RegionsFrom(lo, pos))])
         /\ \A i \in 1..Count : i < Before(FirstOf(RegionsFrom(lo, pos))) + 1 => EndOf(i) <= pos
<1>0. set \in Nat
  BY Numbers
<1>1. PICK r : r = FirstOf(RegionsFrom(lo, pos))
  OBVIOUS
<1>2. r \in RegionsFrom(lo, pos) /\ \A q \in RegionsFrom(lo, pos) : r <= q
  BY <1>0, <1>1, FirstFacts
<1>3. r \in Tables /\ r \in Nat /\ lo < r
  BY <1>2 DEF RegionsFrom, Tables
<1>4. 1 \in 1..Len(Regions[r]) /\ Before(r) \in Nat
  BY <1>3, RegionFacts
<1>5. ASSUME NEW i \in 1..Count, i < Before(r) + 1 PROVE EndOf(i) <= pos
  <2>1. PICK q \in Tables : Before(q) < i /\ i <= Ends[q]
    BY RegionFacts
  <2>2. /\ q \in Nat /\ i \in Nat /\ Before(q) \in Nat /\ Ends[q] \in Nat /\ Ends[r] \in Nat /\ Before(r) < Ends[r]
        /\ (r < q => Ends[r] <= Before(q))
    <3>1. q \in Nat /\ i \in Nat
      BY DEF Tables
    <3>2. Before(q) \in Nat /\ Ends[q] \in Nat /\ Ends[r] \in Nat /\ Before(r) < Ends[r]
      BY <1>3, RegionFacts
    <3>3. r < q => Ends[r] <= Before(q)
      BY <1>3, RegionFacts
    <3> QED BY <3>1, <3>2, <3>3
  <2>3. q < r
    <3>1. ~(r < q) /\ q # r
      BY <1>4, <1>5, <2>1, <2>2
    <3> QED BY <1>3, <2>2, <3>1
  <2>4. CASE lo < q
    <3>1. q \notin RegionsFrom(lo, pos)
      BY <1>2, <1>3, <2>2, <2>3
    <3>2. ~(pos < End(q))
      BY <2>4, <3>1 DEF RegionsFrom, Tables
    <3> QED BY <2>1, <3>2, RegionPassed
  <2>5. CASE ~(lo < q)
    <3>1. q > 0
      BY DEF Tables
    <3>2. lo # 0 /\ lo \in Tables /\ (q = lo \/ q < lo)
      BY <2>2, <2>5, <3>1
    <3>3. Ends[lo] \in Nat /\ Before(lo) \in Nat /\ Before(lo) < Ends[lo] /\ (q < lo => Ends[q] <= Before(lo))
      BY <3>2, RegionFacts
    <3> QED BY <2>1, <2>2, <3>2, <3>3
  <2> QED BY <2>4, <2>5
<1> QED BY <1>1, <1>3, <1>4, <1>5

\* The worker goes on without a transfer.
LEMMA WalkOn ==
  ASSUME ContentInv, UNCHANGED <<disk, stored, unsure, relocate, copied, chunk>>,
         app.pc \in Walk, app'.pc \in Walk, app'.req = app.req, app'.pos = app.pos, app'.plain = app.plain,
         app'.buf = app.buf, app'.bad = app.bad, PassedInv'
  PROVE  ContentInv'
<1>1. Open' = Open /\ (Writes' <=> Writes) /\ Of(app.req)' = Of(app.req)
  BY DEF Open, Writes, Of
<1>2. app'.pc # "lower" /\ app'.pc # "done"
  BY DEF Walk
<1>3. DataInv'
  BY <1>1, <1>2, DataSame DEF ContentInv
<1>4. WriteInv'
  BY <1>1 DEF ContentInv, WriteInv, Written, Outside, Inside, Data
<1>5. ReadInv' /\ ReadsBack'
  BY <1>1, <1>2 DEF ContentInv, ReadInv, ReadsBack
<1> QED BY <1>3, <1>4, <1>5 DEF ContentInv

LEMMA WalkRequest ==
  ASSUME RequestInv, UNCHANGED <<set, copied>>, app.pc \in Walk, Shape(app'), app'.pc \in {"group", "next", "final"},
         app'.req = app.req, app'.pos \in app.req.start .. Stop - 1, app'.plain = app.plain, app'.ok \in BOOLEAN,
         app.bad \subseteq app'.bad, app'.bad \subseteq Of(app.req),
         app'.pc # "final" => /\ app'.node \in Tables /\ app'.k \in 1..Len(Regions[app'.node])
                              /\ holds'[app'.node] # 0
  PROVE  RequestInv'
<1>1. Stop' = Stop /\ (Writes' <=> Writes) /\ Of(app'.req) = Of(app.req)
  BY DEF Stop, Writes
<1>2. IF app'.plain THEN Writes /\ copied < Count ELSE copied = Count \/ app'.bad = Of(app.req)
  <2>1. IF app.plain THEN Writes /\ copied < Count ELSE copied = Count \/ app.bad = Of(app.req)
    BY DEF RequestInv
  <2>2. CASE app.plain
    BY <2>1, <2>2
  <2>3. CASE ~app.plain
    <3>1. app.bad = Of(app.req) => app'.bad = Of(app.req)
      OBVIOUS
    <3> QED BY <2>1, <2>3, <3>1
  <2> QED BY <2>2, <2>3
<1>3. set' = Len(Ends) /\ app'.plain \in BOOLEAN
  BY DEF RequestInv, AtWorker
<1>4. /\ app'.req \in [op : {"read", "write"}, start : Nat, n : Nat \ {0}, val : Values] /\ Stop' <= Groups[1].t
  BY <1>1 DEF RequestInv
<1>5. IF app'.plain THEN Writes' /\ copied' < Count ELSE copied' = Count \/ app'.bad = Of(app'.req)
  BY <1>1, <1>2
<1>6. app'.pos \in app'.req.start .. Stop' - 1 /\ app'.bad \subseteq Of(app'.req)
  BY <1>1
<1>7. app'.pc \notin {"first", "pointer"}
  OBVIOUS
<1> QED BY <1>3, <1>4, <1>5, <1>6, <1>7 DEF RequestInv, AtWorker, Walk

\* After a table was read its region has a buffer.
LEMMA LoadGives ==
  ASSUME Inv, NEW r \in Tables, Load(r, TRUE)
  PROVE  holds'[r] # 0
<1>1. CASE holds[r] # 0
  BY <1>1 DEF Load
<1>2. CASE holds[r] = 0
  <2>1. holds' = [holds EXCEPT ![Head(lru)] = 0, ![r] = r]
    BY <1>2 DEF Load, Reuse
  <2>2. holds'[r] = r /\ r # 0
    BY <2>1 DEF Inv, ListInv, Tables
  <2> QED BY <2>2
<1> QED BY <1>1, <1>2

\* What is known of a write that the worker has on its way.
LEMMA WritePlain ==
  ASSUME RequestInv, ContentInv, app.pc \in Walk, Writes, NEW x \in Of(app.req) \ app.bad, copied < Count
  PROVE  disk[x] = Data(x)
<1>1. app.plain
  BY GroupFacts DEF RequestInv
<1> QED BY <1>1 DEF ContentInv, WriteInv

\* A table that cannot be read spoils its region.
LEMMA LoadSpoils ==
  ASSUME NEW r, NEW ok \in BOOLEAN, Load(r, ok)
  PROVE  (~ok => spoiled') /\ (~spoiled' => ~spoiled)
BY DEF Load

LEMMA LooksUpFirst ==
  ASSUME Whole, FirstGroup
  PROVE  FlagInv' /\ RequestInv' /\ StoreInv'
<1>0. Inv /\ FlagInv /\ RequestInv /\ StoreInv /\ StoreType /\ Shape(app)
  BY DEF Whole, StoreInv, RequestInv
<1>1. /\ UNCHANGED <<init, relocate, min, max, pointer, set, ctl, copied, chunk, disk>>
      /\ app.pc = "first" /\ app.pc \in Walk
  BY DEF FirstGroup, flags, program, Walk
<1>2. /\ app.req.start \in Nat /\ Of(app.req) = app.req.start .. Stop - 1 /\ Of(app.req) \subseteq Source
      /\ Stop \in Nat /\ app.req.start < Stop
  BY <1>0, RequestPlaces
<1>3. app.pos = app.req.start /\ app.pos \in app.req.start .. Stop - 1 /\ app.pos \in Nat /\ set = Len(Ends)
  BY <1>0, <1>1, <1>2 DEF RequestInv, AtWorker
<1>4. FlagInv'
  BY <1>0, <1>1, FlagSame
<1>5. PICK rs : rs = RegionsFrom(0, app.pos)
  OBVIOUS
<1>6. PICK r : r = FirstOf(rs)
  OBVIOUS
<1>7. PICK a : a = [app EXCEPT !.node = r, !.k = 1]
  OBVIOUS
<1>8. /\ Shape(a) /\ a.req = app.req /\ a.pos = app.pos /\ a.node = r /\ a.k = 1 /\ a.plain = app.plain
      /\ a.ok = app.ok /\ a.buf = app.buf /\ a.bad = app.bad
  <2>1. Shape(app)
    BY <1>0
  <2> QED BY <1>7, <2>1 DEF Shape
<1>9. PICK bad : bad = IF app.plain THEN app.bad ELSE Of(app.req)
  OBVIOUS
<1>10. PICK c : c = [app EXCEPT !.bad = bad]
  OBVIOUS
<1>11. /\ Shape(c) /\ c.req = app.req /\ c.plain = app.plain /\ c.ok = app.ok /\ c.buf = app.buf /\ c.bad = bad
  BY <1>0, <1>10, ShapeBad
<1>12. \/ rs = {} /\ Finish(c, InChunk) /\ UNCHANGED spoiled
       \/ rs # {} /\ UNCHANGED <<holds, spoiled, app, stored, unsure>>
       \/ rs # {} /\ Load(r, TRUE) /\ Goto(a, "group")
       \/ rs # {} /\ Load(r, FALSE) /\ Finish([a EXCEPT !.ok = FALSE], {})
  BY <1>5, <1>6, <1>7, <1>9, <1>10 DEF FirstGroup
<1>13. CASE rs = {} /\ Finish(c, InChunk) /\ UNCHANGED spoiled
  <2>1. /\ Shape(app') /\ app'.pc = "done" /\ app'.req = app.req /\ app'.plain = app.plain /\ app'.ok = app.ok
        /\ app'.buf = app.buf /\ app'.bad = bad
        /\ ~Writes => UNCHANGED <<stored, unsure>>
        /\ Writes => /\ stored' = [x \in Sectors |-> IF x \in Of(app.req) THEN Data(x) ELSE stored[x]]
                     /\ unsure' = unsure \cup bad \cup (Of(app.req) \cap InChunk)
                                    \cup (IF app.ok THEN {} ELSE Of(app.req))
    BY <1>11, <1>13, FinishFacts
  <2>2. Ended(app.ok, app.buf, bad, InChunk)
    BY <2>1 DEF Ended
  <2>3. app.ok \in BOOLEAN /\ bad \subseteq Of(app.req) /\ app.plain \in BOOLEAN
    BY <1>0, <1>9 DEF RequestInv
  <2>4. disk' \in [Sectors -> Values \X Sectors]
    BY <1>0, <1>1 DEF StoreType
  <2>5. RequestInv' /\ StoreType'
    BY <1>0, <2>2, <2>3, <2>4, EndedState
  <2>6. ASSUME ContentInv PROVE ContentInv'
    <3>1. DataInv
      BY <2>6 DEF ContentInv
    <3>2. \A i \in 1..Count : EndOf(i) <= app.pos
      BY <1>3, <1>5, <1>13, AllPassed
    <3>3. \A x \in Of(app.req) : Outside(x)
      <4>1. \A i \in 1..Count : EndOf(i) \in Nat
        BY EndsOrder
      <4>2. \A i \in 1..Count : \A x \in Span(Groups[i]) : x < EndOf(i)
        BY GroupFacts DEF Span, EndOf
      <4>3. ASSUME NEW x \in Of(app.req), NEW i \in 1..Count PROVE ~Inside(i, x)
        <5>1. x \in Nat /\ app.pos <= x /\ EndOf(i) \in Nat /\ EndOf(i) <= app.pos
          BY <1>2, <1>3, <3>2, <4>1
        <5>2. Inside(i, x) => x < EndOf(i)
          BY <4>2 DEF Inside
        <5>3. app.pos \in Nat
          BY <1>3
        <5> QED BY <5>1, <5>2, <5>3
      <4> QED BY <4>3 DEF Outside
    <3>4. \A i \in 1..copied : i \in 1..Count
      BY <1>0, GroupFacts DEF FlagInv
    <3>5. chunk # <<>> => copied + 1 \in 1..Count
      BY <1>0, GroupFacts DEF FlagInv
    <3>6. CASE Writes
      <4>1. \A x \in Of(app.req) \ unsure' : disk'[x] = Data(x)
        <5>1. ASSUME NEW x \in Of(app.req) \ unsure' PROVE app.plain /\ x \notin app.bad
          BY <1>9, <2>1, <3>6
        <5> QED BY <1>1, <2>6, <3>6, <5>1 DEF ContentInv, WriteInv
      <4>2. ASSUME NEW x \in Of(app.req) \ unsure'
            PROVE  /\ copied < Count \/ Outside(x) => disk'[x] = Data(x)
                   /\ relocate => \A i \in 1..copied : Inside(i, x) => disk'[Target(Groups[i], x)] = Data(x)
                   /\ chunk # <<>> => ~Inside(copied + 1, x)
        <5>1. Outside(x)
          BY <3>3
        <5> QED BY <3>4, <3>5, <4>1, <5>1 DEF Outside
      <4>3. unsure \subseteq unsure'
        BY <2>1, <3>6
      <4> QED BY <1>0, <1>1, <2>1, <3>1, <3>6, <4>2, <4>3, WriteDone
    <3>7. CASE ~Writes
      <4>1. ~app.plain
        BY <1>0, <1>1, <3>7 DEF RequestInv
      <4>2. Of(app.req) \ (unsure \cup app'.bad) = {}
        BY <1>9, <2>1, <4>1
      <4> QED BY <1>1, <2>1, <3>1, <3>7, <4>2, ReadDone
    <3> QED BY <3>6, <3>7
  <2> QED BY <1>0, <1>4, <1>13, <2>5, <2>6 DEF StoreInv
<1>14. CASE rs # {} /\ UNCHANGED <<holds, spoiled, app, stored, unsure>>
  <2>1. RequestInv'
    BY <1>0, <1>1, <1>14, RequestSame
  <2>2. StoreInv'
    BY <1>0, <1>1, <1>14, StoreSame
  <2> QED BY <1>4, <2>1, <2>2
<1>15. CASE rs # {} /\ Load(r, TRUE) /\ Goto(a, "group")
  <2>1. app' = [a EXCEPT !.pc = "group"] /\ UNCHANGED <<stored, unsure>>
    BY <1>15 DEF Goto
  <2>2. /\ Shape(app') /\ app'.pc = "group" /\ app'.req = app.req /\ app'.pos = app.pos /\ app'.node = r
        /\ app'.k = 1 /\ app'.plain = app.plain /\ app'.ok = app.ok /\ app'.buf = app.buf /\ app'.bad = app.bad
    BY <1>8, <2>1, ShapePc
  <2>3. /\ r \in Tables /\ 1 \in 1..Len(Regions[r])
        /\ \A i \in 1..Count : i < Before(r) + 1 => EndOf(i) <= app.pos
    BY <1>3, <1>5, <1>6, <1>15, FoundRegion
  <2>4. holds'[r] # 0
    BY <1>0, <1>15, <2>3, LoadGives
  <2>5. app.ok \in BOOLEAN /\ app.bad \subseteq Of(app.req)
    BY <1>0 DEF RequestInv
  <2>6. RequestInv'
    BY <1>0, <1>1, <1>3, <2>2, <2>3, <2>4, <2>5, WalkRequest
  <2>7. ASSUME ContentInv PROVE ContentInv'
    <3>1. PassedInv'
      BY <2>2, <2>3 DEF PassedInv, Index
    <3>2. app'.pc \in Walk
      BY <2>2 DEF Walk
    <3> QED BY <1>1, <2>1, <2>2, <2>7, <3>1, <3>2, WalkOn
  <2> QED BY <1>0, <1>1, <1>4, <1>15, <2>1, <2>6, <2>7, LoadSpoils DEF StoreInv, StoreType
<1>16. CASE rs # {} /\ Load(r, FALSE) /\ Finish([a EXCEPT !.ok = FALSE], {})
  <2>1. PICK b : b = [a EXCEPT !.ok = FALSE]
    OBVIOUS
  <2>2. /\ Shape(b) /\ b.req = app.req /\ b.plain = app.plain /\ b.ok = FALSE /\ b.buf = app.buf /\ b.bad = app.bad
    BY <1>8, <2>1, ShapeOk
  <2>3. Finish(b, {})
    BY <1>16, <2>1
  <2>4. Ended(FALSE, app.buf, app.bad, {})
    BY <2>2, <2>3, FinishFacts DEF Ended
  <2>5. app.bad \subseteq Of(app.req) /\ disk' \in [Sectors -> Values \X Sectors]
    BY <1>0, <1>1 DEF RequestInv, StoreType
  <2>6. RequestInv' /\ StoreType'
    BY <1>0, <2>4, <2>5, EndedState
  <2> QED BY <1>4, <1>16, <2>6, LoadSpoils DEF StoreInv
<1> QED BY <1>12, <1>13, <1>14, <1>15, <1>16

LEMMA LooksUpNext ==
  ASSUME Whole, NextGroup
  PROVE  FlagInv' /\ RequestInv' /\ StoreInv'
<1>0. Inv /\ FlagInv /\ RequestInv /\ StoreInv /\ StoreType /\ Shape(app)
  BY DEF Whole, StoreInv, RequestInv
<1>1. /\ UNCHANGED <<init, relocate, min, max, pointer, set, ctl, copied, chunk, disk>>
      /\ app.pc = "next" /\ app.pc \in Walk
  BY DEF NextGroup, flags, program, Walk
<1>2. app.req.start \in Nat /\ Stop \in Nat
  BY <1>0, RequestPlaces
<1>3. /\ app.pos \in app.req.start .. Stop - 1 /\ app.pos \in Nat /\ set = Len(Ends)
      /\ app.node \in Tables /\ app.k \in 1..Len(Regions[app.node]) /\ holds[app.node] # 0
      /\ app.ok \in BOOLEAN /\ app.bad \subseteq Of(app.req)
  BY <1>0, <1>1, <1>2 DEF RequestInv, AtWorker
<1>4. FlagInv'
  BY <1>0, <1>1, FlagSame
<1>5. PICK rs : rs = RegionsFrom(app.node, app.pos)
  OBVIOUS
<1>6. PICK r : r = FirstOf(rs)
  OBVIOUS
<1>7. PICK a : a = [app EXCEPT !.node = r, !.k = 1]
  OBVIOUS
<1>8. /\ Shape(a) /\ a.req = app.req /\ a.pos = app.pos /\ a.node = r /\ a.k = 1 /\ a.plain = app.plain
      /\ a.ok = app.ok /\ a.buf = app.buf /\ a.bad = app.bad
  <2>1. Shape(app)
    BY <1>0
  <2> QED BY <1>7, <2>1 DEF Shape
<1>9. PICK c : c = [app EXCEPT !.k = app.k + 1]
  OBVIOUS
<1>10. /\ Shape(c) /\ c.req = app.req /\ c.pos = app.pos /\ c.node = app.node /\ c.k = app.k + 1
       /\ c.plain = app.plain /\ c.ok = app.ok /\ c.buf = app.buf /\ c.bad = app.bad
  <2>1. Shape(app)
    BY <1>0
  <2> QED BY <1>9, <2>1 DEF Shape
<1>11. \/ app.k < Len(Regions[app.node]) /\ Goto(c, "group") /\ UNCHANGED <<holds, spoiled>>
       \/ ~(app.k < Len(Regions[app.node])) /\ rs = {} /\ Goto(app, "final") /\ UNCHANGED <<holds, spoiled>>
       \/ UNCHANGED <<holds, spoiled, app, stored, unsure>>
       \/ ~(app.k < Len(Regions[app.node])) /\ rs # {} /\ Load(r, TRUE) /\ Goto(a, "group")
       \/ Load(r, FALSE) /\ Goto(a, "final")
  BY <1>5, <1>6, <1>7, <1>9 DEF NextGroup
<1>12. Len(Regions[app.node]) \in Nat /\ Before(app.node) \in Nat /\ Ends[app.node] \in Nat
       /\ Before(app.node) + Len(Regions[app.node]) = Ends[app.node]
  <2>1. /\ Before(app.node) \in Nat /\ Ends[app.node] \in Nat /\ Before(app.node) < Ends[app.node]
        /\ Len(Regions[app.node]) = Ends[app.node] - Before(app.node)
    BY <1>3, RegionFacts
  <2> QED BY <2>1
<1>13. ASSUME ~(app.k < Len(Regions[app.node])), ContentInv
       PROVE  \A i \in 1..Count : i <= Ends[app.node] => EndOf(i) <= app.pos
  <2>1. app.k = Len(Regions[app.node])
    BY <1>3, <1>12, <1>13
  <2>2. Index = Ends[app.node]
    BY <1>12, <2>1 DEF Index
  <2> QED BY <1>1, <1>13, <2>2 DEF ContentInv, PassedInv
<1>14. app.node \in Nat /\ app.node # 0
  BY <1>3 DEF Tables
<1>15. ASSUME NEW d, Shape(d), d.req = app.req, d.pos = app.pos, d.plain = app.plain, d.ok = app.ok,
              d.buf = app.buf, d.bad = app.bad, NEW l \in {"group", "final"}, Goto(d, l)
       PROVE  /\ Shape(app') /\ app'.pc = l /\ app'.req = app.req /\ app'.pos = app.pos /\ app'.node = d.node
              /\ app'.k = d.k /\ app'.plain = app.plain /\ app'.ok = app.ok /\ app'.buf = app.buf
              /\ app'.bad = app.bad /\ UNCHANGED <<stored, unsure>> /\ app'.pc \in Walk
  <2>1. app' = [d EXCEPT !.pc = l] /\ UNCHANGED <<stored, unsure>>
    BY <1>15 DEF Goto
  <2>2. /\ Shape(app') /\ app'.pc = l /\ app'.req = app.req /\ app'.pos = app.pos /\ app'.node = d.node
        /\ app'.k = d.k /\ app'.plain = app.plain /\ app'.ok = app.ok /\ app'.buf = app.buf /\ app'.bad = app.bad
    BY <1>15, <2>1, ShapePc
  <2> QED BY <2>1, <2>2 DEF Walk
<1>16. CASE app.k < Len(Regions[app.node]) /\ Goto(c, "group") /\ UNCHANGED <<holds, spoiled>>
  <2>1. /\ Shape(app') /\ app'.pc = "group" /\ app'.req = app.req /\ app'.pos = app.pos /\ app'.node = app.node
        /\ app'.k = app.k + 1 /\ app'.plain = app.plain /\ app'.ok = app.ok /\ app'.buf = app.buf
        /\ app'.bad = app.bad /\ UNCHANGED <<stored, unsure>> /\ app'.pc \in Walk
    BY <1>10, <1>15, <1>16
  <2>2. app.k + 1 \in 1..Len(Regions[app.node])
    BY <1>3, <1>12, <1>16
  <2>3. RequestInv'
    BY <1>0, <1>1, <1>3, <1>16, <2>1, <2>2, WalkRequest
  <2>4. ASSUME ContentInv PROVE ContentInv'
    <3>1. Index' = Index + 1 /\ Index \in Nat
      BY <1>3, <1>12, <2>1 DEF Index
    <3>2. \A i \in 1..Count : i < Index + 1 => i <= Index
      BY <3>1
    <3>3. \A i \in 1..Count : i <= Index => EndOf(i) <= app.pos
      BY <1>1, <2>4 DEF ContentInv, PassedInv
    <3>4. PassedInv'
      BY <2>1, <3>1, <3>2, <3>3 DEF PassedInv
    <3> QED BY <1>1, <2>1, <2>4, <3>4, WalkOn
  <2> QED BY <1>0, <1>1, <1>4, <1>16, <2>1, <2>3, <2>4 DEF StoreInv, StoreType
<1>17. CASE ~(app.k < Len(Regions[app.node])) /\ rs = {} /\ Goto(app, "final") /\ UNCHANGED <<holds, spoiled>>
  <2>1. /\ Shape(app') /\ app'.pc = "final" /\ app'.req = app.req /\ app'.pos = app.pos
        /\ app'.plain = app.plain /\ app'.ok = app.ok /\ app'.buf = app.buf
        /\ app'.bad = app.bad /\ UNCHANGED <<stored, unsure>> /\ app'.pc \in Walk
    BY <1>0, <1>15, <1>17
  <2>2. RequestInv'
    BY <1>0, <1>1, <1>3, <2>1, WalkRequest
  <2>3. ASSUME ContentInv PROVE ContentInv'
    <3>1. \A i \in 1..Count : EndOf(i) <= app.pos
      BY <1>3, <1>5, <1>13, <1>14, <1>17, <2>3, AllPassed
    <3>2. PassedInv'
      BY <2>1, <3>1 DEF PassedInv
    <3> QED BY <1>1, <2>1, <2>3, <3>2, WalkOn
  <2> QED BY <1>0, <1>1, <1>4, <1>17, <2>1, <2>2, <2>3 DEF StoreInv, StoreType
<1>18. CASE UNCHANGED <<holds, spoiled, app, stored, unsure>>
  <2>1. RequestInv'
    BY <1>0, <1>1, <1>18, RequestSame
  <2>2. StoreInv'
    BY <1>0, <1>1, <1>18, StoreSame
  <2> QED BY <1>4, <2>1, <2>2
<1>19. CASE ~(app.k < Len(Regions[app.node])) /\ rs # {} /\ Load(r, TRUE) /\ Goto(a, "group")
  <2>1. /\ Shape(app') /\ app'.pc = "group" /\ app'.req = app.req /\ app'.pos = app.pos /\ app'.node = r
        /\ app'.k = 1 /\ app'.plain = app.plain /\ app'.ok = app.ok /\ app'.buf = app.buf
        /\ app'.bad = app.bad /\ UNCHANGED <<stored, unsure>> /\ app'.pc \in Walk
    BY <1>8, <1>15, <1>19
  <2>2. r \in Tables /\ 1 \in 1..Len(Regions[r])
    <3>1. set \in Nat
      BY <1>3, Numbers
    <3>2. r \in RegionsFrom(app.node, app.pos)
      BY <1>5, <1>6, <1>19, <3>1, FirstFacts
    <3>3. r \in Tables
      BY <1>3, <3>2 DEF RegionsFrom, Tables
    <3> QED BY <3>3, RegionFacts
  <2>3. holds'[r] # 0
    BY <1>0, <1>19, <2>2, LoadGives
  <2>4. RequestInv'
    BY <1>0, <1>1, <1>3, <2>1, <2>2, <2>3, WalkRequest
  <2>5. ASSUME ContentInv PROVE ContentInv'
    <3>1. \A i \in 1..Count : i < Before(r) + 1 => EndOf(i) <= app.pos
      BY <1>3, <1>5, <1>6, <1>13, <1>14, <1>19, <2>5, FoundRegion
    <3>2. PassedInv'
      BY <2>1, <3>1 DEF PassedInv, Index
    <3> QED BY <1>1, <2>1, <2>5, <3>2, WalkOn
  <2> QED BY <1>0, <1>1, <1>4, <1>19, <2>1, <2>4, <2>5, LoadSpoils DEF StoreInv, StoreType
<1>20. CASE Load(r, FALSE) /\ Goto(a, "final")
  <2>1. /\ Shape(app') /\ app'.pc = "final" /\ app'.req = app.req /\ app'.pos = app.pos
        /\ app'.plain = app.plain /\ app'.ok = app.ok /\ app'.bad = app.bad /\ UNCHANGED <<stored, unsure>>
    BY <1>8, <1>15, <1>20
  <2>2. RequestInv'
    BY <1>0, <1>1, <1>3, <2>1, WalkRequest
  <2> QED BY <1>0, <1>1, <1>4, <1>20, <2>1, <2>2, LoadSpoils DEF StoreInv, StoreType
<1> QED BY <1>11, <1>16, <1>17, <1>18, <1>19, <1>20

\* Behind the last group the sectors have one place.
LEMMA Finals ==
  ASSUME Whole, Final
  PROVE  FlagInv' /\ RequestInv' /\ StoreInv'
<1>0. FlagInv /\ RequestInv /\ StoreInv /\ StoreType
  BY DEF Whole, StoreInv
<1>1. /\ UNCHANGED <<init, relocate, min, max, pointer, set, holds, ctl, copied, chunk, spoiled>>
      /\ app.pc = "final" /\ app.pc \in Walk /\ Rest(app.pos, InChunk)
  BY DEF Final, flags, cache, program, Walk
<1>2. /\ app.req.start \in Nat /\ Of(app.req) = app.req.start .. Stop - 1 /\ Of(app.req) \subseteq Source
      /\ Stop \in Nat
  BY <1>0, RequestPlaces
<1>3. app.pos \in Nat /\ app.req.start <= app.pos /\ app.pos < Stop
  BY <1>0, <1>1, <1>2 DEF RequestInv
<1>4. FlagInv'
  BY <1>0, <1>1, FlagSame
<1>5. RequestInv' /\ StoreType'
  BY <1>0, <1>1, <1>3, RestState
<1>6. ASSUME ContentInv PROVE ContentInv'
  <2>1. DataInv
    BY <1>6 DEF ContentInv
  <2>2. \A x \in app.pos .. Stop - 1 : Outside(x)
    <3>1. \A i \in 1..Count : EndOf(i) \in Nat
      BY EndsOrder
    <3>2. \A i \in 1..Count : \A x \in Span(Groups[i]) : x < EndOf(i)
      BY GroupFacts DEF Span, EndOf
    <3>3. \A i \in 1..Count : EndOf(i) <= app.pos
      BY <1>1, <1>6 DEF ContentInv, PassedInv
    <3>4. ASSUME NEW x \in app.pos .. Stop - 1, NEW i \in 1..Count PROVE ~Inside(i, x)
      <4>1. x \in Nat /\ app.pos <= x /\ EndOf(i) \in Nat /\ EndOf(i) <= app.pos
        BY <1>2, <1>3, <3>1, <3>3
      <4> QED BY <1>3, <3>2, <4>1 DEF Inside
    <3> QED BY <3>4 DEF Outside
  <2>3. \A i \in 1..copied : i \in 1..Count
    BY <1>0, GroupFacts DEF FlagInv
  <2>4. \A x \in app.pos .. Stop - 1 \ InChunk : relocate => \A i \in 1..copied : ~Inside(i, x)
    BY <2>2, <2>3 DEF Outside
  <2>5. \A x \in Of(app.req) \ InChunk : chunk # <<>> => ~Inside(copied + 1, x)
    BY DEF InChunk, Next1, Inside
  <2>6. ASSUME Writes, NEW x \in app.req.start .. app.pos - 1 \ app.bad
        PROVE  /\ copied < Count \/ Outside(x) => disk[x] = Data(x)
               /\ \A i \in 1..copied : Inside(i, x) => disk[Target(Groups[i], x)] = Data(x)
    <3>1. Written(x)
      BY <1>1, <1>6, <2>6 DEF ContentInv, WriteInv
    <3>2. x \in Of(app.req) \ app.bad
      BY <1>2, <1>3
    <3>3. copied < Count => disk[x] = Data(x)
      BY <1>0, <1>1, <1>6, <2>6, <3>2, WritePlain
    <3> QED BY <2>3, <3>1, <3>3 DEF Written, Outside
  <2>7. ASSUME ~Writes, NEW x \in app.pos .. Stop - 1 \ (unsure \cup app.bad) PROVE disk[x] = stored[x]
    <3>1. x \in Source \ Open
      BY <1>2, <1>3, <2>7 DEF Open
    <3> QED BY <2>1, <2>2, <3>1 DEF DataInv, OutsideInv
  <2>8. ~Writes => \A x \in app.req.start .. app.pos - 1 \ (unsure \cup app.bad) :
                     x \in DOMAIN app.buf /\ app.buf[x] = stored[x]
    BY <1>1, <1>6 DEF ContentInv, ReadInv
  <2> QED BY <1>0, <1>1, <1>3, <2>1, <2>4, <2>5, <2>6, <2>7, <2>8, RestContent
<1> QED BY <1>0, <1>1, <1>4, <1>5, <1>6 DEF StoreInv

-----------------------------------------------------------------------------
(* The transfer at a group: what lies in front of it and what lies inside.  *)

InFront(g)  == app.pos .. Least(Stop, g.s) - 1
Cur(g)    == IF InFront(g) = {} THEN app.pos ELSE Least(Stop, g.s)
Part(g)   == IF Cur(g) \in Span(g) THEN Cur(g) .. Least(Stop, g.s + g.n) - 1 ELSE {}
After(g)  == IF Part(g) = {} THEN Cur(g) ELSE Least(Stop, g.s + g.n)
PlaceIn(g, x)   == IF x \in Part(g) THEN Target(g, x) ELSE x
Moved(g, lost)  == (InFront(g) \cup Part(g)) \ lost
GoesOn(g, lost) == lost = {} \/ (lost = InFront(g) /\ (Part(g) # {} \/ After(g) < Stop))
Onto(g, xs) ==
  IF Writes THEN [y \in Sectors |-> IF \E x \in xs : PlaceIn(g, x) = y
                                   THEN Data(CHOOSE x \in xs : PlaceIn(g, x) = y) ELSE disk[y]]
  ELSE disk
Into(g, xs) ==
  IF Writes THEN app.buf
  ELSE [x \in xs \cup DOMAIN app.buf |-> IF x \in xs THEN disk[PlaceIn(g, x)] ELSE app.buf[x]]

\* The sectors up to After are in front of the group or inside it; when some
\* are left the group is behind the worker.
LEMMA Pieces ==
  ASSUME app.pos \in Nat, Stop \in Nat, app.pos < Stop, NEW g, g.s \in Nat, g.n \in Nat
  PROVE  /\ After(g) \in Nat /\ app.pos <= After(g) /\ After(g) <= Stop
         /\ \A x \in InFront(g) : x \in Nat /\ app.pos <= x /\ x < g.s /\ x < After(g)
         /\ \A x \in Part(g) : x \in Nat /\ app.pos <= x /\ x \in Span(g) /\ x < After(g)
         /\ \A x \in app.pos .. After(g) - 1 : x \in InFront(g) \/ x \in Part(g)
         /\ After(g) < Stop => g.s + g.n <= After(g)
<1>1. Least(Stop, g.s) = IF Stop <= g.s THEN Stop ELSE g.s
  BY DEF Least
<1>2. Least(Stop, g.s + g.n) = IF Stop <= g.s + g.n THEN Stop ELSE g.s + g.n
  BY DEF Least
<1>3. CASE app.pos < g.s
  <2>1. InFront(g) # {} /\ Cur(g) = Least(Stop, g.s)
    BY <1>1, <1>3 DEF InFront, Cur
  <2>2. CASE g.s < Stop /\ g.n > 0
    <3>1. Cur(g) = g.s /\ Cur(g) \in Span(g)
      BY <1>1, <2>1, <2>2 DEF Span
    <3>2. Part(g) = g.s .. Least(Stop, g.s + g.n) - 1
      BY <3>1 DEF Part
    <3>3. Part(g) # {}
      BY <1>2, <2>2, <3>2
    <3>4. After(g) = Least(Stop, g.s + g.n)
      BY <3>3 DEF After
    <3>5. InFront(g) = app.pos .. g.s - 1
      BY <1>1, <2>2 DEF InFront
    <3> QED BY <1>2, <1>3, <2>2, <3>2, <3>4, <3>5 DEF Span
  <2>3. CASE ~(g.s < Stop /\ g.n > 0)
    <3>1. Part(g) = {}
      BY <1>1, <1>2, <2>1, <2>3 DEF Part, Span
    <3>2. After(g) = Least(Stop, g.s)
      BY <2>1, <3>1 DEF After
    <3> QED BY <1>1, <1>3, <2>3, <3>1, <3>2 DEF InFront
  <2> QED BY <2>2, <2>3
<1>4. CASE ~(app.pos < g.s)
  <2>1. InFront(g) = {}
    BY <1>1, <1>4 DEF InFront
  <2>2. Cur(g) = app.pos
    BY <2>1 DEF Cur
  <2>3. CASE app.pos \in Span(g)
    <3>1. Part(g) = app.pos .. Least(Stop, g.s + g.n) - 1
      BY <2>2, <2>3 DEF Part
    <3>2. Part(g) # {}
      BY <1>2, <2>3, <3>1 DEF Span
    <3>3. After(g) = Least(Stop, g.s + g.n)
      BY <3>2 DEF After
    <3> QED BY <1>2, <2>1, <2>3, <3>1, <3>3 DEF Span
  <2>4. CASE app.pos \notin Span(g)
    <3>1. Part(g) = {} /\ After(g) = app.pos
      BY <2>2, <2>4 DEF Part, After
    <3> QED BY <1>4, <2>1, <2>4, <3>1 DEF Span
  <2> QED BY <2>3, <2>4
<1> QED BY <1>3, <1>4

\* What the step does.
LEMMA GroupStep ==
  ASSUME Group, Shape(app), NEW g, g = Entry
  PROVE  \E lost \in {{}, InFront(g), Part(g)} :
           /\ disk' = Onto(g, Moved(g, lost))
           /\ Shape(app') /\ app'.req = app.req /\ app'.pos = After(g) /\ app'.node = app.node /\ app'.k = app.k
           /\ app'.plain = app.plain /\ app'.ok = GoesOn(g, lost) /\ app'.buf = Into(g, Moved(g, lost))
           /\ app'.bad = app.bad \cup lost
           /\ \/ After(g) < Stop /\ GoesOn(g, lost) /\ app'.pc = "next" /\ UNCHANGED <<stored, unsure>>
              \/ /\ ~(After(g) < Stop /\ GoesOn(g, lost)) /\ app'.pc = "done"
                 /\ Ended(GoesOn(g, lost), Into(g, Moved(g, lost)), app.bad \cup lost, InChunk)
<1> DEFINE Go(h, lost) ==
             /\ disk' = Onto(h, Moved(h, lost))
             /\ LET a == [app EXCEPT !.pos = After(h), !.buf = Into(h, Moved(h, lost)), !.bad = @ \cup lost,
                                     !.ok = GoesOn(h, lost)]
                IN  IF After(h) < Stop /\ a.ok THEN Goto(a, "next") ELSE Finish(a, InChunk)
<1>0. Go(Entry, {}) \/ Go(Entry, InFront(Entry)) \/ Go(Entry, Part(Entry))
  BY DEF Group, OnDisk, InBuf, InFront, Cur, Part, After, PlaceIn, Moved, GoesOn, Onto, Into
<1>1. PICK lost \in {{}, InFront(g), Part(g)} : Go(g, lost)
  <2> HIDE DEF Go
  <2> QED BY <1>0
<1>2. PICK v : v = Into(g, Moved(g, lost))
  OBVIOUS
<1>3. PICK p : p = After(g)
  OBVIOUS
<1>4. PICK ok : ok = GoesOn(g, lost)
  OBVIOUS
<1>5. PICK a : a = [app EXCEPT !.pos = p, !.buf = v, !.bad = app.bad \cup lost, !.ok = ok]
  OBVIOUS
<1>6. /\ Shape(a) /\ a.req = app.req /\ a.pos = p /\ a.node = app.node /\ a.k = app.k
      /\ a.plain = app.plain /\ a.ok = ok /\ a.buf = v /\ a.bad = app.bad \cup lost
  <2>1. Shape(app)
    OBVIOUS
  <2> QED BY <1>5, <2>1 DEF Shape
<1>7. IF p < Stop /\ ok THEN Goto(a, "next") ELSE Finish(a, InChunk)
  <2>1. IF p < Stop /\ a.ok THEN Goto(a, "next") ELSE Finish(a, InChunk)
    BY <1>1, <1>2, <1>3, <1>4, <1>5
  <2> QED BY <1>6, <2>1
<1>8. CASE p < Stop /\ ok /\ Goto(a, "next")
  <2>1. app' = [a EXCEPT !.pc = "next"] /\ UNCHANGED <<stored, unsure>>
    BY <1>8 DEF Goto
  <2>2. /\ Shape(app') /\ app'.pc = "next" /\ app'.req = app.req /\ app'.pos = p /\ app'.node = app.node
        /\ app'.k = app.k /\ app'.plain = app.plain /\ app'.ok = ok /\ app'.buf = v
        /\ app'.bad = app.bad \cup lost
    BY <1>6, <2>1, ShapePc
  <2> QED BY <1>1, <1>2, <1>3, <1>4, <1>8, <2>1, <2>2
<1>9. CASE ~(p < Stop /\ ok) /\ Finish(a, InChunk)
  <2>1. app' = [a EXCEPT !.pc = "done"]
    BY <1>9 DEF Finish
  <2>2. /\ Shape(app') /\ app'.pc = "done" /\ app'.req = app.req /\ app'.pos = p /\ app'.node = app.node
        /\ app'.k = app.k /\ app'.plain = app.plain /\ app'.ok = ok /\ app'.buf = v
        /\ app'.bad = app.bad \cup lost
    BY <1>6, <2>1, ShapePc
  <2>3. Ended(ok, v, app.bad \cup lost, InChunk)
    BY <1>6, <1>9, FinishFacts DEF Ended
  <2> QED BY <1>1, <1>2, <1>3, <1>4, <1>9, <2>2, <2>3
<1> QED BY <1>7, <1>8, <1>9

\* The current entry has the numbers of a group; when no table has failed to be
\* read it is the group at Index.
LEMMA EntryType ==
  ASSUME Inv, RequestInv, app.pc = "group"
  PROVE  Entry.s \in Nat /\ Entry.n \in Nat
<1>1. app.node \in Tables /\ holds[app.node] # 0
  BY DEF RequestInv
<1>2. holds[app.node] \in Tables
  BY <1>1, Numbers DEF Inv, ListInv
<1>3. PICK r : r = holds[app.node]
  OBVIOUS
<1>4. r \in Tables
  BY <1>2, <1>3
<1>5. CASE app.k \in DOMAIN Regions[r]
  <2>1. /\ Before(r) \in Nat /\ Ends[r] \in Nat /\ Ends[r] <= Count /\ DOMAIN Regions[r] = 1 .. Ends[r] - Before(r)
        /\ \A k \in 1 .. Ends[r] - Before(r) : Regions[r][k] = Groups[Before(r) + k]
    BY <1>4, RegionFacts
  <2>2. Regions[r][app.k] = Groups[Before(r) + app.k] /\ Before(r) + app.k \in 1..Count
    BY <1>5, <2>1, GroupFacts
  <2>3. Entry = Groups[Before(r) + app.k]
    BY <1>3, <1>5, <2>2 DEF Entry
  <2> QED BY <2>2, <2>3, GroupFacts
<1>6. CASE app.k \notin DOMAIN Regions[r]
  BY <1>3, <1>6 DEF Entry, NoGroup
<1> QED BY <1>5, <1>6

LEMMA EntryIs ==
  ASSUME Inv, RequestInv, app.pc = "group", ~spoiled
  PROVE  Index \in 1..Count /\ Entry = Groups[Index]
<1>1. app.node \in Tables /\ holds[app.node] # 0 /\ app.k \in 1..Len(Regions[app.node])
  BY DEF RequestInv
<1>2. holds[app.node] = app.node
  BY <1>1 DEF Inv, BufferInv, Loaded
<1>3. PICK r : r = app.node
  OBVIOUS
<1>4. /\ Before(r) \in Nat /\ Ends[r] \in Nat /\ Ends[r] <= Count /\ DOMAIN Regions[r] = 1 .. Ends[r] - Before(r)
      /\ Len(Regions[r]) = Ends[r] - Before(r)
      /\ \A k \in 1 .. Ends[r] - Before(r) : Regions[r][k] = Groups[Before(r) + k]
  BY <1>1, <1>3, RegionFacts
<1>5. app.k \in 1 .. Ends[r] - Before(r)
  BY <1>1, <1>3, <1>4
<1>6. Entry = Groups[Before(r) + app.k]
  BY <1>2, <1>3, <1>4, <1>5 DEF Entry
<1>7. Before(r) + app.k \in 1..Count
  BY <1>4, <1>5, GroupFacts
<1> QED BY <1>3, <1>6, <1>7 DEF Index

LEMMA OntoType ==
  ASSUME RequestInv, StoreType, NEW g, NEW xs, xs \subseteq Of(app.req), disk' = Onto(g, xs)
  PROVE  disk' \in [Sectors -> Values \X Sectors]
<1>1. CASE ~Writes
  BY <1>1 DEF Onto, StoreType
<1>2. CASE Writes
  <2>1. disk' = [y \in Sectors |-> IF \E x \in xs : PlaceIn(g, x) = y
                                   THEN Data(CHOOSE x \in xs : PlaceIn(g, x) = y) ELSE disk[y]]
    BY <1>2 DEF Onto
  <2>2. \A y \in Sectors : (\E x \in xs : PlaceIn(g, x) = y) => (CHOOSE x \in xs : PlaceIn(g, x) = y) \in xs
    OBVIOUS
  <2>3. \A x \in xs : Data(x) \in Values \X Sectors
    BY RequestPlaces
  <2>4. \A y \in Sectors : disk[y] \in Values \X Sectors
    BY DEF StoreType
  <2> QED BY <2>1, <2>2, <2>3, <2>4
<1> QED BY <1>1, <1>2

\* The sectors of a group have one place each: those in front of it their own, those
\* inside their target.
LEMMA OntoPlaces ==
  ASSUME RequestInv, StoreType, Writes, NEW i \in 1..Count, NEW xs, xs \subseteq Of(app.req),
         Part(Groups[i]) \subseteq Span(Groups[i]), disk' = Onto(Groups[i], xs)
  PROVE  /\ \A x \in xs : disk'[PlaceIn(Groups[i], x)] = Data(x)
         /\ \A x \in Source : x \notin xs \ Part(Groups[i]) => disk'[x] = disk[x]
         /\ \A j \in 1..Count : \A x \in Span(Groups[j]) : x \notin xs =>
              disk'[Target(Groups[j], x)] = disk[Target(Groups[j], x)]
<1>1. PICK g : g = Groups[i]
  OBVIOUS
<1>2. disk' = Onto(g, xs)
  BY <1>1
<1>3. disk' = [y \in Sectors |-> IF \E x \in xs : PlaceIn(g, x) = y
                                 THEN Data(CHOOSE x \in xs : PlaceIn(g, x) = y) ELSE disk[y]]
  BY <1>2 DEF Onto
<1>4. xs \subseteq Source
  BY RequestPlaces
<1>5. ASSUME NEW x \in xs
      PROVE  /\ PlaceIn(g, x) \in Sectors
             /\ x \in Part(g) => PlaceIn(g, x) = Target(Groups[i], x) /\ PlaceIn(g, x) \notin Source /\ x \in Span(Groups[i])
             /\ x \notin Part(g) => PlaceIn(g, x) = x
  <2>1. CASE x \in Part(g)
    <3>1. x \in Span(Groups[i])
      BY <1>1, <2>1
    <3>2. Target(Groups[i], x) \in Sectors \ Source
      BY <3>1, Places
    <3> QED BY <1>1, <2>1, <3>1, <3>2 DEF PlaceIn
  <2>2. CASE x \notin Part(g)
    BY <1>4, <2>2, Places DEF PlaceIn
  <2> QED BY <2>1, <2>2
<1>6. ASSUME NEW x \in xs, NEW z \in xs, PlaceIn(g, x) = PlaceIn(g, z) PROVE x = z
  <2>1. CASE x \in Part(g) /\ z \in Part(g)
    BY <1>5, <1>6, <2>1, Places
  <2>2. CASE x \notin Part(g) /\ z \notin Part(g)
    BY <1>5, <1>6, <2>2
  <2>3. CASE x \in Part(g) /\ z \notin Part(g)
    BY <1>4, <1>5, <1>6, <2>3
  <2>4. CASE x \notin Part(g) /\ z \in Part(g)
    BY <1>4, <1>5, <1>6, <2>4
  <2> QED BY <2>1, <2>2, <2>3, <2>4
<1>7. ASSUME NEW x \in xs PROVE disk'[PlaceIn(g, x)] = Data(x)
  <2>1. PICK y : y = PlaceIn(g, x)
    OBVIOUS
  <2>2. y \in Sectors /\ \E z \in xs : PlaceIn(g, z) = y
    BY <1>5, <2>1
  <2>3. PICK z : z = CHOOSE q \in xs : PlaceIn(g, q) = y
    OBVIOUS
  <2>4. z \in xs /\ PlaceIn(g, z) = y
    BY <2>2, <2>3
  <2>5. z = x
    BY <1>6, <2>1, <2>4
  <2>6. disk'[y] = Data(z)
    BY <1>3, <2>2, <2>3
  <2> QED BY <2>1, <2>5, <2>6
<1>8. ASSUME NEW y \in Sectors, \A x \in xs : PlaceIn(g, x) # y PROVE disk'[y] = disk[y]
  BY <1>3, <1>8
<1>9. ASSUME NEW x \in Source, x \notin xs \ Part(g) PROVE disk'[x] = disk[x]
  <2>1. \A z \in xs : PlaceIn(g, z) # x
    BY <1>5, <1>9
  <2> QED BY <1>8, <2>1, Places
<1>10. ASSUME NEW j \in 1..Count, NEW x \in Span(Groups[j]), x \notin xs
       PROVE  disk'[Target(Groups[j], x)] = disk[Target(Groups[j], x)]
  <2>1. Target(Groups[j], x) \in Sectors /\ Target(Groups[j], x) \notin Source
    BY Places
  <2>2. ASSUME NEW z \in xs PROVE PlaceIn(g, z) # Target(Groups[j], x)
    <3>1. CASE z \in Part(g)
      <4>1. PlaceIn(g, z) = Target(Groups[i], z) /\ z \in Span(Groups[i])
        BY <1>5, <3>1
      <4>2. Target(Groups[i], z) = Target(Groups[j], x) => z = x
        BY <4>1, Places
      <4> QED BY <1>10, <4>1, <4>2
    <3>2. CASE z \notin Part(g)
      BY <1>4, <1>5, <2>1, <3>2
    <3> QED BY <3>1, <3>2
  <2> QED BY <1>8, <2>1, <2>2
<1> QED BY <1>1, <1>7, <1>9, <1>10

\* In front of the current group there is no other that the worker has not passed.
LEMMA FrontOutside ==
  ASSUME RequestInv, PassedInv, app.pc = "group", Index \in 1..Count, NEW x \in InFront(Groups[Index])
  PROVE  Outside(x)
<1>1. app.pos \in Nat /\ Stop \in Nat /\ app.pos < Stop
  BY RequestPlaces DEF RequestInv, Walk
<1>2. PICK m : m = Index
  OBVIOUS
<1>3. Groups[m].s \in Nat /\ Groups[m].n \in Nat /\ m \in 1..Count
  BY <1>2, GroupFacts
<1>4. x \in Nat /\ app.pos <= x /\ x < Groups[m].s
  BY <1>1, <1>2, <1>3, Pieces
<1>5. ASSUME NEW i \in 1..Count PROVE ~Inside(i, x)
  <2>1. Groups[i].s \in Nat /\ Groups[i].n \in Nat
    BY GroupFacts
  <2>2. CASE i < m
    <3>1. EndOf(i) <= app.pos
      BY <1>2, <2>2 DEF PassedInv
    <3> QED BY <1>1, <1>4, <2>1, <3>1 DEF Inside, Span, EndOf
  <2>3. CASE i = m
    BY <1>3, <1>4, <2>3 DEF Inside, Span
  <2>4. CASE m < i
    <3>1. EndOf(m) <= Groups[i].s
      BY <1>3, <2>4, GroupFacts
    <3>2. x < Groups[i].s
      BY <1>3, <1>4, <2>1, <3>1 DEF EndOf
    <3> QED BY <1>4, <2>1, <3>2 DEF Inside, Span
  <2> QED BY <1>3, <2>2, <2>3, <2>4
<1> QED BY <1>5 DEF Outside

\* A write has reached the sectors up to After at the places they have then.
LEMMA GroupWrites ==
  ASSUME FlagInv, RequestInv, StoreType, ContentInv, app.pc = "group", Index \in 1..Count, Writes,
         NEW g, g = Groups[Index], NEW lost, lost \subseteq Of(app.req), disk' = Onto(g, Moved(g, lost)),
         UNCHANGED copied
  PROVE  /\ \A x \in Source \ Of(app.req) : disk'[x] = disk[x]
         /\ \A i \in 1..Count : \A x \in Span(Groups[i]) \ Of(app.req) :
              disk'[Target(Groups[i], x)] = disk[Target(Groups[i], x)]
         /\ \A x \in Of(app.req) \ (app.bad \cup lost) : disk[x] = Data(x) => disk'[x] = Data(x)
         /\ \A x \in app.req.start .. After(g) - 1 \ (app.bad \cup lost) :
              IF Outside(x) THEN disk'[x] = Data(x)
              ELSE \A i \in 1..Count : Inside(i, x) => disk'[Target(Groups[i], x)] = Data(x)
<1>1. /\ app.pos \in Nat /\ Stop \in Nat /\ app.pos < Stop /\ app.req.start \in Nat /\ app.req.start <= app.pos
      /\ Of(app.req) = app.req.start .. Stop - 1 /\ Of(app.req) \subseteq Source /\ app.pc \in Walk
  BY RequestPlaces DEF RequestInv, Walk
<1>2. g.s \in Nat /\ g.n \in Nat
  BY GroupFacts
<1>3. /\ After(g) \in Nat /\ app.pos <= After(g) /\ After(g) <= Stop
      /\ \A x \in InFront(g) : x \in Nat /\ app.pos <= x /\ x < g.s /\ x < After(g)
      /\ \A x \in Part(g) : x \in Nat /\ app.pos <= x /\ x \in Span(g) /\ x < After(g)
      /\ \A x \in app.pos .. After(g) - 1 : x \in InFront(g) \/ x \in Part(g)
  BY <1>1, <1>2, Pieces
<1>4. PICK xs : xs = Moved(g, lost)
  OBVIOUS
<1>5. ASSUME NEW x \in xs PROVE x \in Of(app.req) /\ app.pos <= x
  <2>1. x \in Nat /\ app.pos <= x /\ x < After(g)
    BY <1>3, <1>4 DEF Moved
  <2> QED BY <1>1, <1>3, <2>1
<1>6. Part(Groups[Index]) \subseteq Span(Groups[Index])
  BY <1>3
<1>7. disk' = Onto(Groups[Index], xs) /\ xs \subseteq Of(app.req)
  BY <1>4, <1>5
<1>8. /\ \A x \in xs : disk'[PlaceIn(Groups[Index], x)] = Data(x)
      /\ \A x \in Source : x \notin xs \ Part(Groups[Index]) => disk'[x] = disk[x]
      /\ \A j \in 1..Count : \A x \in Span(Groups[j]) : x \notin xs =>
           disk'[Target(Groups[j], x)] = disk[Target(Groups[j], x)]
  BY <1>6, <1>7, OntoPlaces
<1>9. ASSUME NEW x \in xs, x \notin Part(g) PROVE Outside(x) /\ disk'[x] = Data(x)
  <2>1. x \in InFront(g)
    BY <1>4, <1>9 DEF Moved
  <2>2. PlaceIn(g, x) = x
    BY <1>9 DEF PlaceIn
  <2> QED BY <1>8, <2>1, <2>2, FrontOutside DEF ContentInv
<1>10. ASSUME NEW x \in xs, x \in Part(g)
       PROVE  Inside(Index, x) /\ disk'[Target(Groups[Index], x)] = Data(x)
  <2>1. PlaceIn(g, x) = Target(g, x) /\ x \in Span(g)
    BY <1>3, <1>10 DEF PlaceIn
  <2> QED BY <1>8, <2>1 DEF Inside
<1>11. \A x \in Of(app.req) \ (app.bad \cup lost) : disk[x] = Data(x) => disk'[x] = Data(x)
  BY <1>1, <1>8, <1>9
<1>12. ASSUME NEW x \in app.req.start .. After(g) - 1 \ (app.bad \cup lost)
       PROVE  IF Outside(x) THEN disk'[x] = Data(x)
              ELSE \A i \in 1..Count : Inside(i, x) => disk'[Target(Groups[i], x)] = Data(x)
  <2>0. x \in Of(app.req) /\ x \in Source
    BY <1>1, <1>3
  <2>1. CASE x < app.pos
    <3>1. x \in app.req.start .. app.pos - 1 \ app.bad
      BY <1>1, <1>3, <2>1
    <3>2. Written(x)
      BY <1>1, <3>1 DEF ContentInv, WriteInv
    <3>3. x \notin xs
      <4>1. x \in Int /\ app.pos \in Int
        BY <1>1
      <4> QED BY <1>5, <2>1, <4>1
    <3>4. disk'[x] = disk[x]
      BY <1>8, <2>0, <3>3
    <3>5. \A i \in 1..Count : Inside(i, x) => disk'[Target(Groups[i], x)] = disk[Target(Groups[i], x)]
      BY <1>8, <3>3 DEF Inside
    <3> QED BY <3>2, <3>4, <3>5 DEF Written
  <2>2. CASE ~(x < app.pos)
    <3>1. x \in app.pos .. After(g) - 1
      BY <1>1, <1>3, <2>2
    <3>2. x \in xs
      BY <1>3, <1>4, <3>1 DEF Moved
    <3>3. CASE x \in Part(g)
      <4>1. Inside(Index, x) /\ disk'[Target(Groups[Index], x)] = Data(x)
        BY <1>10, <3>2, <3>3
      <4>2. ~Outside(x)
        BY <4>1 DEF Outside
      <4>3. \A i \in 1..Count : Inside(i, x) => i = Index
        BY <4>1, Places DEF Inside
      <4> QED BY <4>1, <4>2, <4>3
    <3>4. CASE x \notin Part(g)
      BY <1>9, <3>2, <3>4
    <3> QED BY <3>3, <3>4
  <2> QED BY <2>1, <2>2
<1>13. \A x \in Source \ Of(app.req) : disk'[x] = disk[x]
  BY <1>7, <1>8
<1>14. \A i \in 1..Count : \A x \in Span(Groups[i]) \ Of(app.req) :
         disk'[Target(Groups[i], x)] = disk[Target(Groups[i], x)]
  BY <1>7, <1>8
<1> QED BY <1>11, <1>12, <1>13, <1>14

\* A read has what was stored in the sectors up to After.
LEMMA GroupReads ==
  ASSUME FlagInv, RequestInv, ContentInv, app.pc = "group", Index \in 1..Count, ~Writes,
         NEW g, g = Groups[Index], NEW lost, NEW buf, buf = Into(g, Moved(g, lost))
  PROVE  \A x \in app.req.start .. After(g) - 1 \ (unsure \cup app.bad \cup lost) :
           x \in DOMAIN buf /\ buf[x] = stored[x]
<1>1. /\ app.pos \in Nat /\ Stop \in Nat /\ app.pos < Stop /\ app.req.start \in Nat /\ app.req.start <= app.pos
      /\ Of(app.req) = app.req.start .. Stop - 1 /\ Of(app.req) \subseteq Source /\ app.pc \in Walk
  BY RequestPlaces DEF RequestInv, Walk
<1>2. g.s \in Nat /\ g.n \in Nat
  BY GroupFacts
<1>3. /\ After(g) \in Nat /\ app.pos <= After(g) /\ After(g) <= Stop
      /\ \A x \in InFront(g) : x \in Nat /\ app.pos <= x /\ x < g.s /\ x < After(g)
      /\ \A x \in Part(g) : x \in Nat /\ app.pos <= x /\ x \in Span(g) /\ x < After(g)
      /\ \A x \in app.pos .. After(g) - 1 : x \in InFront(g) \/ x \in Part(g)
  BY <1>1, <1>2, Pieces
<1>4. PICK xs : xs = Moved(g, lost)
  OBVIOUS
<1>5. ASSUME NEW x \in xs PROVE x \in Int /\ app.pos <= x
  BY <1>3, <1>4 DEF Moved
<1>6. buf = [x \in xs \cup DOMAIN app.buf |-> IF x \in xs THEN disk[PlaceIn(g, x)] ELSE app.buf[x]]
  <2>1. buf = Into(g, xs)
    BY <1>4
  <2> QED BY <2>1 DEF Into
<1>7. copied = Count \/ app.bad = Of(app.req)
  BY <1>1 DEF RequestInv
<1>8. SUFFICES ASSUME NEW x \in app.req.start .. After(g) - 1 \ (unsure \cup app.bad \cup lost)
               PROVE  x \in DOMAIN buf /\ buf[x] = stored[x]
  OBVIOUS
<1>9. x \in Of(app.req) /\ x \in Source \ Open
  <2>1. x \in Of(app.req)
    BY <1>1, <1>3
  <2>2. Open = unsure
    BY DEF Open
  <2> QED BY <1>1, <2>1, <2>2
<1>10. copied = Count /\ relocate
  <2>1. copied = Count
    BY <1>7, <1>9
  <2> QED BY <2>1 DEF FlagInv
<1>11. CASE x < app.pos
  <2>1. x \in app.req.start .. app.pos - 1 \ (unsure \cup app.bad)
    BY <1>1, <1>3, <1>11
  <2>2. x \in DOMAIN app.buf /\ app.buf[x] = stored[x]
    BY <1>1, <2>1 DEF ContentInv, ReadInv
  <2>3. x \notin xs
    <3>1. x \in Int /\ app.pos \in Int
      BY <1>1
    <3> QED BY <1>5, <1>11, <3>1
  <2> QED BY <1>6, <2>2, <2>3
<1>12. CASE ~(x < app.pos)
  <2>1. x \in app.pos .. After(g) - 1
    BY <1>1, <1>3, <1>12
  <2>2. x \in xs
    BY <1>3, <1>4, <2>1 DEF Moved
  <2>3. x \in DOMAIN buf /\ buf[x] = disk[PlaceIn(g, x)]
    BY <1>6, <2>2
  <2>4. CASE x \in Part(g)
    <3>1. PlaceIn(g, x) = Target(Groups[Index], x) /\ x \in Span(Groups[Index]) \ Open
      BY <1>3, <1>9, <2>4 DEF PlaceIn
    <3>2. Index \in 1..copied
      BY <1>10
    <3>3. disk[Target(Groups[Index], x)] = stored[x]
      BY <1>10, <3>1, <3>2 DEF ContentInv, DataInv, CopyInv
    <3> QED BY <2>3, <3>1, <3>3
  <2>5. CASE x \notin Part(g)
    <3>1. x \in InFront(g) /\ PlaceIn(g, x) = x
      BY <1>3, <2>1, <2>5 DEF PlaceIn
    <3>2. Outside(x)
      BY <3>1, FrontOutside DEF ContentInv
    <3> QED BY <1>9, <2>3, <3>1, <3>2 DEF ContentInv, DataInv, OutsideInv
  <2> QED BY <2>4, <2>5
<1> QED BY <1>11, <1>12

LEMMA Transfers ==
  ASSUME Whole, Group
  PROVE  FlagInv' /\ RequestInv' /\ StoreInv'
<1>0. Inv /\ FlagInv /\ RequestInv /\ StoreInv /\ StoreType /\ Shape(app)
  BY DEF Whole, StoreInv, RequestInv
<1>1. /\ UNCHANGED <<init, relocate, min, max, pointer, set, holds, ctl, copied, chunk, spoiled>>
      /\ app.pc = "group" /\ app.pc \in Walk
  BY DEF Group, flags, cache, program, Walk
<1>2. /\ app.req.start \in Nat /\ Of(app.req) = app.req.start .. Stop - 1 /\ Of(app.req) \subseteq Source
      /\ Stop \in Nat
  BY <1>0, RequestPlaces
<1>3. /\ app.pos \in Nat /\ app.req.start <= app.pos /\ app.pos < Stop /\ app.node \in Tables
      /\ app.k \in 1..Len(Regions[app.node]) /\ holds[app.node] # 0 /\ app.bad \subseteq Of(app.req)
      /\ app.plain \in BOOLEAN
  BY <1>0, <1>1, <1>2 DEF RequestInv
<1>4. FlagInv'
  BY <1>0, <1>1, FlagSame
<1>5. PICK g : g = Entry
  OBVIOUS
<1>6. g.s \in Nat /\ g.n \in Nat
  BY <1>0, <1>1, <1>5, EntryType
<1>7. /\ After(g) \in Nat /\ app.pos <= After(g) /\ After(g) <= Stop
      /\ \A x \in InFront(g) : x \in Nat /\ app.pos <= x /\ x < g.s /\ x < After(g)
      /\ \A x \in Part(g) : x \in Nat /\ app.pos <= x /\ x \in Span(g) /\ x < After(g)
      /\ \A x \in app.pos .. After(g) - 1 : x \in InFront(g) \/ x \in Part(g)
      /\ After(g) < Stop => g.s + g.n <= After(g)
  BY <1>2, <1>3, <1>6, Pieces
<1>8. InFront(g) \subseteq Of(app.req) /\ Part(g) \subseteq Of(app.req)
  BY <1>2, <1>3, <1>7
<1>9. PICK lost \in {{}, InFront(g), Part(g)} :
        /\ disk' = Onto(g, Moved(g, lost))
        /\ Shape(app') /\ app'.req = app.req /\ app'.pos = After(g) /\ app'.node = app.node /\ app'.k = app.k
        /\ app'.plain = app.plain /\ app'.ok = GoesOn(g, lost) /\ app'.buf = Into(g, Moved(g, lost))
        /\ app'.bad = app.bad \cup lost
        /\ \/ After(g) < Stop /\ GoesOn(g, lost) /\ app'.pc = "next" /\ UNCHANGED <<stored, unsure>>
           \/ /\ ~(After(g) < Stop /\ GoesOn(g, lost)) /\ app'.pc = "done"
              /\ Ended(GoesOn(g, lost), Into(g, Moved(g, lost)), app.bad \cup lost, InChunk)
  BY <1>0, <1>5, GroupStep
<1>10. lost \subseteq Of(app.req) /\ GoesOn(g, lost) \in BOOLEAN /\ Moved(g, lost) \subseteq Of(app.req)
  BY <1>8 DEF GoesOn, Moved
<1>11. disk' \in [Sectors -> Values \X Sectors]
  BY <1>0, <1>9, <1>10, OntoType
<1>12. ~Writes => UNCHANGED disk
  BY <1>9 DEF Onto
<1>13. ASSUME ~spoiled, ContentInv
       PROVE  /\ Index \in 1..Count /\ g = Groups[Index] /\ DataInv
              /\ Writes => /\ \A x \in Source \ Of(app.req) : disk'[x] = disk[x]
                           /\ \A i \in 1..Count : \A x \in Span(Groups[i]) \ Of(app.req) :
                                disk'[Target(Groups[i], x)] = disk[Target(Groups[i], x)]
                           /\ \A x \in Of(app.req) \ app'.bad : disk[x] = Data(x) => disk'[x] = Data(x)
                           /\ \A x \in app.req.start .. After(g) - 1 \ app'.bad :
                                IF Outside(x) THEN disk'[x] = Data(x)
                                ELSE \A i \in 1..Count : Inside(i, x) => disk'[Target(Groups[i], x)] = Data(x)
              /\ ~Writes => \A x \in app.req.start .. After(g) - 1 \ (unsure \cup app'.bad) :
                              x \in DOMAIN app'.buf /\ app'.buf[x] = stored[x]
  <2>1. Index \in 1..Count /\ g = Groups[Index]
    BY <1>0, <1>1, <1>5, <1>13, EntryIs
  <2>2. Writes => /\ \A x \in Source \ Of(app.req) : disk'[x] = disk[x]
                  /\ \A i \in 1..Count : \A x \in Span(Groups[i]) \ Of(app.req) :
                       disk'[Target(Groups[i], x)] = disk[Target(Groups[i], x)]
                  /\ \A x \in Of(app.req) \ (app.bad \cup lost) : disk[x] = Data(x) => disk'[x] = Data(x)
                  /\ \A x \in app.req.start .. After(g) - 1 \ (app.bad \cup lost) :
                       IF Outside(x) THEN disk'[x] = Data(x)
                       ELSE \A i \in 1..Count : Inside(i, x) => disk'[Target(Groups[i], x)] = Data(x)
    BY <1>0, <1>1, <1>9, <1>10, <1>13, <2>1, GroupWrites
  <2>3. ~Writes => \A x \in app.req.start .. After(g) - 1 \ (unsure \cup app.bad \cup lost) :
                     x \in DOMAIN app'.buf /\ app'.buf[x] = stored[x]
    BY <1>0, <1>1, <1>9, <1>13, <2>1, GroupReads
  <2>4. app'.bad = app.bad \cup lost /\ unsure \cup app'.bad = unsure \cup app.bad \cup lost
    BY <1>9
  <2> QED BY <1>13, <2>1, <2>2, <2>3, <2>4 DEF ContentInv
<1>14. CASE After(g) < Stop /\ app'.pc = "next" /\ UNCHANGED <<stored, unsure>>
  <2>0. app'.pc \in Walk /\ app'.ok \in BOOLEAN /\ app.bad \subseteq app'.bad /\ app'.bad \subseteq Of(app.req)
    BY <1>3, <1>9, <1>10, <1>14 DEF Walk
  <2>1. RequestInv'
    <3>1. app'.pos \in app.req.start .. Stop - 1
      BY <1>2, <1>3, <1>7, <1>9, <1>14
    <3> QED BY <1>0, <1>1, <1>3, <1>9, <1>14, <2>0, <3>1, WalkRequest
  <2>2. ASSUME ~spoiled, ContentInv PROVE ContentInv'
    <3>1. DataInv'
      <4>1. CASE Writes
        BY <1>0, <1>1, <1>9, <1>13, <1>14, <2>0, <2>2, <4>1, WriteGoes
      <4>2. CASE ~Writes
        <5>1. Open \subseteq Open' /\ app'.pc # "lower"
          BY <1>9, <1>14, <4>2 DEF Open, Writes
        <5> QED BY <1>1, <1>12, <1>13, <1>14, <2>2, <4>2, <5>1, DataSame
      <4> QED BY <4>1, <4>2
    <3>2. PassedInv'
      <4>1. PICK m : m = Index
        OBVIOUS
      <4>2. Index' = m /\ m \in 1..Count /\ EndOf(m) <= After(g)
        BY <1>7, <1>9, <1>13, <1>14, <2>2, <4>1 DEF Index, EndOf
      <4>3. ASSUME NEW i \in 1..Count, i <= m PROVE EndOf(i) <= After(g)
        <5>1. EndOf(i) <= EndOf(m) /\ EndOf(i) \in Nat /\ EndOf(m) \in Nat
          BY <4>2, <4>3, EndsOrder
        <5> QED BY <1>7, <4>2, <5>1
      <4> QED BY <1>9, <1>14, <4>2, <4>3 DEF PassedInv
    <3>3. WriteInv'
      <4>1. SUFFICES ASSUME Writes PROVE WriteInv'
        BY <1>9 DEF WriteInv, Writes
      <4>2. app'.plain => \A x \in Of(app.req) \ app'.bad : disk[x] = Data(x)
        BY <1>1, <1>9, <2>0, <2>2, <4>1 DEF ContentInv, WriteInv
      <4>3. app'.plain => \A x \in Of(app.req) \ app'.bad : disk'[x] = Data(x)
        BY <1>13, <2>2, <4>1, <4>2
      <4>4. \A x : Data(x)' = Data(x)
        BY <1>9 DEF Data
      <4>5. \A x \in app.req.start .. After(g) - 1 \ app'.bad : Written(x)'
        BY <1>13, <2>2, <4>1, <4>4 DEF Written, Outside, Inside
      <4> QED BY <1>9, <4>3, <4>4, <4>5 DEF WriteInv, Of
    <3>4. ReadInv'
      <4>1. SUFFICES ASSUME ~Writes PROVE ReadInv'
        BY <1>9 DEF ReadInv, Writes
      <4> QED BY <1>9, <1>13, <1>14, <2>2, <4>1 DEF ReadInv
    <3>5. ReadsBack'
      BY <1>14 DEF ReadsBack
    <3> QED BY <3>1, <3>2, <3>3, <3>4, <3>5 DEF ContentInv
  <2> QED BY <1>0, <1>1, <1>4, <1>11, <1>14, <2>1, <2>2 DEF StoreInv, StoreType
<1>15. CASE /\ ~(After(g) < Stop /\ GoesOn(g, lost))
            /\ Ended(GoesOn(g, lost), Into(g, Moved(g, lost)), app.bad \cup lost, InChunk)
  <2>1. app.bad \cup lost \subseteq Of(app.req)
    BY <1>3, <1>10
  <2>2. RequestInv' /\ StoreType'
    BY <1>0, <1>10, <1>11, <1>15, <2>1, EndedState
  <2>3. ASSUME ~spoiled, ContentInv PROVE ContentInv'
    <3>1. /\ app'.pc = "done" /\ app'.req = app.req /\ app'.ok = GoesOn(g, lost) /\ app'.bad = app.bad \cup lost
          /\ ~Writes => UNCHANGED <<stored, unsure>>
          /\ Writes => /\ stored' = [x \in Sectors |-> IF x \in Of(app.req) THEN Data(x) ELSE stored[x]]
                       /\ unsure' = unsure \cup app'.bad \cup (Of(app.req) \cap InChunk)
                                      \cup (IF app'.ok THEN {} ELSE Of(app.req))
      BY <1>15 DEF Ended
    <3>2. app'.ok => Of(app.req) = app.req.start .. After(g) - 1
      <4>1. app'.ok => After(g) = Stop
        BY <1>2, <1>7, <1>15, <3>1
      <4> QED BY <1>2, <4>1
    <3>3. CASE Writes
      <4>1. unsure \subseteq unsure' /\ app'.bad \subseteq unsure' /\ Of(app.req) \cap InChunk \subseteq unsure'
            /\ (~app'.ok => Of(app.req) \subseteq unsure')
        BY <3>1, <3>3
      <4>2. \A i \in 1..copied : i \in 1..Count
        BY <1>0, GroupFacts DEF FlagInv
      <4>3. ASSUME NEW x \in Of(app.req) \ unsure'
            PROVE  /\ copied < Count \/ Outside(x) => disk'[x] = Data(x)
                   /\ relocate => \A i \in 1..copied : Inside(i, x) => disk'[Target(Groups[i], x)] = Data(x)
                   /\ chunk # <<>> => ~Inside(copied + 1, x)
        <5>1. chunk # <<>> => ~Inside(copied + 1, x)
          BY <4>1 DEF InChunk, Next1, Inside
        <5>2. x \in Of(app.req) \ app'.bad /\ x \in Of(app.req) \ app.bad
          BY <3>1, <4>1
        <5>3. copied < Count => disk'[x] = Data(x)
          <6>1. copied < Count => disk[x] = Data(x)
            BY <1>0, <1>1, <2>3, <3>3, <5>2, WritePlain
          <6> QED BY <1>13, <2>3, <3>3, <5>2, <6>1
        <5>4. x \in app.req.start .. After(g) - 1 \ app'.bad
          BY <3>2, <4>1, <5>2
        <5>5. IF Outside(x) THEN disk'[x] = Data(x)
              ELSE \A i \in 1..Count : Inside(i, x) => disk'[Target(Groups[i], x)] = Data(x)
          BY <1>13, <2>3, <3>3, <5>4
        <5> QED BY <4>2, <5>1, <5>3, <5>5 DEF Outside
      <4> QED BY <1>0, <1>1, <1>13, <2>3, <3>1, <3>3, <4>1, <4>3, WriteDone
    <3>4. CASE ~Writes
      <4>1. app'.ok => \A x \in Of(app.req) \ (unsure \cup app'.bad) :
                         x \in DOMAIN app'.buf /\ app'.buf[x] = stored[x]
        BY <1>13, <2>3, <3>2, <3>4
      <4> QED BY <1>1, <1>12, <1>13, <2>3, <3>1, <3>4, <4>1, ReadDone
    <3> QED BY <3>3, <3>4
  <2> QED BY <1>0, <1>1, <1>4, <2>2, <2>3 DEF StoreInv
<1> QED BY <1>9, <1>14, <1>15

-----------------------------------------------------------------------------
(* The contents at every moment.                                           *)

LEMMA WholeInit == Init => Whole
<1> SUFFICES ASSUME Init PROVE Whole
  OBVIOUS
<1>1. Inv
  BY InvInit
<1>2. FlagInv
  <2>1. /\ init = FALSE /\ relocate = FALSE /\ min = 0 /\ max = 0 /\ pointer = 0 /\ ctl = "idle" /\ copied = 0
        /\ chunk = <<>>
    BY DEF Init
  <2>2. MaxSec \in Nat /\ MaxSec > 0 /\ Count \in Nat /\ Count > 0
    BY GroupFacts
  <2>3. pointer \in 0..MaxSec /\ copied \in 0..Count /\ (pointer = MaxSec <=> copied = Count) /\ copied # Count
    BY <2>1, <2>2
  <2>4. init \in BOOLEAN /\ relocate \in BOOLEAN /\ ctl \in {"idle", "enmax", "enflag", "pointer", "min", "max"}
    BY <2>1
  <2>5. /\ min = (IF relocate \/ ctl \in {"min", "enmax", "enflag"} THEN MinSec ELSE 0)
        /\ max = (IF relocate \/ ctl \in {"min", "max", "enflag"} THEN MaxSec ELSE 0)
    BY <2>1
  <2> QED BY <2>1, <2>3, <2>4, <2>5 DEF FlagInv
<1>3. app = Idle
  BY DEF Init
<1>4. /\ Shape(app) /\ app.pc = "idle" /\ app.plain = FALSE /\ app.ok = TRUE /\ app.bad = {}
      /\ app.req = [op |-> "read", start |-> 0, n |-> 1, val |-> Old]
  BY <1>3 DEF Idle, Shape
<1>5. Old \in Values
  BY RelocateAssumption
<1>6. RequestInv
  <2>1. 1 <= Groups[1].t
    <3>1. 1 \in 1..Count
      BY GroupFacts
    <3>2. /\ Groups[1].s \in Nat /\ Groups[1].n \in Nat /\ Groups[1].n > 0 /\ Groups[1].t \in Nat
          /\ EndOf(1) <= Groups[1].t
      BY <3>1, GroupFacts
    <3> QED BY <3>2 DEF EndOf
  <2>2. app.req \in [op : {"read", "write"}, start : Nat, n : Nat \ {0}, val : Values]
    BY <1>4, <1>5
  <2>3. Stop = 1
    BY <1>4 DEF Stop
  <2> QED BY <1>4, <2>1, <2>2, <2>3 DEF RequestInv, AtWorker, Walk
<1>7. disk = [x \in Sectors |-> <<Old, x>>] /\ stored = disk /\ unsure = {} /\ chunk = <<>> /\ relocate = FALSE
  BY DEF Init
<1>8. StoreType
  <2>1. disk \in [Sectors -> Values \X Sectors]
    BY <1>5, <1>7
  <2> QED BY <1>7, <2>1 DEF StoreType
<1>9. DataInv
  BY <1>7 DEF DataInv, PlainInv, OutsideInv, CopyInv, ChunkInv
<1>10. PassedInv /\ WriteInv /\ ReadInv /\ ReadsBack
  BY <1>4 DEF PassedInv, WriteInv, ReadInv, ReadsBack, Walk
<1> QED BY <1>1, <1>2, <1>6, <1>8, <1>9, <1>10 DEF Whole, StoreInv, ContentInv

LEMMA WholeNext == Whole /\ [Next]_vars => Whole'
<1> SUFFICES ASSUME Whole, [Next]_vars PROVE Whole'
  OBVIOUS
<1>1. Inv'
  BY InvNext DEF Whole
<1>2. CASE UNCHANGED vars
  <2>1. /\ UNCHANGED <<init, relocate, min, max, pointer, set, holds, ctl, copied, chunk>>
        /\ UNCHANGED <<app, disk, stored, unsure, spoiled>>
    BY <1>2 DEF vars, flags, cache, program, claims
  <2>2. FlagInv /\ RequestInv /\ StoreInv
    BY DEF Whole
  <2>3. app.pc = "pointer" /\ max = 0 /\ pointer = 0 => app.bad = Of(app.req)
    BY <2>2 DEF RequestInv
  <2>4. FlagInv'
    BY <2>1, <2>2, FlagSame
  <2>5. RequestInv'
    BY <2>1, <2>2, <2>3, RequestSame
  <2>6. StoreInv'
    BY <2>1, <2>2, StoreSame
  <2> QED BY <1>1, <2>4, <2>5, <2>6 DEF Whole
<1>3. CASE Next
  <2>1. ASSUME Worker PROVE FlagInv' /\ RequestInv' /\ StoreInv'
    BY <2>1, Checks, LeavesRange, EntersWalk, LooksUpFirst, Transfers, LooksUpNext, Finals DEF Worker
  <2>2. ASSUME Control PROVE FlagInv' /\ RequestInv' /\ StoreInv'
    BY <2>2, Switches, MaxSwitch, Reads, Copies DEF Control
  <2>3. ASSUME Lower \/ Answer PROVE FlagInv' /\ RequestInv' /\ StoreInv'
    BY <2>3, PassesDown, Answers
  <2>4. ASSUME \E q \in Requests : Submit(q) PROVE FlagInv' /\ RequestInv' /\ StoreInv'
    BY <2>4, Arrives
  <2>5. FlagInv' /\ RequestInv' /\ StoreInv'
    BY <1>3, <2>1, <2>2, <2>3, <2>4 DEF Next
  <2> QED BY <1>1, <2>5 DEF Whole
<1> QED BY <1>2, <1>3

\* Whole is an invariant of relocation.
THEOREM Sound == Spec => []Whole
BY WholeInit, WholeNext, PTL DEF Spec

\* Every variable has its type, whatever the groups, the tables and the requests.
THEOREM TypeCorrect == Spec => []TypeOK
<1>1. ASSUME Whole PROVE TypeOK
  <2>1. FlagInv /\ RequestInv /\ StoreType /\ ListInv
    BY <1>1 DEF Whole, StoreInv, Inv
  <2>2. app.bad \subseteq Sectors
    BY <2>1, RequestPlaces DEF RequestInv
  <2>3. min \in {0, MinSec} /\ max \in {0, MaxSec}
    BY <2>1 DEF FlagInv
  <2>4. /\ app.pc \in {"idle", "lower", "queued", "range", "pointer", "first", "group", "next", "final", "done"}
        /\ app.ok \in BOOLEAN
    BY <2>1 DEF RequestInv, AtWorker, Walk
  <2> QED BY <2>1, <2>2, <2>3, <2>4 DEF TypeOK, FlagInv, ListInv, StoreType, Count
<1> QED BY <1>1, Sound, PTL

\* At every moment of the copying and after it every sector's current place holds
\* what was last written to it, whatever the groups, the tables and the requests.
THEOREM ContentKept == Spec => []KeepsContent
<1>1. ASSUME Whole, ~spoiled, NEW x \in Source \ (unsure \cup InFlight) PROVE disk[Where(x)] = stored[x]
  <2>1. FlagInv /\ DataInv
    BY <1>1 DEF Whole, StoreInv, ContentInv
  <2>2. x \in Source \ Open
    BY <1>1 DEF Open, InFlight, Walk
  <2>3. \A h : h \in ToSet(Groups) <=> \E i \in 1..Count : h = Groups[i]
    <3>1. DOMAIN Groups = 1..Count
      BY RelocateAssumption DEF Count
    <3> QED BY <3>1 DEF ToSet
  <2>4. relocate /\ pointer = max <=> copied = Count
    BY <2>1, GroupFacts DEF FlagInv
  <2>5. CASE copied = Count /\ ~Outside(x)
    <3>1. \E h \in ToSet(Groups) : x \in Span(h)
      BY <2>3, <2>5 DEF Outside, Inside
    <3>2. PICK h : h = CHOOSE f \in ToSet(Groups) : x \in Span(f)
      OBVIOUS
    <3>3. h \in ToSet(Groups) /\ x \in Span(h)
      BY <3>1, <3>2
    <3>4. Where(x) = Target(h, x)
      BY <2>4, <2>5, <3>1, <3>2 DEF Where
    <3>5. PICK i \in 1..Count : h = Groups[i]
      BY <2>3, <3>3
    <3>6. i \in 1..copied /\ relocate /\ x \in Span(Groups[i]) \ Open
      BY <2>2, <2>4, <2>5, <3>3, <3>5
    <3> QED BY <2>1, <3>4, <3>5, <3>6 DEF DataInv, CopyInv
  <2>6. CASE copied = Count /\ Outside(x)
    <3>1. ~\E h \in ToSet(Groups) : x \in Span(h)
      BY <2>3, <2>6 DEF Outside, Inside
    <3>2. Where(x) = x
      BY <3>1 DEF Where
    <3> QED BY <2>1, <2>2, <2>6, <3>2 DEF DataInv, OutsideInv
  <2>7. CASE copied # Count
    <3>1. Where(x) = x
      BY <2>4, <2>7 DEF Where
    <3>2. copied < Count
      BY <2>1, <2>7, GroupFacts DEF FlagInv
    <3> QED BY <2>1, <2>2, <3>1, <3>2 DEF DataInv, PlainInv
  <2> QED BY <2>5, <2>6, <2>7
<1>2. Whole => KeepsContent
  BY <1>1 DEF KeepsContent, Source
<1> QED BY <1>2, Sound, PTL

\* A read that is reported as done returns what was last written, whatever the
\* groups, the tables and the requests.
THEOREM ReadsStored == Spec => []ReadsBack
<1>1. Whole => ReadsBack
  BY DEF Whole, StoreInv, ContentInv, ReadsBack
<1> QED BY <1>1, Sound, PTL

=============================================================================
