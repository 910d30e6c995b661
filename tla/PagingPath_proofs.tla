-------------------------- MODULE PagingPath_proofs --------------------------
(* Theorems about PagingPath, for every finite set of notifying threads.   *)
EXTENDS PagingPath, FiniteSetTheorems, TLAPS

\* Notifications that may still change the count, by what they bring.
Coming == {t \in Notifiers : pc[t] \in {"wait", "down", "lower"} /\ inPath[t]}
Going  == {t \in Notifiers : pc[t] \in {"wait", "down", "lower"} /\ ~inPath[t]}

\* The types without the bounds of the counts.
Types ==
  /\ pc \in [Notifiers -> {"idle", "wait", "down", "lower", "up", "set"}]
  /\ inPath \in [Notifiers -> BOOLEAN] /\ setPagable \in [Notifiers -> BOOLEAN]
  /\ event \in BOOLEAN /\ pagable \in BOOLEAN /\ overlapped \in BOOLEAN
  /\ count \in Int /\ files = count

\* Whatever is under way, the count stays within its bounds.
Room == files + Cardinality(Coming) <= MaxFiles /\ files - Cardinality(Going) >= 0

CountInv == Types /\ Room

-----------------------------------------------------------------------------
(* Sets of notifications.                                                  *)

\* The two sets are finite.
LEMMA CountsFinite ==
  /\ IsFiniteSet(Coming) /\ IsFiniteSet(Going)
  /\ Cardinality(Coming) \in Nat /\ Cardinality(Going) \in Nat
<1>1. Coming \subseteq Notifiers /\ Going \subseteq Notifiers
  BY DEF Coming, Going
<1>2. IsFiniteSet(Coming) /\ IsFiniteSet(Going)
  BY <1>1, PagingAssumption, FS_Subset
<1> QED BY <1>2, FS_CardinalityType

\* CountInv implies the type invariant.
LEMMA CountBounds == CountInv => TypeOK
<1> SUFFICES ASSUME CountInv PROVE TypeOK
  OBVIOUS
<1>1. count <= MaxFiles /\ count >= 0
  BY CountsFinite, PagingAssumption DEF CountInv, Types, Room
<1> QED BY <1>1, PagingAssumption DEF CountInv, Types, TypeOK

\* Nobody is under way at first.
LEMMA CountInit == Init => CountInv
<1> SUFFICES ASSUME Init PROVE CountInv
  OBVIOUS
<1>1. Coming = {} /\ Going = {}
  BY DEF Init, Coming, Going
<1>2. Cardinality(Coming) = 0 /\ Cardinality(Going) = 0
  BY <1>1, FS_EmptySet
<1>3. event \in BOOLEAN /\ pagable \in BOOLEAN /\ overlapped \in BOOLEAN
  BY DEF Init
<1>4. count \in Int /\ files = count
  BY DEF Init
<1>5. Types
  BY <1>3, <1>4 DEF Init, Types
<1> QED BY <1>2, <1>5, PagingAssumption DEF Init, CountInv, Room

\* The types are kept, and so is that the two counts agree.
LEMMA TypesNext == Types /\ [Next]_vars => Types'
<1> SUFFICES ASSUME Types, [Next]_vars PROVE Types'
  OBVIOUS
<1> USE DEF Types, Goto
<1>1. ASSUME NEW t \in Notifiers, NEW in \in BOOLEAN, Notify(t, in) PROVE Types'
  BY <1>1 DEF Notify
<1>2. ASSUME NEW t \in Notifiers, Wait(t) PROVE Types'
  BY <1>2 DEF Wait
<1>3. ASSUME NEW t \in Notifiers, Down(t) PROVE Types'
  BY <1>3 DEF Down
<1>4. ASSUME NEW t \in Notifiers, LowerOk(t) PROVE Types'
  BY <1>4 DEF LowerOk
<1>5. ASSUME NEW t \in Notifiers, Up(t) PROVE Types'
  BY <1>5 DEF Up
<1>6. ASSUME NEW t \in Notifiers, LowerFail(t) PROVE Types'
  BY <1>6 DEF LowerFail
<1>7. ASSUME NEW t \in Notifiers, SetEvent(t) PROVE Types'
  BY <1>7 DEF SetEvent
<1>8. CASE UNCHANGED vars
  BY <1>8 DEF vars
<1> QED BY <1>1, <1>2, <1>3, <1>4, <1>5, <1>6, <1>7, <1>8 DEF Next

\* A notification that is let in has room: those under way that were counted
\* against it include all that may still change the count.
LEMMA RoomNotify ==
  ASSUME CountInv, NEW t \in Notifiers, NEW in \in BOOLEAN, Notify(t, in)
  PROVE  Room'
<1> DEFINE Busy(d) == {u \in Notifiers : pc[u] # "idle" /\ inPath[u] = d}
<1>1. IsFiniteSet(Busy(TRUE)) /\ IsFiniteSet(Busy(FALSE))
  BY PagingAssumption, FS_Subset
<1>2. Coming \subseteq Busy(TRUE) /\ Going \subseteq Busy(FALSE)
  BY DEF Coming, Going, CountInv, Types
<1>3. /\ Cardinality(Coming) <= Cardinality(Busy(TRUE))
      /\ Cardinality(Going) <= Cardinality(Busy(FALSE))
      /\ Cardinality(Busy(TRUE)) \in Nat /\ Cardinality(Busy(FALSE)) \in Nat
  BY <1>1, <1>2, FS_Subset, FS_CardinalityType
<1>4. t \notin Coming /\ t \notin Going
  BY DEF Notify, Coming, Going
<1>5. CASE in
  <2>1. Coming' = Coming \cup {t} /\ Going' = Going
    BY <1>5 DEF Notify, Goto, Coming, Going, CountInv, Types
  <2>2. Cardinality(Coming') = Cardinality(Coming) + 1
    BY <2>1, <1>4, CountsFinite, FS_AddElement
  <2>3. files + Cardinality(Busy(TRUE)) < MaxFiles /\ files' = files
    BY <1>5 DEF Notify
  <2> QED BY <2>1, <2>2, <2>3, <1>3, CountsFinite, PagingAssumption DEF CountInv, Types, Room
<1>6. CASE ~in
  <2>1. Going' = Going \cup {t} /\ Coming' = Coming
    BY <1>6 DEF Notify, Goto, Coming, Going, CountInv, Types
  <2>2. Cardinality(Going') = Cardinality(Going) + 1
    BY <2>1, <1>4, CountsFinite, FS_AddElement
  <2>3. files - Cardinality(Busy(FALSE)) > 0 /\ files' = files
    BY <1>6 DEF Notify
  <2> QED BY <2>1, <2>2, <2>3, <1>3, CountsFinite, PagingAssumption DEF CountInv, Types, Room
<1> QED BY <1>5, <1>6

\* A notification that the lower driver has answered leaves its set.
LEMMA RoomLower ==
  ASSUME CountInv, NEW t \in Notifiers, LowerOk(t) \/ LowerFail(t)
  PROVE  Room'
<1>1. files' = (IF LowerOk(t) THEN files + (IF inPath[t] THEN 1 ELSE -1) ELSE files)
  BY DEF LowerOk, LowerFail
<1>2. CASE inPath[t]
  <2>1. t \in Coming /\ Coming' = Coming \ {t} /\ Going' = Going
    BY <1>2 DEF LowerOk, LowerFail, Goto, Coming, Going, CountInv, Types
  <2>2. Cardinality(Coming') = Cardinality(Coming) - 1
    BY <2>1, CountsFinite, FS_RemoveElement
  <2> QED BY <1>1, <1>2, <2>1, <2>2, CountsFinite, PagingAssumption DEF CountInv, Types, Room
<1>3. CASE ~inPath[t]
  <2>1. t \in Going /\ Going' = Going \ {t} /\ Coming' = Coming
    BY <1>3 DEF LowerOk, LowerFail, Goto, Coming, Going, CountInv, Types
  <2>2. Cardinality(Going') = Cardinality(Going) - 1
    BY <2>1, CountsFinite, FS_RemoveElement
  <2> QED BY <1>1, <1>3, <2>1, <2>2, CountsFinite, PagingAssumption DEF CountInv, Types, Room
<1> QED BY <1>2, <1>3

\* No step of a notification takes the count out of its bounds.
LEMMA CountNext == CountInv /\ [Next]_vars => CountInv'
<1> SUFFICES ASSUME CountInv, [Next]_vars PROVE CountInv'
  OBVIOUS
<1>1. Types'
  BY TypesNext DEF CountInv
<1>2. ASSUME Coming' = Coming, Going' = Going, files' = files PROVE Room'
  BY <1>2 DEF CountInv, Room
<1>3. ASSUME NEW t \in Notifiers, Wait(t) \/ Down(t) \/ Up(t) \/ SetEvent(t) PROVE Room'
  <2>1. Coming' = Coming /\ Going' = Going
    BY <1>3 DEF Wait, Down, Up, SetEvent, Goto, Coming, Going, CountInv, Types
  <2>2. files' = files
    BY <1>3 DEF Wait, Down, Up, SetEvent
  <2> QED BY <1>2, <2>1, <2>2
<1>4. CASE UNCHANGED vars
  <2>1. Coming' = Coming /\ Going' = Going
    BY <1>4 DEF vars, Coming, Going
  <2>2. files' = files
    BY <1>4 DEF vars
  <2> QED BY <1>1, <1>2, <2>1, <2>2 DEF CountInv
<1> QED BY <1>1, <1>3, <1>4, RoomNotify, RoomLower DEF CountInv, Next

\* Every variable keeps its type: the count of paging files stays between 0 and
\* the number that was let in, however notifications overlap.
THEOREM TypeCorrect == Spec => []TypeOK
<1>1. Init => CountInv
  BY CountInit
<1>2. CountInv /\ [Next]_vars => CountInv'
  BY CountNext
<1>3. CountInv => TypeOK
  BY CountBounds
<1> QED BY <1>1, <1>2, <1>3, PTL DEF Spec

-----------------------------------------------------------------------------
(* The flag, when notifications follow each other.                         *)

\* What the flag says while the notification of t is at one of its steps: its
\* own doing apart, the same as before.
FlagAt(t) ==
  CASE pc[t] = "lower" -> /\ pagable <=> (count = 0 \/ setPagable[t])
                          /\ setPagable[t] <=> (~inPath[t] /\ count = 1)
    [] pc[t] = "up"    -> /\ inPath[t] => count >= 1
                          /\ pagable <=> IF inPath[t] THEN count = 1 ELSE count = 0
    [] OTHER           -> pagable <=> count = 0

\* One at a time is past the wait, and the flag is right for where it is.
FlagInv ==
  ~overlapped =>
    /\ \A t, u \in Inside : t = u
    /\ Inside = {} => (pagable <=> count = 0)
    /\ \A t \in Inside : FlagAt(t)

\* A step that stays past the wait is one of the only notification there.
LEMMA FlagInside ==
  ASSUME TypeOK, TypeOK', FlagInv, NEW t \in Notifiers,
         Down(t) \/ LowerOk(t) \/ Up(t) \/ LowerFail(t)
  PROVE  FlagInv'
<1> SUFFICES ASSUME ~overlapped PROVE FlagInv'
  BY DEF FlagInv, Down, LowerOk, Up, LowerFail
<1>1. t \in Inside /\ Inside' = Inside
  BY DEF Inside, Down, LowerOk, Up, LowerFail, Goto, TypeOK
<1>2. \A u \in Inside : u = t
  BY <1>1 DEF FlagInv
<1>3. FlagAt(t)
  BY <1>1 DEF FlagInv
<1>4. FlagAt(t)'
  <2>1. CASE Down(t)
    BY <1>3, <2>1, PagingAssumption DEF FlagAt, Down, Goto, TypeOK
  <2>2. CASE LowerOk(t)
    BY <1>3, <2>2, PagingAssumption DEF FlagAt, LowerOk, Goto, TypeOK
  <2>3. CASE Up(t)
    BY <1>3, <2>3, PagingAssumption DEF FlagAt, Up, Goto, TypeOK
  <2>4. CASE LowerFail(t)
    BY <1>3, <2>4, PagingAssumption DEF FlagAt, LowerFail, Goto, TypeOK
  <2> QED BY <2>1, <2>2, <2>3, <2>4
<1> QED BY <1>1, <1>2, <1>4 DEF FlagInv

\* Nobody is inside when a notification comes in without a meeting, and nobody
\* is when it leaves.
LEMMA FlagDoor ==
  ASSUME TypeOK, FlagInv, NEW t \in Notifiers, Wait(t) \/ SetEvent(t)
  PROVE  FlagInv'
<1> SUFFICES ASSUME ~overlapped' PROVE FlagInv'
  BY DEF FlagInv
<1>1. ~overlapped
  BY DEF Wait, SetEvent
<1>2. CASE Wait(t)
  <2>1. Inside = {} /\ Inside' = {t}
    BY <1>2 DEF Inside, Wait, Goto, TypeOK
  <2>2. pagable <=> count = 0
    BY <1>1, <2>1 DEF FlagInv
  <2>3. FlagAt(t)'
    BY <1>2, <2>2 DEF FlagAt, Wait, Goto, TypeOK
  <2> QED BY <2>1, <2>3 DEF FlagInv
<1>3. CASE SetEvent(t)
  <2>1. t \in Inside /\ Inside' = Inside \ {t}
    BY <1>3 DEF Inside, SetEvent, Goto, TypeOK
  <2>2. Inside' = {} /\ FlagAt(t)
    BY <1>1, <2>1 DEF FlagInv
  <2>3. pagable' <=> count' = 0
    BY <1>3, <2>2 DEF FlagAt, SetEvent
  <2> QED BY <2>2, <2>3 DEF FlagInv
<1> QED BY <1>2, <1>3

LEMMA FlagNext == TypeOK /\ TypeOK' /\ FlagInv /\ [Next]_vars => FlagInv'
<1> SUFFICES ASSUME TypeOK, TypeOK', FlagInv, [Next]_vars PROVE FlagInv'
  OBVIOUS
<1>1. ASSUME NEW t \in Notifiers, NEW in \in BOOLEAN, Notify(t, in) PROVE FlagInv'
  <2>1. Inside' = Inside /\ t \notin Inside
    BY <1>1 DEF Inside, Notify, Goto, TypeOK
  <2>2. \A u \in Inside : FlagAt(u) => FlagAt(u)'
    BY <1>1, <2>1 DEF Inside, FlagAt, Notify, Goto, TypeOK
  <2> QED BY <1>1, <2>1, <2>2 DEF FlagInv, Notify
<1>2. CASE UNCHANGED vars
  BY <1>2 DEF vars, FlagInv, FlagAt, Inside
<1> QED BY <1>1, <1>2, FlagInside, FlagDoor DEF Next

\* As long as no two notifications have been past the wait together the device
\* is pagable exactly when no paging file is below it, for any number of threads
\* and files and whatever the lower driver answers (BlkMovDispatchPnp).
THEOREM FlagAgrees == Spec => []PagableUnlessOverlapped
<1>1. Init => FlagInv
  BY DEF Init, FlagInv, Inside
<1>2. TypeOK /\ TypeOK' /\ FlagInv /\ [Next]_vars => FlagInv'
  BY FlagNext
<1>3. FlagInv => PagableUnlessOverlapped
  BY DEF FlagInv, PagableUnlessOverlapped
<1> QED BY <1>1, <1>2, <1>3, TypeCorrect, PTL DEF Spec

=============================================================================
