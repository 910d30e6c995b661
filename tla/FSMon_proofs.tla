---------------------------- MODULE FSMon_proofs ----------------------------
(* Theorems about FSMon, for any number of threads, objects, files and     *)
(* nodes of the lists.                                                     *)
EXTENDS FSMon, FiniteSetTheorems, WellFoundedInduction, TLAPS

-----------------------------------------------------------------------------
(* Walks along lists.                                                      *)

Less == {p \in Nat \X Nat : p[1] < p[2]}

\* A set of numbers has a least one.
LEMMA Smallest ==
  ASSUME NEW T, T \subseteq Nat, T # {}
  PROVE  \E x \in T : \A y \in T : x <= y
<1>1. IsWellFoundedOn(Less, Nat)
  BY NatLessThanWellFounded DEF OpToRel, Less, IsWellFoundedOn
<1>2. PICK x \in T : \A y \in T : ~(<<y, x>> \in Less)
  BY <1>1, WFMin
<1>3. x \in Nat /\ \A y \in Nat : y < x => <<y, x>> \in Less
  BY DEF Less
<1>4. ASSUME NEW y \in T PROVE x <= y
  <2>1. y \in Nat /\ ~(y < x)
    BY <1>2, <1>3
  <2> QED BY <1>3, <2>1
<1> QED BY <1>4

\* What holds at 0, and of a number's successor with it, holds of all numbers.
LEMMA Numbers ==
  ASSUME NEW T, 0 \in T, \A k \in Nat : k \in T => k + 1 \in T
  PROVE  Nat \subseteq T
<1>1. SUFFICES ASSUME Nat \ T # {} PROVE FALSE
  OBVIOUS
<1>2. PICK x \in Nat \ T : \A y \in Nat \ T : x <= y
  BY <1>1, Smallest
<1>3. x - 1 \in Nat /\ x - 1 \notin Nat \ T
  BY <1>2
<1> QED BY <1>2, <1>3

\* A walk starts at its first node and follows the pointers.
LEMMA WalkSteps ==
  ASSUME NEW from, NEW nodes, IsFiniteSet(nodes), NEW next
  PROVE  LET at == Walk(from, nodes, next)
             n  == Cardinality(nodes)
         IN at = [i \in 0..n |-> IF i = 0 THEN from ELSE IF at[i-1] = Nil THEN Nil ELSE next[at[i-1]]]
<1> DEFINE n == Cardinality(nodes)
           Follows(g, k) == g = [i \in 0..k |-> IF i = 0 THEN from ELSE IF g[i-1] = Nil THEN Nil ELSE next[g[i-1]]]
           T == {k \in Nat : \E g : Follows(g, k)}
<1>1. 0 \in T
  <2>1. Follows([i \in 0..0 |-> from], 0)
    OBVIOUS
  <2> QED BY <2>1
<1>2. ASSUME NEW k \in Nat, k \in T PROVE k + 1 \in T
  <2>1. PICK g : Follows(g, k)
    BY <1>2
  <2> DEFINE h == [i \in 0..k+1 |-> IF i <= k THEN g[i] ELSE IF g[k] = Nil THEN Nil ELSE next[g[k]]]
  <2>2. \A i \in 0..k+1 : h[i] = IF i = 0 THEN from ELSE IF h[i-1] = Nil THEN Nil ELSE next[h[i-1]]
    <3> SUFFICES ASSUME NEW i \in 0..k+1
                 PROVE h[i] = IF i = 0 THEN from ELSE IF h[i-1] = Nil THEN Nil ELSE next[h[i-1]]
      OBVIOUS
    <3>1. CASE i = 0
      BY <2>1, <3>1
    <3>2. CASE i # 0 /\ i <= k
      <4>1. i - 1 \in 0..k /\ h[i-1] = g[i-1] /\ h[i] = g[i]
        BY <3>2
      <4> HIDE DEF h
      <4> QED BY <2>1, <3>2, <4>1
    <3>3. CASE i = k + 1
      <4>1. i - 1 = k /\ h[k] = g[k] /\ h[i] = IF g[k] = Nil THEN Nil ELSE next[g[k]]
        BY <3>3
      <4> HIDE DEF h
      <4> QED BY <3>3, <4>1
    <3> QED BY <3>1, <3>2, <3>3
  <2>3. Follows(h, k + 1)
    BY <2>2
  <2> HIDE DEF h
  <2>4. \E f : Follows(f, k + 1)
    BY <2>3
  <2> HIDE DEF Follows
  <2> QED BY <2>4
<1>3. n \in Nat
  BY FS_CardinalityType
<1> HIDE DEF n
<1>4. n \in T
  BY <1>1, <1>2, <1>3, Numbers
<1>5. \E g : Follows(g, n)
  BY <1>4
<1>6. Walk(from, nodes, next) = CHOOSE g : Follows(g, n)
  BY DEF Walk, n
<1>7. Follows(Walk(from, nodes, next), n)
  BY <1>5, <1>6
<1> QED BY <1>7 DEF n

\* s is the list that begins with from: its n nodes are different ones.
IsList(n, s, from, nodes, next) ==
  /\ n \in Nat /\ s \in [1..n -> nodes]
  /\ \A i, j \in 1..n : s[i] = s[j] => i = j
  /\ from = IF n = 0 THEN Nil ELSE s[1]
  /\ \A i \in 1..n : next[s[i]] = IF i = n THEN Nil ELSE s[i+1]

\* The walk along a list visits its nodes, in order, and then nothing.
LEMMA WalkList ==
  ASSUME NEW nodes, IsFiniteSet(nodes), Nil \notin nodes, NEW next, NEW from,
         NEW n, NEW s, IsList(n, s, from, nodes, next)
  PROVE  /\ n \in 0 .. Cardinality(nodes)
         /\ Walk(from, nodes, next) = [i \in 0 .. Cardinality(nodes) |-> IF i < n THEN s[i+1] ELSE Nil]
<1> DEFINE m == Cardinality(nodes)
           at == Walk(from, nodes, next)
<1>1. n \in Nat /\ m \in Nat
  BY FS_CardinalityType DEF IsList
<1>2. n <= m
  <2>1. s \in Injection(1..n, nodes)
    BY DEF IsList, Injection, IsInjective
  <2>2. Cardinality(1..n) <= m
    BY <2>1, FS_Injection
  <2>3. Cardinality(1..n) = n
    BY <1>1, FS_Interval
  <2> QED BY <2>2, <2>3
<1>3. at = [i \in 0..m |-> IF i = 0 THEN from ELSE IF at[i-1] = Nil THEN Nil ELSE next[at[i-1]]]
  BY WalkSteps
<1> DEFINE T == {k \in Nat : k \in 0..m => at[k] = IF k < n THEN s[k+1] ELSE Nil}
<1> HIDE DEF at, m
<1>4. 0 \in T
  BY <1>1, <1>3 DEF IsList
<1>5. ASSUME NEW k \in Nat, k \in T PROVE k + 1 \in T
  <2>1. CASE k + 1 \in 0..m
    <3>1. at[k] = IF k < n THEN s[k+1] ELSE Nil
      BY <1>1, <1>5, <2>1
    <3>2. at[k+1] = IF at[k] = Nil THEN Nil ELSE next[at[k]]
      BY <1>1, <1>3, <2>1
    <3>3. CASE k < n
      <4>1. k + 1 \in 1..n
        BY <1>1, <3>3
      <4>2. s[k+1] \in nodes
        BY <4>1 DEF IsList
      <4>3. next[s[k+1]] = IF k + 1 = n THEN Nil ELSE s[k+1+1]
        BY <4>1 DEF IsList
      <4>4. at[k+1] = IF k + 1 < n THEN s[k+1+1] ELSE Nil
        BY <1>1, <3>1, <3>2, <3>3, <4>2, <4>3
      <4> QED BY <4>4
    <3>4. CASE ~(k < n)
      <4>1. at[k+1] = Nil /\ ~(k + 1 < n)
        BY <1>1, <3>1, <3>2, <3>4
      <4> QED BY <4>1
    <3> QED BY <3>3, <3>4
  <2>2. CASE k + 1 \notin 0..m
    BY <2>2
  <2> QED BY <2>1, <2>2
<1>6. \A k \in 0..m : at[k] = IF k < n THEN s[k+1] ELSE Nil
  <2>1. Nat \subseteq T
    BY <1>4, <1>5, Numbers
  <2>2. \A k \in 0..m : k \in T
    BY <1>1, <2>1
  <2> QED BY <2>2
<1>7. at = [i \in 0..m |-> IF i < n THEN s[i+1] ELSE Nil]
  BY <1>3, <1>6
<1> QED BY <1>1, <1>2, <1>7 DEF at, m

\* Where a search stops that looks for a node in H.
StopsIn(at, H) ==
  {i \in DOMAIN at : /\ at[i] = Nil \/ at[i] \notin live \/ at[i] \in H
                     /\ \A j \in DOMAIN at : j < i =>
                          at[j] # Nil /\ at[j] \in live /\ ~(at[j] \in H)}

\* at walks along the list s of n nodes.
Along(at, m, n, s) == at = [i \in 0..m |-> IF i < n THEN s[i+1] ELSE Nil]

\* A search along a list whose nodes are live stops at the first of the nodes
\* in H, or behind the last node.
LEMMA StopsOnce ==
  ASSUME NEW m \in Nat, NEW n \in 0..m, NEW s, NEW at, NEW H, Nil \notin live,
         \A i \in 1..n : s[i] \in live, Along(at, m, n, s)
  PROVE  \E k \in 0..n :
           /\ StopsIn(at, H) = {k}
           /\ \A j \in 1..k : s[j] \notin H
           /\ k = n \/ s[k+1] \in H
<1>0. at = [i \in 0..m |-> IF i < n THEN s[i+1] ELSE Nil]
  BY DEF Along
<1> DEFINE T == {k \in 0..n : k = n \/ s[k+1] \in H}
<1>1. T \subseteq Nat /\ n \in T
  OBVIOUS
<1>2. PICK k \in T : \A j \in T : k <= j
  <2>1. T # {}
    BY <1>1
  <2> HIDE DEF T
  <2> QED BY <1>1, <2>1, Smallest
<1>3. k \in 0..n /\ (k = n \/ s[k+1] \in H)
  OBVIOUS
<1>4. \A j \in 0..n : j < k => s[j+1] \notin H
  <2> SUFFICES ASSUME NEW j \in 0..n, j < k, s[j+1] \in H PROVE FALSE
    OBVIOUS
  <2>1. j \in T
    OBVIOUS
  <2> QED BY <1>2, <1>3, <2>1
<1> HIDE DEF T
<1>5. \A j \in 1..k : s[j] \notin H
  <2> SUFFICES ASSUME NEW j \in 1..k PROVE s[j] \notin H
    OBVIOUS
  <2>1. j - 1 \in 0..n /\ j - 1 < k /\ j - 1 + 1 = j
    BY <1>3
  <2> QED BY <1>4, <2>1
<1>6. \A j \in 0..m : j < k => at[j] # Nil /\ at[j] \in live /\ at[j] \notin H
  <2> SUFFICES ASSUME NEW j \in 0..m, j < k PROVE at[j] # Nil /\ at[j] \in live /\ at[j] \notin H
    OBVIOUS
  <2>1. j + 1 \in 1..n /\ j \in 0..n /\ at[j] = s[j+1]
    BY <1>0, <1>3
  <2> QED BY <1>4, <2>1
<1>7. at[k] = Nil \/ at[k] \in H
  BY <1>0, <1>3
<1>8. DOMAIN at = 0..m /\ k \in 0..m
  BY <1>0, <1>3
<1> DEFINE S == StopsIn(at, H)
<1>9. k \in S
  BY <1>6, <1>7, <1>8 DEF StopsIn
<1>10. ASSUME NEW i \in S PROVE i = k
  <2>1. i \in 0..m /\ (at[i] = Nil \/ at[i] \notin live \/ at[i] \in H)
    BY <1>8 DEF StopsIn
  <2>2. ~(i < k)
    BY <1>6, <2>1
  <2>3. ~(k < i)
    BY <1>7, <1>8 DEF StopsIn
  <2> QED BY <1>3, <2>1, <2>2, <2>3
<1>11. S = {k}
  BY <1>9, <1>10
<1> QED BY <1>3, <1>5, <1>11

-----------------------------------------------------------------------------
(* The two lists.                                                          *)

\* The table is the list s of n entries, all allocated.
Table(n, s) ==
  IsList(n, s, head, Cells, [c \in Cells |-> cell[c].next]) /\ \A i \in 1..n : s[i] \in live

\* The list of modified files is q, of m records.
Store(m, q) ==
  IsList(m, q, first, Records, [r \in Records |-> record[r].next]) /\ \A i \in 1..m : q[i] \in live

LEMMA NilFree ==
  ASSUME live \subseteq Cells \cup Records
  PROVE  Nil \notin live /\ Nil \notin Cells /\ Nil \notin Records
BY FSMonAssumption

\* What the table finds of object o.
Found(n, s, o) ==
  /\ Lookup(o).bad = FALSE
  /\ \/ Lookup(o).cur = Nil /\ \A i \in 1..n : cell[s[i]].obj # o
     \/ \E i \in 1..n : /\ Lookup(o).cur = s[i] /\ cell[s[i]].obj = o
                        /\ Lookup(o).prev = IF i = 1 THEN Nil ELSE s[i-1]
                        /\ \A j \in 1..i-1 : cell[s[j]].obj # o

\* The table finds the first entry of an object, or none if there is none.
LEMMA LookupList ==
  ASSUME NEW n, NEW s, Table(n, s), live \subseteq Cells \cup Records, NEW o
  PROVE  Found(n, s, o)
<1> SUFFICES /\ Lookup(o).bad = FALSE
             /\ \/ Lookup(o).cur = Nil /\ \A i \in 1..n : cell[s[i]].obj # o
                \/ \E i \in 1..n : /\ Lookup(o).cur = s[i] /\ cell[s[i]].obj = o
                                   /\ Lookup(o).prev = IF i = 1 THEN Nil ELSE s[i-1]
                                   /\ \A j \in 1..i-1 : cell[s[j]].obj # o
  BY DEF Found
<1>h. PICK H : H = {c \in Cells : cell[c].obj = o}
  OBVIOUS
<1>m. PICK m : m = Cardinality(Cells)
  OBVIOUS
<1>a. PICK at : at = Chain
  OBVIOUS
<1>1. m \in Nat /\ IsFiniteSet(Cells) /\ Nil \notin live /\ Nil \notin Cells
  BY <1>m, FSMonAssumption, FS_CardinalityType, NilFree
<1>2. n \in 0..m /\ at = [i \in 0..m |-> IF i < n THEN s[i+1] ELSE Nil]
  BY <1>m, <1>a, <1>1, WalkList DEF Table, Chain
<1>3. n \in Nat /\ \A i \in 1..n : s[i] \in Cells /\ s[i] \in live
  BY DEF Table, IsList
<1>4. PICK k \in 0..n :
           /\ StopsIn(at, H) = {k}
           /\ \A j \in 1..k : s[j] \notin H
           /\ k = n \/ s[k+1] \in H
  <2>1. m \in Nat /\ n \in 0..m /\ Nil \notin live
    BY <1>1, <1>2
  <2>2. \A i \in 1..n : s[i] \in live
    BY <1>3
  <2>3. Along(at, m, n, s)
    BY <1>2 DEF Along
  <2> QED BY <2>1, <2>2, <2>3, StopsOnce
<1>5. \A i \in DOMAIN at : at[i] = Nil \/ at[i] \in Cells
  BY <1>1, <1>2, <1>3
<1>6. Stops(at, LAMBDA c : cell[c].obj = o) = {k}
  BY <1>1, <1>4, <1>5, <1>h DEF Stops, StopsIn
<1>9. k \in Nat /\ k <= n /\ at[k] = IF k < n THEN s[k+1] ELSE Nil
  BY <1>1, <1>2
<1>b. (at[k] # Nil /\ at[k] \notin live) = FALSE
  BY <1>3, <1>9
<1>7. Lookup(o) = LET stop == Stops(at, LAMBDA c : cell[c].obj = o)
                  IN IF stop = {} THEN [bad |-> TRUE, cur |-> Nil, prev |-> Nil]
                     ELSE LET i == CHOOSE i \in stop : TRUE
                          IN [bad |-> at[i] # Nil /\ at[i] \notin live,
                              cur |-> at[i], prev |-> IF i = 0 THEN Nil ELSE at[i-1]]
  BY <1>a DEF Lookup
<1>8. Lookup(o) = [bad |-> at[k] # Nil /\ at[k] \notin live, cur |-> at[k],
                   prev |-> IF k = 0 THEN Nil ELSE at[k-1]]
  <2>1. (CHOOSE i \in {k} : TRUE) = k /\ {k} # {}
    OBVIOUS
  <2> QED BY <1>6, <1>7, <2>1
<1>c. Lookup(o) = [bad |-> FALSE, cur |-> at[k], prev |-> IF k = 0 THEN Nil ELSE at[k-1]]
  BY <1>8, <1>b
<1>10. \A j \in 1..k : cell[s[j]].obj # o
  BY <1>3, <1>4, <1>9, <1>h
<1>11. CASE k = n
  BY <1>c, <1>9, <1>10, <1>11
<1>12. CASE k < n
  <2>1. k + 1 \in 1..n /\ at[k] = s[k+1] /\ s[k+1] \in H /\ s[k+1] \in live
    BY <1>3, <1>4, <1>9, <1>12
  <2>4. cell[s[k+1]].obj = o
    BY <2>1, <1>h
  <2>2. (IF k = 0 THEN Nil ELSE at[k-1]) = IF k + 1 = 1 THEN Nil ELSE s[k+1-1]
    BY <1>1, <1>2, <1>9, <1>12
  <2>3. \A j \in 1..(k + 1) - 1 : cell[s[j]].obj # o
    BY <1>9, <1>10
  <2> QED BY <1>c, <2>1, <2>2, <2>3, <2>4
<1>13. k = n \/ k < n
  BY <1>3, <1>9
<1> QED BY <1>11, <1>12, <1>13

-----------------------------------------------------------------------------
(* Types.                                                                  *)

ClearLabels == {"clear", "clearcell", "clearall", "clearstore", "clearrecord"}
CellLabels  == {"log", "push", "unlink", "record", "append", "free", "clearcell"}
Labels == ClearLabels \cup CellLabels \cup {"idle", "lookup", "parse", "setflag", "find", "lower"}

Context ==
  [pc : Labels, call : AllCalls \cup {"none"}, obj : Objects \cup {Nil}, to : Names \cup {Nil},
   seen : BOOLEAN, cur : Cells \cup Records \cup {Nil}, prev : Cells \cup Records \cup {Nil},
   new : Records \cup {Nil}, done : BOOLEAN]

\* What a thread holds in each part of a call.
Sound(c) ==
  /\ c.pc \in CellLabels => c.cur \in Cells
  /\ c.pc = "clearrecord" => c.cur \in Records
  /\ c.pc = "unlink" => c.prev \in Cells \cup {Nil}
  /\ c.pc = "append" => c.new \in Records /\ c.prev \in Records \cup {Nil}
  /\ c.pc \in ClearLabels => c.call = "clear"
  /\ c.pc \notin ClearLabels \cup {"idle"} => c.call \notin {"clear", "none"} /\ c.obj \in Objects
  /\ c.call = "rename" => c.to \in Names
  /\ c.pc = "parse" => c.call = "rename"
  /\ c.pc = "lookup" => c.call # "rename"
  /\ c.pc = "setflag" => c.call \in {"write", "fastwrite"}

ThreadType == th \in [Threads -> Context] /\ \A t \in Threads : Sound(th[t])

Types == {"NORMAL", "RENAME", "MODIFIED"}

ListType ==
  /\ head \in Cells \cup {Nil} /\ first \in Records \cup {Nil}
  /\ live \subseteq Cells \cup Records
  /\ cell \in [Cells -> [next : Cells \cup {Nil}, obj : Objects \cup {Nil},
                         name : Names \cup {Nil}, type : Types]]
  /\ record \in [Records -> [next : Records \cup {Nil}, name : Names \cup {Nil}, type : Types]]
  /\ agent \in [pc : {"idle", "pop", "copy", "encrypt"}, cur : Records \cup {Nil},
                name : Names \cup {Nil}, type : Types]
  /\ agent.pc \in {"pop", "copy"} => agent.cur \in Records

InCall(t) == th[t].pc # "idle" /\ th[t].call # "clear"

\* The states of an object during a call on it.
States(call) ==
  CASE call = "create" -> {"opening"} [] call = "close" -> {"cleaned"} [] OTHER -> {"open", "cleaned"}

FileType ==
  file \in [Objects -> [state : {"free", "opening", "open", "cleaned"},
                        name : Names \cup {Nil}, opened : Names \cup {Nil}]]

\* An object in use has a name; nothing else happens to an object during a
\* create or a close of it.
FileInv ==
  /\ FileType
  /\ \A o \in Objects : file[o].state # "free" => file[o].name \in Names /\ file[o].opened \in Names \cup {Nil}
  /\ \A t \in Threads : InCall(t) => file[th[t].obj].state \in States(th[t].call)
  /\ \A t, u \in Threads :
       InCall(t) /\ InCall(u) /\ t # u /\ th[t].call \in {"create", "close"} => th[t].obj # th[u].obj

TypeInv == ThreadType /\ ListType /\ FileInv /\ dirty \subseteq Names /\ calls \in 0..MaxCalls

\* A walk stays in its list.
LEMMA WalkType ==
  ASSUME NEW nodes, IsFiniteSet(nodes), NEW from \in nodes \cup {Nil},
         NEW next \in [nodes -> nodes \cup {Nil}]
  PROVE  Walk(from, nodes, next) \in [0..Cardinality(nodes) -> nodes \cup {Nil}]
<1> DEFINE at == Walk(from, nodes, next)
           m == Cardinality(nodes)
           T == {k \in Nat : k \in 0..m => at[k] \in nodes \cup {Nil}}
<1>1. at = [i \in 0..m |-> IF i = 0 THEN from ELSE IF at[i-1] = Nil THEN Nil ELSE next[at[i-1]]]
  BY WalkSteps
<1>2. m \in Nat
  BY FS_CardinalityType
<1> HIDE DEF at, m
<1>3. 0 \in T
  BY <1>1, <1>2
<1>4. ASSUME NEW k \in Nat, k \in T PROVE k + 1 \in T
  <2>1. CASE k + 1 \in 0..m
    <3>1. k \in 0..m /\ at[k] \in nodes \cup {Nil}
      BY <1>2, <1>4, <2>1
    <3>2. at[k+1] = IF at[k] = Nil THEN Nil ELSE next[at[k]]
      BY <1>1, <1>2, <2>1
    <3> QED BY <3>1, <3>2
  <2>2. CASE k + 1 \notin 0..m
    BY <2>2
  <2> QED BY <2>1, <2>2
<1>5. \A k \in 0..m : k \in T
  <2>1. Nat \subseteq T
    BY <1>3, <1>4, Numbers
  <2> QED BY <1>2, <2>1
<1>6. at \in [0..m -> nodes \cup {Nil}]
  BY <1>1, <1>5
<1> QED BY <1>6 DEF at, m

LEMMA LookupType ==
  ASSUME ListType, NEW o
  PROVE  /\ Lookup(o).bad \in BOOLEAN /\ Lookup(o).cur \in Cells \cup {Nil}
         /\ Lookup(o).prev \in Cells \cup {Nil}
<1>a. PICK at : at = Chain
  OBVIOUS
<1>m. PICK m : m = Cardinality(Cells)
  OBVIOUS
<1>1. m \in Nat /\ at \in [0..m -> Cells \cup {Nil}]
  <2>1. [c \in Cells |-> cell[c].next] \in [Cells -> Cells \cup {Nil}]
    BY DEF ListType
  <2> QED BY <1>a, <1>m, <2>1, WalkType, FSMonAssumption, FS_CardinalityType DEF ListType, Chain
<1>p. PICK stop : stop = Stops(at, LAMBDA c : cell[c].obj = o)
  OBVIOUS
<1>2. stop \subseteq 0..m
  BY <1>1, <1>p DEF Stops
<1>3. Lookup(o) = IF stop = {} THEN [bad |-> TRUE, cur |-> Nil, prev |-> Nil]
                  ELSE LET i == CHOOSE i \in stop : TRUE
                       IN [bad |-> at[i] # Nil /\ at[i] \notin live,
                           cur |-> at[i], prev |-> IF i = 0 THEN Nil ELSE at[i-1]]
  BY <1>a, <1>p DEF Lookup
<1>4. CASE stop = {}
  BY <1>3, <1>4
<1>5. CASE stop # {}
  <2>1. PICK i : i = CHOOSE x \in stop : TRUE
    OBVIOUS
  <2>2. i \in 0..m
    BY <1>2, <1>5, <2>1
  <2>3. at[i] \in Cells \cup {Nil} /\ (IF i = 0 THEN Nil ELSE at[i-1]) \in Cells \cup {Nil}
    BY <1>1, <2>2
  <2>4. Lookup(o) = [bad |-> at[i] # Nil /\ at[i] \notin live, cur |-> at[i],
                     prev |-> IF i = 0 THEN Nil ELSE at[i-1]]
    BY <1>3, <1>5, <2>1
  <2> QED BY <2>3, <2>4
<1> QED BY <1>4, <1>5

LEMMA RecordOfType ==
  ASSUME ListType, NEW n, NEW i \in RecordOf(n)
  PROVE  Queue[i] \in Records \cup {Nil} /\ (IF i = 0 THEN Nil ELSE Queue[i-1]) \in Records \cup {Nil}
<1>m. PICK m : m = Cardinality(Records)
  OBVIOUS
<1>1. m \in Nat /\ Queue \in [0..m -> Records \cup {Nil}]
  <2>1. [r \in Records |-> record[r].next] \in [Records -> Records \cup {Nil}]
    BY DEF ListType
  <2> QED BY <1>m, <2>1, WalkType, FSMonAssumption, FS_CardinalityType DEF ListType, Queue
<1>2. i \in 0..m
  BY <1>1 DEF RecordOf, Stops
<1> QED BY <1>1, <1>2

LEMMA InitType == Init => TypeInv
<1> SUFFICES ASSUME Init PROVE TypeInv
  OBVIOUS
<1>1. ThreadType
  BY FSMonAssumption DEF Init, ThreadType, Context, Sound, Idle, Labels, CellLabels, ClearLabels, AllCalls
<1>2. ListType
  BY DEF Init, ListType, Types, Resting, FreeCell, FreeRecord
<1>3. FileType
  BY DEF Init, FileType, NoFile
<1>4. ASSUME NEW o \in Objects, file[o].state # "free" PROVE file[o].name \in Names /\ file[o].opened \in Names \cup {Nil}
  BY <1>4 DEF Init, NoFile
<1>5. \A t \in Threads : ~InCall(t)
  BY DEF Init, InCall, Idle
<1>6. FileInv
  BY <1>3, <1>4, <1>5 DEF FileInv
<1> QED BY <1>1, <1>2, <1>6, FSMonAssumption DEF Init, TypeInv

\* A thread that goes on to a sound context leaves the others as they are.
LEMMA SetType ==
  ASSUME ThreadType, NEW t \in Threads, NEW c \in Context, Sound(c), Set(t, c)
  PROVE  ThreadType' /\ th'[t] = c /\ \A u \in Threads \ {t} : th'[u] = th[u]
<1>1. th' = [th EXCEPT ![t] = c]
  BY DEF Set
<1>2. th' \in [Threads -> Context] /\ th'[t] = c /\ \A u \in Threads \ {t} : th'[u] = th[u]
  BY <1>1 DEF ThreadType
<1>3. \A u \in Threads : Sound(th'[u])
  BY <1>2 DEF ThreadType
<1> QED BY <1>2, <1>3 DEF ThreadType, Sound

LEMMA IdleType == Idle \in Context /\ Sound(Idle)
BY FSMonAssumption DEF Context, Sound, Idle, Labels, CellLabels, ClearLabels, AllCalls

LEMMA CallNames ==
  /\ \A call \in {"write", "fastwrite"} : Named(call) = "setflag"
  /\ \A call \in {"cleanup", "close"} : Named(call) = "find"
  /\ Named("create") = "lower"
  /\ \A call \in {"create", "close"} : Unnamed(call) = "find"
  /\ \A call \in {"write", "cleanup"} : Unnamed(call) = "lower"
  /\ Unnamed("fastwrite") = "idle"
BY DEF Named, Unnamed

\* A call goes on to a part that holds nothing, or holds a cell.
LEMMA Moves ==
  ASSUME NEW c \in Context, Sound(c), c.pc \notin ClearLabels \cup {"idle"}, NEW d \in Context,
         d.call = c.call, d.obj = c.obj, d.to = c.to,
         \/ d.pc \in {"find", "lower"}
         \/ d.pc = "setflag" /\ d.call \in {"write", "fastwrite"}
         \/ d.pc \in CellLabels \ {"clearcell", "unlink", "append"} /\ d.cur \in Cells
  PROVE  Sound(d)
BY DEF Sound, CellLabels, ClearLabels

\* Where a call is after Log.
LEMMA LogType ==
  ASSUME ThreadType, ListType, NEW t \in Threads, th[t].pc \in {"lookup", "parse"},
         NEW n \in Names \cup {Nil}, NEW type \in Types,
         NEW l \in {"find", "lower", "idle"}, Log(t, n, type, l)
  PROVE  ThreadType' /\ \A u \in Threads \ {t} : th'[u] = th[u]
<1>1. th[t] \in Context /\ Sound(th[t])
  BY DEF ThreadType
<1>2. CASE Pass(t, l)
  <2>1. CASE l = "idle"
    BY <1>2, <2>1, IdleType, SetType DEF Pass
  <2>2. CASE l # "idle"
    <3> DEFINE c == [th[t] EXCEPT !.pc = l, !.seen = FALSE]
    <3>3. /\ c \in Context /\ c.call = th[t].call /\ c.obj = th[t].obj /\ c.to = th[t].to
          /\ c.pc \in {"find", "lower"}
      <4>1. th[t] \in Context /\ l \in Labels /\ FALSE \in BOOLEAN
        BY <1>1, <2>2 DEF Labels
      <4> QED BY <2>2, <4>1 DEF Context
    <3>4. th[t].pc \notin ClearLabels \cup {"idle"}
      BY DEF ClearLabels
    <3>1. c \in Context /\ Sound(c)
      BY <1>1, <3>3, <3>4, Moves
    <3>2. Set(t, c)
      BY <1>2, <2>2 DEF Pass
    <3> HIDE DEF c
    <3> QED BY <3>1, <3>2, SetType
  <2> QED BY <2>1, <2>2
<1>3. ASSUME NEW x \in Cells, Set(t, [th[t] EXCEPT !.pc = "log", !.cur = x])
      PROVE  ThreadType' /\ \A u \in Threads \ {t} : th'[u] = th[u]
  <2> DEFINE c == [th[t] EXCEPT !.pc = "log", !.cur = x]
  <2>3. /\ c \in Context /\ c.call = th[t].call /\ c.obj = th[t].obj /\ c.to = th[t].to
        /\ c.pc \in CellLabels \ {"clearcell", "unlink", "append"} /\ c.cur \in Cells
    BY <1>1 DEF Context, Labels, CellLabels
  <2>4. th[t].pc \notin ClearLabels \cup {"idle"}
    BY DEF ClearLabels
  <2>1. c \in Context /\ Sound(c)
    BY <1>1, <2>3, <2>4, Moves
  <2>2. Set(t, c)
    BY <1>3
  <2> HIDE DEF c
  <2> QED BY <2>1, <2>2, SetType
<1> QED BY <1>2, <1>3 DEF Log

\* A record is not made, or found, or made; n is the file and i where the search stops.
NoRecord(t, n, i) ==
  /\ UNCHANGED <<th, live, record, excused>> /\ corrupt' = TRUE
  /\ RecordOf(n) = {} \/ Queue[i] \notin live \cup {Nil} \/ th[t].cur \notin live
OldRecord(t, n, i) ==
  /\ RecordOf(n) # {} /\ Queue[i] # Nil /\ Queue[i] \in live
  /\ record' = Merge(Queue[i], cell[th[t].cur].type)
  /\ Goto(t, "free") /\ UNCHANGED <<corrupt, live, excused>>
NewRecord(t, n, i, r) ==
  /\ RecordOf(n) # {} /\ Queue[i] = Nil
  /\ live' = live \cup {r}
  /\ record' = [record EXCEPT ![r] = [next |-> Nil, name |-> n, type |-> cell[th[t].cur].type]]
  /\ Set(t, [th[t] EXCEPT !.pc = "append", !.new = r, !.prev = IF i = 0 THEN Nil ELSE Queue[i-1]])
  /\ UNCHANGED <<corrupt, excused>>

LEMMA RecordCases ==
  ASSUME NEW t, AddConvertRecord(t)
  PROVE  \E n, i : /\ n = cell[th[t].cur].name
                   /\ RecordOf(n) # {} => i \in RecordOf(n)
                   /\ \/ Excuse({n}) /\ Goto(t, "free") /\ UNCHANGED <<corrupt, live, record>>
                      \/ NoRecord(t, n, i) \/ OldRecord(t, n, i)
                      \/ \E r \in Records \ live : NewRecord(t, n, i, r)
<1> DEFINE n == cell[th[t].cur].name
           i == CHOOSE i \in RecordOf(n) : TRUE
           free == Records \ live
<1>3. RecordOf(n) # {} => i \in RecordOf(n)
  OBVIOUS
<1>4. IF free = {}
        THEN /\ Excuse({n}) /\ Goto(t, "free") /\ UNCHANGED <<corrupt, live, record>>
        ELSE IF RecordOf(n) = {} \/ Queue[i] \notin live \cup {Nil} \/ th[t].cur \notin live
        THEN corrupt' = TRUE /\ UNCHANGED <<th, live, record, excused>>
        ELSE IF Queue[i] # Nil
        THEN /\ record' = Merge(Queue[i], cell[th[t].cur].type)
             /\ Goto(t, "free") /\ UNCHANGED <<corrupt, live, excused>>
        ELSE \E r \in free :
             /\ live' = live \cup {r}
             /\ record' = [record EXCEPT ![r] = [next |-> Nil, name |-> n, type |-> cell[th[t].cur].type]]
             /\ Set(t, [th[t] EXCEPT !.pc = "append", !.new = r,
                                     !.prev = IF i = 0 THEN Nil ELSE Queue[i-1]])
             /\ UNCHANGED <<corrupt, excused>>
  BY Zenon DEF AddConvertRecord
<1>1. n = cell[th[t].cur].name
  OBVIOUS
<1> HIDE DEF n, i
<1>5. \/ Excuse({n}) /\ Goto(t, "free") /\ UNCHANGED <<corrupt, live, record>>
      \/ NoRecord(t, n, i) \/ OldRecord(t, n, i)
      \/ \E r \in Records \ live : NewRecord(t, n, i, r)
  BY <1>4 DEF NoRecord, OldRecord, NewRecord
<1> QED BY <1>1, <1>3, <1>5

LEMMA ThreadStep ==
  ASSUME ThreadType, ListType, FileInv, NEW t \in Threads, Thread(t)
  PROVE  ThreadType' /\ \A u \in Threads \ {t} : th'[u] = th[u]
<1> DEFINE Goal == ThreadType' /\ \A u \in Threads \ {t} : th'[u] = th[u]
<1>t. th[t] \in Context /\ Sound(th[t])
  BY DEF ThreadType
<1>s. ASSUME NEW c \in Context, Sound(c), Set(t, c) PROVE Goal
  BY <1>s, SetType
<1>i. ASSUME Set(t, Idle) PROVE Goal
  BY <1>i, <1>s, IdleType
<1> HIDE DEF Goal
<1>1. ASSUME NEW call \in Calls, NEW o \in Objects, NEW to \in Names \cup {Nil}, NEW excl \in BOOLEAN,
             Begin(t, call, o, to, excl)
      PROVE  Goal
  <2>0. call \in AllCalls \ {"clear"} /\ (call = "rename" => to \in Names)
    BY <1>1, FSMonAssumption DEF Begin, May
  <2> DEFINE seen == working /\ ~excl
             c == [pc |-> IF call = "rename" THEN "parse"
                            ELSE IF seen THEN "lookup" ELSE Unnamed(call),
                     call |-> call, obj |-> o, to |-> to, seen |-> seen /\ call \in {"write", "rename"},
                     cur |-> Nil, prev |-> Nil, new |-> Nil, done |-> FALSE]
  <2>1. CASE call = "fastwrite" /\ ~seen
    BY <1>1, <1>i, <2>1 DEF Begin
  <2>2. CASE ~(call = "fastwrite" /\ ~seen)
    <3>1. Set(t, c)
      BY <1>1, <2>2 DEF Begin
    <3>2. c.pc \in {"parse", "lookup", "find", "lower"}
      BY <2>0, <2>2, CallNames DEF AllCalls
    <3>4. c.call = call /\ c.obj = o /\ c.to = to
      OBVIOUS
    <3>5. c \in Context
      BY <2>0, <3>2 DEF Context, Labels
    <3>6. (c.pc = "parse" <=> call = "rename")
      BY <2>0, CallNames DEF AllCalls
    <3>7. Sound(c)
      <4> HIDE DEF c
      <4> QED BY <2>0, <3>2, <3>4, <3>6 DEF Sound, CellLabels, ClearLabels, AllCalls
    <3>3. c \in Context /\ Sound(c)
      BY <3>5, <3>7
    <3> HIDE DEF c
    <3> QED BY <1>s, <3>1, <3>3
  <2> QED BY <2>1, <2>2
<1>2. ASSUME GetFullPath(t) PROVE Goal
  <2>1. th[t].pc = "lookup" /\ th[t].call \in {"create", "write", "fastwrite", "cleanup", "close"}
        /\ th[t].obj \in Objects
    BY <1>2, <1>t DEF GetFullPath, Sound, Context, AllCalls, ClearLabels
  <2>2. CASE UNCHANGED th
    BY <2>2, <1>t DEF ThreadType, Sound, Goal
  <2>3. CASE Goto(t, Named(th[t].call))
    <3> DEFINE c == [th[t] EXCEPT !.pc = Named(th[t].call)]
    <3>1. Named(th[t].call) \in {"setflag", "find", "lower"}
          /\ (Named(th[t].call) = "setflag" => th[t].call \in {"write", "fastwrite"})
      BY <2>1, CallNames
    <3>2. c \in Context /\ Sound(c)
      BY <1>t, <2>1, <3>1 DEF Context, Sound, Labels, CellLabels, ClearLabels, AllCalls
    <3> QED BY <1>s, <2>3, <3>2 DEF Goto
  <2>4. CASE Log(t, file[th[t].obj].opened, "NORMAL", Unnamed(th[t].call))
    <3>1. Unnamed(th[t].call) \in {"find", "lower", "idle"}
      BY <2>1, CallNames
    <3>2. file[th[t].obj].opened \in Names \cup {Nil}
      BY <2>1 DEF FileInv, FileType
    <3> QED BY <2>1, <2>4, <3>1, <3>2, LogType DEF Goal, Types
  <2> QED BY <1>2, <2>2, <2>3, <2>4 DEF GetFullPath
<1>3. ASSUME ParseReName(t) PROVE Goal
  <2>1. CASE Goto(t, "lower")
    <3> DEFINE c == [th[t] EXCEPT !.pc = "lower"]
    <3>2. c \in Context /\ Sound(c)
      BY <1>t, <1>3 DEF ParseReName, Context, Sound, Labels, CellLabels, ClearLabels, AllCalls
    <3> QED BY <1>s, <2>1, <3>2 DEF Goto
  <2>2. CASE Log(t, th[t].to, "RENAME", "lower")
    BY <1>t, <1>3, <2>2, LogType DEF Goal, ParseReName, Context, Types
  <2> QED BY <1>3, <2>1, <2>2 DEF ParseReName
<1>4. ASSUME LogHash(t) PROVE Goal
  <2> DEFINE c == [th[t] EXCEPT !.pc = "push"]
  <2>1. c \in Context /\ Sound(c)
    BY <1>t, <1>4 DEF LogHash, Context, Sound, Labels, CellLabels, ClearLabels, AllCalls
  <2> QED BY <1>s, <1>4, <2>1 DEF LogHash, Goto
<1>5. ASSUME Push(t) PROVE Goal
  <2>1. th[t].pc = "push" /\ th[t].call \in AllCalls \ {"clear"} /\ th[t].obj \in Objects
    BY <1>5, <1>t DEF Push, Sound, Context, AllCalls, ClearLabels
  <2>2. PICK l : l = IF th[t].call = "rename" THEN "lower" ELSE Named(th[t].call)
    OBVIOUS
  <2>3. l \in {"lower", "setflag", "find"} /\ (l = "setflag" => th[t].call \in {"write", "fastwrite"})
    BY <2>1, <2>2, CallNames DEF AllCalls
  <2> DEFINE c == [th[t] EXCEPT !.cur = Nil, !.pc = l]
  <2>6. /\ c \in Context /\ c.call = th[t].call /\ c.obj = th[t].obj /\ c.to = th[t].to /\ c.pc = l
    BY <1>t, <2>3 DEF Context, Labels
  <2>7. th[t].pc \notin ClearLabels \cup {"idle"}
    BY <2>1 DEF ClearLabels
  <2>4. c \in Context /\ Sound(c)
    BY <1>t, <2>3, <2>6, <2>7, Moves
  <2>5. Set(t, c)
    BY <1>5, <2>2 DEF Push
  <2> HIDE DEF c
  <2> QED BY <1>s, <2>4, <2>5
<1>6. ASSUME MarkWritten(t) PROVE Goal
  <2> DEFINE c == [th[t] EXCEPT !.pc = "lower"]
  <2>1. c \in Context /\ Sound(c)
    BY <1>t, <1>6 DEF MarkWritten, Context, Sound, Labels, CellLabels, ClearLabels, AllCalls
  <2>2. Set(t, c) \/ Set(t, Idle)
    BY <1>6 DEF MarkWritten, Leave, Goto
  <2> HIDE DEF c
  <2> QED BY <1>s, <1>i, <2>1, <2>2
<1>f. ASSUME AfterFree(t), th[t].pc \in {"find", "free"} PROVE Goal
  <2> DEFINE c == [th[t] EXCEPT !.cur = Nil, !.prev = Nil, !.pc = "lower"]
  <2>1. c \in Context /\ Sound(c)
    BY <1>t, <1>f DEF Context, Sound, Labels, CellLabels, ClearLabels, AllCalls
  <2>2. Set(t, c) \/ Set(t, Idle)
    BY <1>f DEF AfterFree
  <2> HIDE DEF c
  <2> QED BY <1>s, <1>i, <2>1, <2>2
<1>7. ASSUME Find(t) PROVE Goal
  <2>1. PICK e : e = Lookup(th[t].obj)
    OBVIOUS
  <2>2. e.cur \in Cells \cup {Nil} /\ e.prev \in Cells \cup {Nil}
    BY <2>1, LookupType
  <2>3. CASE e.cur = Nil
    BY <1>7, <1>f, <2>1, <2>3 DEF Find
  <2>4. CASE e.cur # Nil
    <3> DEFINE c == [th[t] EXCEPT !.pc = "unlink", !.cur = e.cur, !.prev = e.prev]
    <3>1. c \in Context /\ Sound(c)
      BY <1>t, <1>7, <2>2, <2>4 DEF Find, Context, Sound, Labels, CellLabels, ClearLabels, AllCalls
    <3>2. Set(t, c)
      BY <1>7, <2>1, <2>4 DEF Find
    <3> HIDE DEF c
    <3> QED BY <1>s, <3>1, <3>2
  <2> QED BY <2>3, <2>4
<1>8. ASSUME Unlink(t) PROVE Goal
  <2>1. PICK l \in {"record", "free"} : Set(t, [th[t] EXCEPT !.prev = Nil, !.pc = l])
    BY <1>8 DEF Unlink
  <2> DEFINE c == [th[t] EXCEPT !.prev = Nil, !.pc = l]
  <2>2. c \in Context /\ Sound(c)
    BY <1>t, <1>8 DEF Unlink, Context, Sound, Labels, CellLabels, ClearLabels, AllCalls
  <2> QED BY <1>s, <2>1, <2>2
<1>9. ASSUME AddConvertRecord(t) PROVE Goal
  <2>0. PICK n, i : /\ RecordOf(n) # {} => i \in RecordOf(n)
                    /\ \/ Goto(t, "free") \/ NoRecord(t, n, i) \/ OldRecord(t, n, i)
                       \/ \E r \in Records : NewRecord(t, n, i, r)
    BY <1>9, RecordCases
  <2>1. CASE Goto(t, "free") \/ OldRecord(t, n, i)
    <3> DEFINE c == [th[t] EXCEPT !.pc = "free"]
    <3>1. c \in Context /\ Sound(c)
      BY <1>t, <1>9 DEF AddConvertRecord, Context, Sound, Labels, CellLabels, ClearLabels, AllCalls
    <3> QED BY <1>s, <2>1, <3>1 DEF Goto, OldRecord
  <2>2. CASE NoRecord(t, n, i)
    BY <2>2, <1>t DEF ThreadType, Sound, Goal, NoRecord
  <2>3. ASSUME NEW r \in Records, NewRecord(t, n, i, r) PROVE Goal
    <3>1. PICK p : p = IF i = 0 THEN Nil ELSE Queue[i-1]
      OBVIOUS
    <3>2. p \in Records \cup {Nil}
      BY <2>0, <2>3, <3>1, RecordOfType DEF NewRecord
    <3> DEFINE c == [th[t] EXCEPT !.pc = "append", !.new = r, !.prev = p]
    <3>3. c \in Context /\ Sound(c)
      BY <1>t, <1>9, <3>2 DEF AddConvertRecord, Context, Sound, Labels, CellLabels, ClearLabels, AllCalls
    <3>4. Set(t, c)
      BY <2>3, <3>1 DEF NewRecord
    <3> QED BY <1>s, <3>3, <3>4
  <2> QED BY <2>0, <2>1, <2>2, <2>3
<1>10. ASSUME Append(t) PROVE Goal
  <2> DEFINE c == [th[t] EXCEPT !.pc = "free", !.new = Nil, !.prev = Nil]
  <2>1. c \in Context /\ Sound(c)
    BY <1>t, <1>10 DEF Append, Context, Sound, Labels, CellLabels, ClearLabels, AllCalls
  <2> QED BY <1>s, <1>10, <2>1 DEF Append
<1>11. ASSUME Free(t) PROVE Goal
  BY <1>11, <1>f DEF Free
<1>12. ASSUME LowerCreate(t) \/ LowerRename(t) \/ LowerOther(t) PROVE Goal
  <2> DEFINE c == [th[t] EXCEPT !.pc = "find", !.done = TRUE]
  <2>3. /\ c \in Context /\ c.call = th[t].call /\ c.obj = th[t].obj /\ c.to = th[t].to /\ c.pc = "find"
    BY <1>t DEF Context, Labels
  <2>4. th[t].pc = "lower"
    BY <1>12 DEF LowerCreate, LowerRename, LowerOther
  <2>1. c \in Context /\ Sound(c)
    BY <1>t, <2>3, <2>4, Moves DEF ClearLabels
  <2>2. Set(t, c) \/ Set(t, Idle)
    BY <1>12 DEF LowerCreate, LowerRename, LowerOther
  <2> HIDE DEF c
  <2> QED BY <1>s, <1>i, <2>1, <2>2
<1>13. ASSUME ClearState(t) PROVE Goal
  <2> DEFINE c == [Idle EXCEPT !.pc = "clear", !.call = "clear"]
  <2>1. c \in Context /\ Sound(c)
    BY IdleType DEF Idle, Context, Sound, Labels, CellLabels, ClearLabels, AllCalls
  <2> QED BY <1>s, <1>13, <2>1 DEF ClearState
<1>14. ASSUME CleanupHash(t) PROVE Goal
  <2>4. PICK l \in {"clearall", "clearcell"} : l = IF head = Nil THEN "clearall" ELSE "clearcell"
    OBVIOUS
  <2> DEFINE c == [th[t] EXCEPT !.cur = head, !.pc = l]
  <2>5. head \in Cells \cup Records \cup {Nil} /\ l \in Labels
    BY DEF ListType, Labels, ClearLabels
  <2>2. c \in Context /\ c.call = th[t].call /\ c.to = th[t].to /\ c.cur = head /\ c.pc = l
    BY <2>5, <1>t DEF Context
  <2>3. th[t].call = "clear"
    BY <1>t, <1>14 DEF CleanupHash, Sound, ClearLabels
  <2>1. c \in Context /\ Sound(c)
    <3> HIDE DEF c
    <3> QED BY <2>2, <2>3, <2>4 DEF ListType, Sound, CellLabels, ClearLabels
  <2> QED BY <1>s, <1>14, <2>1, <2>4 DEF CleanupHash
<1>15. ASSUME CleanupCell(t) PROVE Goal
  <2> DEFINE c == [th[t] EXCEPT !.cur = Nil, !.pc = "clear"]
  <2>1. c \in Context /\ Sound(c)
    BY <1>t, <1>15 DEF CleanupCell, Context, Sound, Labels, CellLabels, ClearLabels, AllCalls
  <2> QED BY <1>s, <1>15, <2>1 DEF CleanupCell
<1>16. ASSUME CleanupTable(t) PROVE Goal
  <2> DEFINE c == [th[t] EXCEPT !.pc = "clearstore"]
  <2>1. c \in Context /\ Sound(c)
    BY <1>t, <1>16 DEF CleanupTable, Context, Sound, Labels, CellLabels, ClearLabels, AllCalls
  <2> QED BY <1>s, <1>16, <2>1 DEF CleanupTable, Goto
<1>17. ASSUME CleanupStore(t) PROVE Goal
  <2> DEFINE c == [th[t] EXCEPT !.cur = first, !.pc = "clearrecord"]
  <2>1. CASE first # Nil
    <3>2. /\ c \in Context /\ c.call = th[t].call /\ c.to = th[t].to /\ c.cur = first
          /\ c.pc = "clearrecord"
      <4>1. first \in Records \cup {Nil} /\ "clearrecord" \in Labels
        BY DEF ListType, Labels, ClearLabels
      <4> QED BY <1>t, <4>1 DEF Context
    <3>3. th[t].call = "clear"
      BY <1>t, <1>17 DEF CleanupStore, Sound, ClearLabels
    <3>1. c \in Context /\ Sound(c)
      <4> HIDE DEF c
      <4> QED BY <2>1, <3>2, <3>3 DEF ListType, Sound, CellLabels, ClearLabels
    <3> QED BY <1>s, <1>17, <2>1, <3>1 DEF CleanupStore
  <2>2. CASE first = Nil
    BY <1>i, <1>17, <2>2 DEF CleanupStore
  <2> QED BY <2>1, <2>2
<1>18. ASSUME CleanupRecord(t) PROVE Goal
  <2> DEFINE c == [th[t] EXCEPT !.cur = Nil, !.pc = "clearstore"]
  <2>1. c \in Context /\ Sound(c)
    BY <1>t, <1>18 DEF CleanupRecord, Context, Sound, Labels, CellLabels, ClearLabels, AllCalls
  <2> QED BY <1>s, <1>18, <2>1 DEF CleanupRecord
<1>19. Goal
  BY <1>1, <1>2, <1>3, <1>4, <1>5, <1>6, <1>7, <1>8, <1>9, <1>10, <1>11, <1>12, <1>13, <1>14,
     <1>15, <1>16, <1>17, <1>18 DEF Thread
<1> QED BY <1>19 DEF Goal

LEMMA ListSame ==
  ASSUME ListType, UNCHANGED <<lists, agent>>
  PROVE  ListType'
BY DEF ListType, lists

LEMMA FlagType ==
  ASSUME ListType, NEW t, NEW from, SetWriteFlag(t, from), UNCHANGED <<head, live, first, record, agent>>
  PROVE  ListType'
<1>4. PICK e : e = Lookup(th[t].obj)
  OBVIOUS
<1>2. e.cur \in Cells \cup {Nil}
  BY <1>4, LookupType
<1>5. cell' = IF ~e.bad /\ e.cur # Nil /\ cell[e.cur].type = from
              THEN [cell EXCEPT ![e.cur].type = "MODIFIED"] ELSE cell
  BY <1>4 DEF SetWriteFlag
<1>6. CASE cell' = cell
  BY <1>6 DEF ListType
<1>7. CASE e.cur # Nil /\ cell' = [cell EXCEPT ![e.cur].type = "MODIFIED"]
  BY <1>2, <1>7 DEF ListType, Types
<1> QED BY <1>5, <1>6, <1>7

LEMMA LogLists ==
  ASSUME ListType, NEW t, th[t].obj \in Objects, NEW n \in Names \cup {Nil}, NEW type \in Types,
         NEW l, Log(t, n, type, l), UNCHANGED agent
  PROVE  ListType'
<1>1. CASE UNCHANGED lists
  BY <1>1, ListSame
<1>2. CASE /\ UNCHANGED <<head, first, record>>
           /\ \E c \in Cells \ live :
                 /\ live' = live \cup {c}
                 /\ cell' = [cell EXCEPT ![c] =
                      [next |-> Nil, obj |-> th[t].obj, name |-> n, type |-> type]]
  <2>1. PICK c \in Cells \ live :
                 /\ live' = live \cup {c}
                 /\ cell' = [cell EXCEPT ![c] =
                      [next |-> Nil, obj |-> th[t].obj, name |-> n, type |-> type]]
    BY <1>2
  <2> QED BY <1>2, <2>1 DEF ListType
<1> QED BY <1>1, <1>2 DEF Log, lists

LEMMA ThreadLists ==
  ASSUME ThreadType, ListType, FileInv, NEW t \in Threads, Thread(t)
  PROVE  ListType'
<1>t. th[t] \in Context /\ Sound(th[t])
  BY DEF ThreadType
<1>1. ASSUME NEW call \in Calls, NEW o \in Objects, NEW to \in Names \cup {Nil}, NEW excl \in BOOLEAN,
             Begin(t, call, o, to, excl)
      PROVE  ListType'
  BY <1>1, ListSame DEF Begin
<1>2. CASE GetFullPath(t)
  <2>1. th[t].obj \in Objects
    BY <1>2, <1>t DEF GetFullPath, Sound, ClearLabels
  <2>2. CASE UNCHANGED lists
    BY <1>2, <2>2, ListSame DEF GetFullPath
  <2>3. CASE Log(t, file[th[t].obj].opened, "NORMAL", Unnamed(th[t].call))
    <3>1. file[th[t].obj].opened \in Names \cup {Nil}
      BY <2>1 DEF FileInv, FileType
    <3> QED BY <1>2, <2>1, <2>3, <3>1, LogLists DEF GetFullPath, Types
  <2> QED BY <1>2, <2>2, <2>3 DEF GetFullPath
<1>3. CASE ParseReName(t)
  <2>1. th[t].obj \in Objects /\ th[t].to \in Names \cup {Nil}
    BY <1>3, <1>t DEF ParseReName, Sound, ClearLabels, Context
  <2>2. CASE UNCHANGED lists
    BY <1>3, <2>2, ListSame DEF ParseReName
  <2>3. CASE Log(t, th[t].to, "RENAME", "lower")
    BY <1>3, <2>1, <2>3, LogLists DEF ParseReName, Types
  <2> QED BY <1>3, <2>2, <2>3 DEF ParseReName
<1>4. CASE LogHash(t)
  <2>1. th[t].cur \in Cells
    BY <1>4, <1>t DEF LogHash, Sound, CellLabels
  <2> QED BY <1>4, <2>1 DEF LogHash, ListType
<1>5. CASE Push(t)
  <2>1. th[t].cur \in Cells
    BY <1>5, <1>t DEF Push, Sound, CellLabels
  <2> QED BY <1>5, <2>1 DEF Push, ListType
<1>6. CASE MarkWritten(t)
  BY <1>6, FlagType DEF MarkWritten
<1>7. CASE Find(t)
  BY <1>7, ListSame DEF Find
<1>8. CASE Unlink(t)
  <2>1. th[t].cur \in Cells /\ th[t].prev \in Cells \cup {Nil}
    BY <1>8, <1>t DEF Unlink, Sound, CellLabels
  <2> QED BY <1>8, <2>1 DEF Unlink, ListType
<1>9. CASE AddConvertRecord(t)
  <2>0. th[t].cur \in Cells /\ UNCHANGED <<head, cell, first, agent>>
    BY <1>9, <1>t DEF AddConvertRecord, Sound, CellLabels
  <2>1. cell[th[t].cur].name \in Names \cup {Nil} /\ cell[th[t].cur].type \in Types
    BY <2>0 DEF ListType
  <2>2. PICK n, i :
           /\ n = cell[th[t].cur].name
           /\ RecordOf(n) # {} => i \in RecordOf(n)
           /\ \/ UNCHANGED <<live, record>> \/ OldRecord(t, n, i)
              \/ \E r \in Records \ live : NewRecord(t, n, i, r)
    BY <1>9, RecordCases DEF NoRecord
  <2>3. CASE UNCHANGED <<live, record>>
    BY <2>0, <2>3 DEF ListType
  <2>4. CASE OldRecord(t, n, i)
    <3>1. PICK x : x = Queue[i]
      OBVIOUS
    <3>2. x \in Records /\ UNCHANGED live
      BY <2>2, <2>4, <3>1, RecordOfType DEF OldRecord
    <3>3. record' = record \/ record' = [record EXCEPT ![x].type = "MODIFIED"]
      BY <2>4, <3>1 DEF OldRecord, Merge
    <3> QED BY <2>0, <3>2, <3>3 DEF ListType, Types
  <2>5. ASSUME NEW r \in Records \ live, NewRecord(t, n, i, r) PROVE ListType'
    BY <2>0, <2>1, <2>2, <2>5 DEF ListType, NewRecord
  <2> QED BY <2>2, <2>3, <2>4, <2>5
<1>10. CASE Append(t)
  <2>1. th[t].new \in Records /\ th[t].prev \in Records \cup {Nil}
    BY <1>10, <1>t DEF Append, Sound, CellLabels
  <2> QED BY <1>10, <2>1 DEF Append, ListType
<1>11. CASE Free(t)
  <2>1. th[t].cur \in Cells
    BY <1>11, <1>t DEF Free, Sound, CellLabels
  <2> QED BY <1>11, <2>1 DEF Free, ListType, FreeCell, Types
<1>12. CASE LowerCreate(t) \/ LowerOther(t)
  BY <1>12, ListSame DEF LowerCreate, LowerOther
<1>13. CASE LowerRename(t)
  <2>1. CASE UNCHANGED cell
    BY <1>13, <2>1, ListSame DEF LowerRename, lists
  <2>2. CASE SetWriteFlag(t, "RENAME")
    BY <1>13, <2>2, FlagType DEF LowerRename
  <2> QED BY <1>13, <2>1, <2>2 DEF LowerRename
<1>14. CASE ClearState(t) \/ CleanupHash(t) \/ CleanupStore(t)
  BY <1>14, ListSame DEF ClearState, CleanupHash, CleanupStore
<1>15. CASE CleanupCell(t)
  <2>1. th[t].cur \in Cells
    BY <1>15, <1>t DEF CleanupCell, Sound, CellLabels
  <2> QED BY <1>15, <2>1 DEF CleanupCell, ListType, FreeCell, Types
<1>16. CASE CleanupTable(t)
  BY <1>16 DEF CleanupTable, ListType
<1>17. CASE CleanupRecord(t)
  <2>1. th[t].cur \in Records
    BY <1>17, <1>t DEF CleanupRecord, Sound
  <2> QED BY <1>17, <2>1 DEF CleanupRecord, ListType, FreeRecord, Types
<1> QED BY <1>1, <1>2, <1>3, <1>4, <1>5, <1>6, <1>7, <1>8, <1>9, <1>10, <1>11, <1>12, <1>13, <1>14,
     <1>15, <1>16, <1>17 DEF Thread

\* The steps of no thread that calls the file system.
Other == StartOrStopWork \/ AddMonitorItem \/ GetOldestRecord \/ Pop \/ Fetch \/ Encrypt

LEMMA OtherLists ==
  ASSUME ListType, Other
  PROVE  ListType' /\ UNCHANGED <<file, th>>
<1>1. CASE StartOrStopWork \/ AddMonitorItem
  BY <1>1, ListSame DEF StartOrStopWork, AddMonitorItem
<1>2. CASE GetOldestRecord
  BY <1>2 DEF GetOldestRecord, ListType, lists
<1>3. CASE Pop
  BY <1>3 DEF Pop, ListType
<1>4. CASE Fetch
  BY <1>4 DEF Fetch, ListType, FreeRecord, Types
<1>5. CASE Encrypt
  BY <1>5 DEF Encrypt, ListType, Types, Resting, lists
<1> QED BY <1>1, <1>2, <1>3, <1>4, <1>5 DEF Other

\* A thread stays in its call, leaves it or begins IOCTL_YGFSMON_CLEAR_STATE_NT.
Stays(t) ==
  \/ th'[t].pc = "idle" \/ th'[t].call = "clear"
  \/ th'[t].pc # "idle" /\ InCall(t) /\ th'[t].call = th[t].call /\ th'[t].obj = th[t].obj

LEMMA FileSame ==
  ASSUME FileInv, UNCHANGED file, NEW t \in Threads, Stays(t),
         \A u \in Threads \ {t} : th'[u] = th[u]
  PROVE  FileInv'
<1>1. ASSUME NEW u \in Threads, InCall(u)'
      PROVE  InCall(u) /\ th'[u].call = th[u].call /\ th'[u].obj = th[u].obj
  BY <1>1 DEF Stays, InCall
<1>2. FileType'
  BY DEF FileInv, FileType
<1>3. \A o \in Objects : file'[o].state # "free" => file'[o].name \in Names /\ file'[o].opened \in Names \cup {Nil}
  BY DEF FileInv
<1>4. \A u \in Threads : InCall(u)' => file'[th'[u].obj].state \in States(th'[u].call)
  BY <1>1 DEF FileInv
<1>5. \A u, v \in Threads :
       InCall(u)' /\ InCall(v)' /\ u # v /\ th'[u].call \in {"create", "close"} => th'[u].obj # th'[v].obj
  BY <1>1 DEF FileInv
<1> QED BY <1>2, <1>3, <1>4, <1>5 DEF FileInv, States

\* A call of the file system is in progress.
LEMMA OnObject ==
  ASSUME ThreadType, NEW t \in Threads, th[t].pc \notin ClearLabels \cup {"idle"}
  PROVE  InCall(t) /\ th[t].obj \in Objects /\ th[t].call \in AllCalls \ {"clear"}
BY DEF ThreadType, Context, Sound, InCall

\* Where the object of a thread is freed, or gets another state that suits its calls.
LEMMA FileChange ==
  ASSUME ThreadType, FileInv, FileType', NEW t \in Threads, InCall(t), th[t].obj \in Objects,
         th'[t].pc = "idle", \A u \in Threads \ {t} : th'[u] = th[u],
         \A o \in Objects \ {th[t].obj} : file'[o] = file[o],
         th[t].call \in {"create", "close"},
         file'[th[t].obj].state # "free" =>
           file'[th[t].obj].name = file[th[t].obj].name /\ file'[th[t].obj].opened = file[th[t].obj].opened
  PROVE  FileInv'
<1>1. ASSUME NEW u \in Threads, InCall(u)'
      PROVE  u # t /\ InCall(u) /\ th'[u] = th[u] /\ th[u].obj # th[t].obj
  BY <1>1 DEF InCall, FileInv
<1>2. ASSUME NEW u \in Threads, InCall(u) PROVE th[u].obj \in Objects
  <2>1. th[u].pc # "idle" /\ th[u].call # "clear"
    BY <1>2 DEF InCall
  <2> QED BY <2>1 DEF ThreadType, Sound
<1>3. file[th[t].obj].state \in States(th[t].call)
  BY DEF FileInv
<1>4. file[th[t].obj].state # "free"
  BY <1>3 DEF States
<1>5. \A o \in Objects : file'[o].state # "free" => file'[o].name \in Names /\ file'[o].opened \in Names \cup {Nil}
  BY <1>4 DEF FileInv
<1>6. \A u \in Threads : InCall(u)' => file'[th'[u].obj].state \in States(th'[u].call)
  BY <1>1, <1>2 DEF FileInv
<1>7. \A u, v \in Threads :
       InCall(u)' /\ InCall(v)' /\ u # v /\ th'[u].call \in {"create", "close"} => th'[u].obj # th'[v].obj
  BY <1>1 DEF FileInv
<1> QED BY <1>5, <1>6, <1>7 DEF FileInv, States

LEMMA ThreadFiles ==
  ASSUME ThreadType, ListType, FileInv, NEW t \in Threads, Thread(t), dirty \subseteq Names, calls \in 0..MaxCalls
  PROVE  FileInv' /\ dirty' \subseteq Names /\ calls' \in 0..MaxCalls
<1>t. th[t] \in Context /\ Sound(th[t])
  BY DEF ThreadType
<1>u. ThreadType' /\ \A u \in Threads \ {t} : th'[u] = th[u]
  BY ThreadStep
<1>c. calls \in Nat /\ MaxCalls \in Nat
  BY FSMonAssumption
<1>s. ASSUME UNCHANGED <<file, dirty, calls>>, Stays(t)
      PROVE  FileInv' /\ dirty' \subseteq Names /\ calls' \in 0..MaxCalls
  BY <1>u, <1>s, FileSame
<1>1. ASSUME NEW call \in Calls, NEW o \in Objects, NEW to \in Names \cup {Nil}, NEW excl \in BOOLEAN,
             Begin(t, call, o, to, excl)
      PROVE  FileInv' /\ dirty' \subseteq Names /\ calls' \in 0..MaxCalls
  <2>0. call \in AllCalls \ {"clear"} /\ th[t].pc = "idle" /\ May(call, o, to) /\ ~InCall(t)
    BY <1>1, FSMonAssumption DEF Begin, May, InCall
  <2>1. calls' \in 0..MaxCalls
    BY <1>1, <1>c DEF Begin
  <2>2. dirty' \subseteq Names
    <3>1. CASE call = "fastwrite"
      <4>1. file[o].name \in Names
        BY <2>0, <3>1 DEF May, FileInv
      <4> QED BY <1>1, <4>1 DEF Begin
    <3>2. CASE call # "fastwrite"
      BY <1>1, <3>2 DEF Begin
    <3> QED BY <3>1, <3>2
  <2>3. /\ call = "create" => \E p \in Names \cup {Nil} :
               file' = [file EXCEPT ![o] = [state |-> "opening", name |-> to, opened |-> p]]
        /\ call = "cleanup" => file' = [file EXCEPT ![o].state = "cleaned"]
        /\ call \notin {"create", "cleanup"} => file' = file
    <3>1. ASSUME call = "create" PROVE Paths[to] \subseteq Names \cup {Nil}
      BY <2>0, <3>1, FSMonAssumption DEF May
    <3> QED BY <1>1, <3>1 DEF Begin
  <2>4. th'[t].pc = "idle" \/ (th'[t].call = call /\ th'[t].obj = o)
    <3>1. CASE Set(t, Idle)
      <4>1. th'[t] = Idle
        BY <1>t, <3>1 DEF Set, ThreadType
      <4>2. Idle.pc = "idle"
        BY DEF Idle
      <4> QED BY <4>1, <4>2
    <3>2. ASSUME NEW l, NEW seen,
                 Set(t, [pc |-> l, call |-> call, obj |-> o, to |-> to, seen |-> seen,
                         cur |-> Nil, prev |-> Nil, new |-> Nil, done |-> FALSE])
          PROVE  th'[t].call = call /\ th'[t].obj = o
      BY <3>2, <1>t DEF Set, ThreadType
    <3> QED BY <1>1, <3>1, <3>2 DEF Begin
  <2>5. ASSUME NEW u \in Threads, InCall(u)', u # t PROVE InCall(u) /\ th'[u] = th[u] /\ th[u].obj \in Objects
    <3>1. th'[u] = th[u] /\ th[u].pc # "idle" /\ th[u].call # "clear"
      BY <1>u, <2>5 DEF InCall
    <3> QED BY <3>1 DEF InCall, ThreadType, Sound
  <2>6. FileType'
    <3>1. CASE call = "create"
      BY <2>0, <2>3, <3>1 DEF FileInv, FileType, May
    <3>2. CASE call = "cleanup"
      BY <2>3, <3>2 DEF FileInv, FileType
    <3>3. CASE call \notin {"create", "cleanup"}
      BY <2>3, <3>3 DEF FileInv, FileType
    <3> QED BY <3>1, <3>2, <3>3
  <2>7. /\ file'[o].state \in States(call)
        /\ \A p \in Objects \ {o} : file'[p] = file[p]
        /\ file'[o].name \in Names /\ file'[o].opened \in Names \cup {Nil}
    <3>1. CASE call = "create"
      BY <2>0, <2>3, <3>1 DEF FileInv, FileType, May, States
    <3>2. CASE call = "cleanup"
      BY <2>0, <2>3, <3>2 DEF FileInv, FileType, May, States
    <3>3. CASE call = "close"
      BY <2>0, <2>3, <3>3 DEF FileInv, FileType, May, States
    <3>4. CASE call \in {"write", "fastwrite", "rename"}
      BY <2>0, <2>3, <3>4 DEF FileInv, FileType, May, States
    <3> QED BY <2>0, <3>1, <3>2, <3>3, <3>4 DEF AllCalls
  <2>8. ASSUME NEW u \in Threads, InCall(u), th[u].obj = o, u # t
        PROVE  /\ call \notin {"create", "close"} /\ th[u].call \notin {"create", "close"}
               /\ file'[o].state \in States(th[u].call)
    <3>1. file[o].state \in States(th[u].call)
      BY <2>8 DEF FileInv
    <3>2. call # "create" /\ th[u].call # "create"
      BY <2>0, <3>1 DEF May, States, AllCalls
    <3>3. call # "close"
      BY <2>0, <2>8 DEF May, Busy, InCall
    <3>4. th[u].call # "close"
      BY <2>0, <3>1, <3>2, <3>3 DEF May, States, AllCalls
    <3>5. file'[o].state \in {"open", "cleaned"}
      BY <2>0, <2>7, <3>2, <3>3 DEF States, AllCalls
    <3> QED BY <3>2, <3>3, <3>4, <3>5 DEF States
  <2>9. \A p \in Objects : file'[p].state # "free" => file'[p].name \in Names /\ file'[p].opened \in Names \cup {Nil}
    BY <2>7 DEF FileInv
  <2>10. ASSUME NEW u \in Threads, InCall(u)' PROVE file'[th'[u].obj].state \in States(th'[u].call)
    <3>1. CASE u = t
      BY <2>4, <2>7, <2>10, <3>1 DEF InCall
    <3>2. CASE u # t
      BY <2>5, <2>7, <2>8, <2>10, <3>2 DEF FileInv
    <3> QED BY <3>1, <3>2
  <2>11. ASSUME NEW u \in Threads, NEW v \in Threads, InCall(u)', InCall(v)', u # v,
                th'[u].call \in {"create", "close"}
         PROVE  th'[u].obj # th'[v].obj
    <3>1. CASE u = t
      <4>1. th'[t].call = call /\ th'[t].obj = o
        BY <2>4, <2>11, <3>1 DEF InCall
      <4> QED BY <2>5, <2>8, <2>11, <3>1, <4>1
    <3>2. CASE v = t
      <4>1. th'[t].call = call /\ th'[t].obj = o
        BY <2>4, <2>11, <3>2 DEF InCall
      <4> QED BY <2>5, <2>8, <2>11, <3>2, <4>1
    <3>3. CASE u # t /\ v # t
      BY <2>5, <2>11, <3>3 DEF FileInv
    <3> QED BY <3>1, <3>2, <3>3
  <2>12. FileInv'
    BY <2>6, <2>9, <2>10, <2>11 DEF FileInv, States
  <2> QED BY <2>1, <2>2, <2>12
<1>k. ASSUME NEW l, Goto(t, l), th[t].pc \notin ClearLabels \cup {"idle"} PROVE Stays(t)
  BY <1>k, <1>t, OnObject DEF Goto, Set, Stays, ThreadType, Context
<1>i. ASSUME Set(t, Idle) PROVE Stays(t)
  BY <1>i, <1>t DEF Set, Stays, ThreadType, Idle
<1>2. CASE GetFullPath(t) \/ ParseReName(t)
  <2>1. th[t].pc \notin ClearLabels \cup {"idle"}
    BY <1>2 DEF GetFullPath, ParseReName, ClearLabels
  <2>2. InCall(t)
    BY <2>1, OnObject
  <2>3. ASSUME NEW n, NEW type, NEW l, Log(t, n, type, l) PROVE Stays(t)
    <3>1. CASE Set(t, [th[t] EXCEPT !.pc = l, !.seen = FALSE])
      BY <1>t, <2>2, <3>1 DEF Set, Stays, ThreadType, Context, InCall
    <3>2. ASSUME NEW c, Set(t, [th[t] EXCEPT !.pc = "log", !.cur = c]) PROVE Stays(t)
      BY <1>t, <2>2, <3>2 DEF Set, Stays, ThreadType, Context, InCall
    <3> QED BY <1>i, <2>3, <3>1, <3>2 DEF Log, Pass
  <2>4. ASSUME UNCHANGED th PROVE Stays(t)
    <3>1. th'[t] = th[t]
      BY <2>4
    <3> QED BY <2>2, <3>1 DEF Stays, InCall
  <2>6. ASSUME NEW l, Goto(t, l) PROVE Stays(t)
    BY <1>k, <2>1, <2>6
  <2>5. Stays(t)
    <3>1. CASE GetFullPath(t)
      BY <2>3, <2>4, <2>6, <3>1 DEF GetFullPath
    <3>2. CASE ParseReName(t)
      BY <2>3, <2>6, <3>2 DEF ParseReName
    <3> QED BY <1>2, <3>1, <3>2
  <2> QED BY <1>2, <1>s, <2>5 DEF GetFullPath, ParseReName
<1>3. CASE LogHash(t) \/ Push(t)
  <2>1. th[t].pc \notin ClearLabels \cup {"idle"} /\ InCall(t)
    BY <1>3, OnObject DEF LogHash, Push, ClearLabels
  <2>4. ASSUME NEW l, Set(t, [th[t] EXCEPT !.cur = Nil, !.pc = l]) PROVE Stays(t)
    BY <1>t, <2>1, <2>4 DEF Set, Stays, ThreadType, Context, InCall
  <2>2. ASSUME Push(t) PROVE Stays(t)
    <3>1. PICK l : l = IF th[t].call = "rename" THEN "lower" ELSE Named(th[t].call)
      OBVIOUS
    <3>2. Set(t, [th[t] EXCEPT !.cur = Nil, !.pc = l])
      BY <2>2, <3>1 DEF Push
    <3> QED BY <2>4, <3>2
  <2>3. ASSUME LogHash(t) PROVE Stays(t)
    BY <1>k, <2>1, <2>3 DEF LogHash
  <2> QED BY <1>3, <1>s, <2>2, <2>3 DEF LogHash, Push
<1>4. CASE MarkWritten(t)
  <2>1. th[t].pc \notin ClearLabels \cup {"idle"}
    BY <1>4 DEF MarkWritten, ClearLabels
  <2>2. Stays(t)
    BY <1>4, <1>k, <1>i, <2>1 DEF MarkWritten, Leave
  <2> QED BY <1>4, <1>s, <2>2 DEF MarkWritten
<1>5. ASSUME AfterFree(t), th[t].pc \in {"find", "free"}, UNCHANGED <<dirty, calls>>
      PROVE  FileInv' /\ dirty' \subseteq Names /\ calls' \in 0..MaxCalls
  <2>1. InCall(t) /\ th[t].obj \in Objects
    BY <1>5, OnObject DEF ClearLabels
  <2>2. CASE th[t].done /\ th[t].call = "create"
    <3>1. file' = [file EXCEPT ![th[t].obj] = NoFile] /\ Set(t, Idle)
      BY <1>5, <2>2 DEF AfterFree
    <3>2. th'[t].pc = "idle"
      BY <1>t, <3>1 DEF Set, Idle, ThreadType
    <3>3. FileType' /\ file'[th[t].obj].state = "free" /\ \A o \in Objects \ {th[t].obj} : file'[o] = file[o]
      BY <2>1, <3>1 DEF FileInv, FileType, NoFile
    <3>4. FileInv'
      BY <1>u, <2>1, <2>2, <3>2, <3>3, FileChange
    <3> QED BY <1>5, <3>4
  <2>3. CASE ~(th[t].done /\ th[t].call = "create")
    <3>1. UNCHANGED file
      BY <1>5, <2>3 DEF AfterFree
    <3>2. CASE Set(t, Idle)
      BY <1>5, <1>s, <1>i, <3>1, <3>2
    <3>3. CASE Set(t, [th[t] EXCEPT !.cur = Nil, !.prev = Nil, !.pc = "lower"])
      <4>1. Stays(t)
        BY <1>t, <2>1, <3>3 DEF Set, Stays, ThreadType, Context, InCall
      <4> QED BY <1>5, <1>s, <3>1, <4>1
    <3> QED BY <1>5, <3>2, <3>3 DEF AfterFree
  <2> QED BY <2>2, <2>3
<1>6. CASE Find(t)
  <2>1. CASE AfterFree(t)
    BY <1>6, <1>5, <2>1 DEF Find
  <2>2. CASE ~AfterFree(t)
    <3>1. UNCHANGED <<file, dirty, calls>> /\ InCall(t)
      BY <1>6, <2>2, OnObject DEF Find, ClearLabels
    <3>2. PICK e : Set(t, [th[t] EXCEPT !.pc = "unlink", !.cur = e.cur, !.prev = e.prev])
      BY <1>6, <2>2 DEF Find
    <3>3. Stays(t)
      BY <1>t, <3>1, <3>2 DEF Set, Stays, ThreadType, Context, InCall
    <3> QED BY <1>s, <3>1, <3>3
  <2> QED BY <2>1, <2>2
<1>7. CASE Unlink(t)
  <2>1. InCall(t)
    BY <1>7, OnObject DEF Unlink, ClearLabels
  <2>2. PICK l \in {"record", "free"} : Set(t, [th[t] EXCEPT !.prev = Nil, !.pc = l])
    BY <1>7 DEF Unlink
  <2>3. Stays(t)
    BY <1>t, <2>1, <2>2 DEF Set, Stays, ThreadType, Context, InCall
  <2> QED BY <1>7, <1>s, <2>3 DEF Unlink
<1>8. CASE AddConvertRecord(t)
  <2>1. InCall(t) /\ th[t].pc \notin ClearLabels \cup {"idle"}
    BY <1>8, OnObject DEF AddConvertRecord, ClearLabels
  <2>2. PICK n, i : \/ Goto(t, "free") \/ NoRecord(t, n, i)
                    \/ OldRecord(t, n, i)
                    \/ \E r \in Records : NewRecord(t, n, i, r)
    BY <1>8, RecordCases
  <2>3. Stays(t)
    <3>1. CASE Goto(t, "free") \/ OldRecord(t, n, i)
      BY <1>k, <2>1, <3>1 DEF OldRecord
    <3>2. CASE NoRecord(t, n, i)
      BY <2>1, <3>2 DEF NoRecord, Stays, InCall
    <3>3. ASSUME NEW r \in Records, NewRecord(t, n, i, r) PROVE Stays(t)
      BY <1>t, <2>1, <3>3 DEF NewRecord, Set, Stays, ThreadType, Context, InCall
    <3> QED BY <2>2, <3>1, <3>2, <3>3
  <2> QED BY <1>8, <1>s, <2>3 DEF AddConvertRecord
<1>9. CASE Append(t)
  <2>1. InCall(t)
    BY <1>9, OnObject DEF Append, ClearLabels
  <2>2. Stays(t)
    BY <1>9, <1>t, <2>1 DEF Append, Set, Stays, ThreadType, Context, InCall
  <2> QED BY <1>9, <1>s, <2>2 DEF Append
<1>10. CASE Free(t)
  BY <1>10, <1>5 DEF Free
<1>11. CASE LowerCreate(t)
  <2>1. InCall(t) /\ th[t].obj \in Objects /\ th[t].call = "create"
    BY <1>11, OnObject DEF LowerCreate, ClearLabels
  <2>2. CASE Set(t, Idle) /\ file' = [file EXCEPT ![th[t].obj].state = "open"]
    <3>1. FileType' /\ file'[th[t].obj].name = file[th[t].obj].name
          /\ file'[th[t].obj].opened = file[th[t].obj].opened
          /\ \A o \in Objects \ {th[t].obj} : file'[o] = file[o]
      BY <2>1, <2>2 DEF FileInv, FileType
    <3>2. th'[t].pc = "idle"
      BY <1>t, <2>2 DEF Set, Idle, ThreadType
    <3>3. FileInv'
      BY <1>u, <2>1, <3>1, <3>2, FileChange
    <3> QED BY <1>11, <3>3 DEF LowerCreate
  <2>3. CASE Set(t, [th[t] EXCEPT !.pc = "find", !.done = TRUE]) /\ UNCHANGED file
    <3>1. Stays(t)
      BY <1>t, <2>1, <2>3 DEF Set, Stays, ThreadType, Context, InCall
    <3> QED BY <1>11, <1>s, <2>3, <3>1 DEF LowerCreate
  <2> QED BY <1>11, <2>2, <2>3 DEF LowerCreate
<1>12. CASE LowerRename(t)
  <2>1. InCall(t) /\ th[t].obj \in Objects /\ th[t].call = "rename" /\ th[t].to \in Names
    BY <1>12, <1>t, OnObject DEF LowerRename, ClearLabels, Sound
  <2>2. Stays(t) /\ InCall(t)' /\ th'[t].call = "rename" /\ th'[t].obj = th[t].obj
    BY <1>12, <1>t, <2>1 DEF LowerRename, Set, Stays, ThreadType, Context, InCall
  <2>3. CASE UNCHANGED file
    BY <1>12, <1>u, <2>1, <2>2, <2>3, FileSame DEF LowerRename
  <2>4. CASE file' = [p \in Objects |->
                  IF file[p].name = file[th[t].obj].name THEN [file[p] EXCEPT !.name = th[t].to] ELSE file[p]]
    <3>1. \A p \in Objects : /\ file'[p].state = file[p].state /\ file'[p].opened = file[p].opened
                             /\ file'[p].name \in {file[p].name, th[t].to}
      BY <2>4 DEF FileInv, FileType
    <3>2. FileType'
      BY <2>1, <2>4 DEF FileInv, FileType
    <3>3. \A o \in Objects : file'[o].state # "free" => file'[o].name \in Names /\ file'[o].opened \in Names \cup {Nil}
      BY <2>1, <3>1 DEF FileInv
    <3>4. \A u \in Threads : InCall(u)' => InCall(u) /\ th'[u].call = th[u].call /\ th'[u].obj = th[u].obj
      BY <1>u, <2>1, <2>2 DEF InCall
    <3>5. \A u \in Threads : InCall(u) => th[u].obj \in Objects
      BY DEF InCall, ThreadType, Sound
    <3>6. \A u \in Threads : InCall(u)' => file'[th'[u].obj].state \in States(th'[u].call)
      BY <3>1, <3>4, <3>5 DEF FileInv
    <3>7. \A u, v \in Threads :
       InCall(u)' /\ InCall(v)' /\ u # v /\ th'[u].call \in {"create", "close"} => th'[u].obj # th'[v].obj
      BY <3>4 DEF FileInv
    <3>8. FileInv'
      BY <3>2, <3>3, <3>6, <3>7 DEF FileInv, States
    <3> QED BY <1>12, <2>1, <3>8 DEF LowerRename
  <2> QED BY <1>12, <2>3, <2>4 DEF LowerRename
<1>13. CASE LowerOther(t)
  <2>1. InCall(t) /\ th[t].obj \in Objects
    BY <1>13, OnObject DEF LowerOther, ClearLabels
  <2>2. th'[t].pc = "idle"
    BY <1>t, <1>13 DEF LowerOther, Set, Idle, ThreadType
  <2>3. dirty' \subseteq Names
    <3>1. CASE th[t].call = "write"
      <4>1. file[th[t].obj].state # "free"
        BY <2>1, <3>1 DEF FileInv, States
      <4>2. file[th[t].obj].name \in Names
        BY <2>1, <4>1 DEF FileInv
      <4> QED BY <1>13, <4>2 DEF LowerOther
    <3>2. CASE th[t].call # "write"
      BY <1>13, <3>2 DEF LowerOther
    <3> QED BY <3>1, <3>2
  <2>4. CASE th[t].call = "close"
    <3>1. file' = [file EXCEPT ![th[t].obj] = NoFile]
      BY <1>13, <2>4 DEF LowerOther
    <3>3. FileType' /\ file'[th[t].obj].state = "free" /\ \A o \in Objects \ {th[t].obj} : file'[o] = file[o]
      BY <2>1, <3>1 DEF FileInv, FileType, NoFile
    <3>4. FileInv'
      BY <1>u, <2>1, <2>2, <2>4, <3>3, FileChange
    <3> QED BY <1>13, <2>3, <3>4 DEF LowerOther
  <2>5. CASE th[t].call # "close"
    <3>1. UNCHANGED <<file, calls>>
      BY <1>13, <2>5 DEF LowerOther
    <3>2. FileInv'
      BY <1>u, <2>2, <3>1, FileSame DEF Stays
    <3> QED BY <2>3, <3>1, <3>2
  <2> QED BY <2>4, <2>5
<1>14. CASE ClearState(t)
  <2>1. th'[t].call = "clear"
    BY <1>14, <1>t DEF ClearState, Set, Idle, ThreadType
  <2>2. FileInv'
    BY <1>14, <1>u, <2>1, FileSame DEF ClearState, Stays
  <2> QED BY <1>14, <1>c, <2>2 DEF ClearState
<1>15. CASE CleanupHash(t) \/ CleanupCell(t) \/ CleanupTable(t) \/ CleanupStore(t) \/ CleanupRecord(t)
  <2>1. th[t].call = "clear"
    BY <1>15, <1>t DEF CleanupHash, CleanupCell, CleanupTable, CleanupStore, CleanupRecord, Sound, ClearLabels
  <2>2. th'[t].call = "clear" \/ th'[t].pc = "idle"
    <3>1. ASSUME NEW c, NEW l, Set(t, [th[t] EXCEPT !.cur = c, !.pc = l]) PROVE th'[t].call = "clear"
      BY <1>t, <2>1, <3>1 DEF Set, ThreadType, Context
    <3>2. ASSUME NEW l, Set(t, [th[t] EXCEPT !.pc = l]) PROVE th'[t].call = "clear"
      BY <1>t, <2>1, <3>2 DEF Set, ThreadType, Context
    <3>3. CASE Set(t, Idle)
      BY <1>t, <3>3 DEF Set, ThreadType, Idle
    <3>4. CASE CleanupHash(t) \/ CleanupCell(t) \/ CleanupTable(t)
      BY <3>1, <3>2, <3>4 DEF CleanupHash, CleanupCell, CleanupTable, Goto
    <3>5. CASE CleanupStore(t) \/ CleanupRecord(t)
      BY <3>1, <3>3, <3>5 DEF CleanupStore, CleanupRecord
    <3> QED BY <1>15, <3>4, <3>5
  <2> QED BY <1>15, <1>s, <2>2 DEF Stays, CleanupHash, CleanupCell, CleanupTable, CleanupStore, CleanupRecord
<1> QED BY <1>1, <1>2, <1>3, <1>4, <1>6, <1>7, <1>8, <1>9, <1>10, <1>11, <1>12, <1>13, <1>14,
     <1>15 DEF Thread

LEMMA TypeStep == TypeInv /\ [Next]_vars => TypeInv'
<1> SUFFICES ASSUME TypeInv, [Next]_vars PROVE TypeInv'
  OBVIOUS
<1>1. ThreadType /\ ListType /\ FileInv /\ dirty \subseteq Names /\ calls \in 0..MaxCalls
  BY DEF TypeInv
<1>2. ASSUME NEW t \in Threads, Thread(t) PROVE TypeInv'
  BY <1>1, <1>2, ThreadStep, ThreadLists, ThreadFiles DEF TypeInv
<1>s. ASSUME UNCHANGED <<file, th>> PROVE ThreadType' /\ FileInv'
  BY <1>1, <1>s DEF ThreadType, Sound, FileInv, FileType, InCall
<1>3. CASE Other
  <2>1. dirty' \subseteq Names /\ calls' \in 0..MaxCalls
    BY <1>1, <1>3, FSMonAssumption DEF Other, StartOrStopWork, AddMonitorItem, GetOldestRecord, Pop, Fetch, Encrypt
  <2> QED BY <1>1, <1>3, <1>s, <2>1, OtherLists DEF TypeInv
<1>4. CASE UNCHANGED vars
  BY <1>1, <1>4, <1>s, ListSame DEF vars, TypeInv
<1> QED BY <1>2, <1>3, <1>4 DEF Next, Other

LEMMA TypeInvariant == Spec => []TypeInv
BY InitType, TypeStep, PTL DEF Spec

\* The type invariant, for any sizes.
THEOREM Typed == Spec => []TypeOK
<1>1. TypeInv => TypeOK
  BY DEF TypeInv, TypeOK, ThreadType, ListType, FileInv, FileType, Context
<1> QED BY <1>1, TypeInvariant, PTL

-----------------------------------------------------------------------------
(* What is done to a list.                                                 *)

Before(n, s, x)  == [j \in 1..n+1 |-> IF j = 1 THEN x ELSE s[j-1]]
Behind(n, s, x)  == [j \in 1..n+1 |-> IF j = n + 1 THEN x ELSE s[j]]
Without(n, s, i) == [j \in 1..n-1 |-> IF j < i THEN s[j] ELSE s[j+1]]

\* Pointers of other nodes may change.
LEMMA ListKept ==
  ASSUME NEW n, NEW s, NEW from, NEW nodes, NEW next, NEW next2,
         IsList(n, s, from, nodes, next), \A i \in 1..n : next2[s[i]] = next[s[i]]
  PROVE  IsList(n, s, from, nodes, next2)
BY DEF IsList

\* A node is put in front.
LEMMA ListPush ==
  ASSUME NEW n, NEW s, NEW from, NEW nodes, NEW next, NEW next2, NEW x \in nodes,
         IsList(n, s, from, nodes, next), \A i \in 1..n : s[i] # x /\ next2[s[i]] = next[s[i]],
         next2[x] = from
  PROVE  IsList(n + 1, Before(n, s, x), x, nodes, next2)
<1> DEFINE z == Before(n, s, x)
<1>1. n \in Nat /\ s \in [1..n -> nodes] /\ \A i, j \in 1..n : s[i] = s[j] => i = j
  BY DEF IsList
<1>2. from = (IF n = 0 THEN Nil ELSE s[1]) /\ \A i \in 1..n : next[s[i]] = IF i = n THEN Nil ELSE s[i+1]
  BY DEF IsList
<1>3. z \in [1..n+1 -> nodes] /\ z[1] = x /\ \A i \in 1..n : z[i+1] = s[i]
  BY <1>1 DEF Before
<1>4. \A i \in 2..n+1 : i - 1 \in 1..n /\ z[i] = s[i-1]
  BY <1>1 DEF Before
<1> HIDE DEF z
<1>5. \A i, j \in 1..n+1 : z[i] = z[j] => i = j
  <2> SUFFICES ASSUME NEW i \in 1..n+1, NEW j \in 1..n+1, z[i] = z[j] PROVE i = j
    OBVIOUS
  <2>1. CASE i = 1 /\ j = 1
    BY <2>1
  <2>2. CASE i = 1 /\ j # 1
    <3>1. j \in 2..n+1
      BY <1>1, <2>2
    <3> QED BY <1>3, <1>4, <2>2, <3>1
  <2>3. CASE i # 1 /\ j = 1
    <3>1. i \in 2..n+1
      BY <1>1, <2>3
    <3> QED BY <1>3, <1>4, <2>3, <3>1
  <2>4. CASE i # 1 /\ j # 1
    <3>1. i \in 2..n+1 /\ j \in 2..n+1
      BY <1>1, <2>4
    <3>2. i - 1 \in 1..n /\ j - 1 \in 1..n /\ s[i-1] = s[j-1]
      BY <1>4, <3>1
    <3>3. i - 1 = j - 1
      BY <1>1, <3>2
    <3> QED BY <3>1, <3>3
  <2> QED BY <2>1, <2>2, <2>3, <2>4
<1>6. \A i \in 1..n+1 : next2[z[i]] = IF i = n + 1 THEN Nil ELSE z[i+1]
  <2> SUFFICES ASSUME NEW i \in 1..n+1 PROVE next2[z[i]] = IF i = n + 1 THEN Nil ELSE z[i+1]
    OBVIOUS
  <2>1. CASE i = 1
    <3>1. CASE n = 0
      BY <1>2, <1>3, <2>1, <3>1
    <3>2. CASE n # 0
      <4>1. 1 \in 1..n /\ z[1+1] = s[1]
        BY <1>1, <1>3, <3>2
      <4> QED BY <1>1, <1>2, <1>3, <2>1, <3>2, <4>1
    <3> QED BY <3>1, <3>2
  <2>2. CASE i # 1
    <3>1. i \in 2..n+1
      BY <1>1, <2>2
    <3>2. i - 1 \in 1..n /\ next2[z[i]] = IF i - 1 = n THEN Nil ELSE s[i-1+1]
      BY <1>2, <1>4, <3>1
    <3>3. CASE i = n + 1
      BY <1>1, <3>2, <3>3
    <3>4. CASE i # n + 1
      <4>1. i \in 1..n /\ i - 1 + 1 = i /\ i - 1 # n
        BY <1>1, <3>4
      <4> QED BY <1>3, <3>2, <3>4, <4>1
    <3> QED BY <3>3, <3>4
  <2> QED BY <2>1, <2>2
<1>7. n + 1 \in Nat /\ n + 1 # 0
  BY <1>1
<1>8. IsList(n + 1, z, x, nodes, next2)
  BY <1>3, <1>5, <1>6, <1>7 DEF IsList
<1> QED BY <1>8 DEF z

\* A node is put behind the last.
LEMMA ListAppend ==
  ASSUME NEW n, NEW s, NEW from, NEW from2, NEW nodes, NEW next, NEW next2, NEW x \in nodes,
         IsList(n, s, from, nodes, next), \A i \in 1..n : s[i] # x,
         \A i \in 1..n : i # n => next2[s[i]] = next[s[i]],
         n # 0 => next2[s[n]] = x /\ from2 = from, n = 0 => from2 = x, next2[x] = Nil
  PROVE  IsList(n + 1, Behind(n, s, x), from2, nodes, next2)
<1> DEFINE z == Behind(n, s, x)
<1>1. n \in Nat /\ s \in [1..n -> nodes] /\ \A i, j \in 1..n : s[i] = s[j] => i = j
  BY DEF IsList
<1>2. from = (IF n = 0 THEN Nil ELSE s[1]) /\ \A i \in 1..n : next[s[i]] = IF i = n THEN Nil ELSE s[i+1]
  BY DEF IsList
<1>3. z \in [1..n+1 -> nodes] /\ z[n+1] = x /\ \A i \in 1..n : z[i] = s[i]
  BY <1>1 DEF Behind
<1>4. \A i \in 1..n+1 : i \in 1..n \/ i = n + 1
  BY <1>1
<1> HIDE DEF z
<1>5. \A i, j \in 1..n+1 : z[i] = z[j] => i = j
  BY <1>1, <1>3, <1>4
<1>6. from2 = z[1]
  BY <1>1, <1>2, <1>3
<1>7. \A i \in 1..n+1 : next2[z[i]] = IF i = n + 1 THEN Nil ELSE z[i+1]
  <2> SUFFICES ASSUME NEW i \in 1..n+1 PROVE next2[z[i]] = IF i = n + 1 THEN Nil ELSE z[i+1]
    OBVIOUS
  <2>1. CASE i = n + 1
    BY <1>3, <2>1
  <2>2. CASE i = n /\ n # 0
    BY <1>1, <1>3, <2>2
  <2>3. CASE i \in 1..n /\ i # n
    <3>1. i + 1 \in 1..n
      BY <1>1, <2>3
    <3> QED BY <1>1, <1>2, <1>3, <2>3, <3>1
  <2> QED BY <1>1, <1>4, <2>1, <2>2, <2>3
<1> QED BY <1>1, <1>3, <1>5, <1>6, <1>7 DEF IsList, z

\* The node at i is taken out.
LEMMA ListRemove ==
  ASSUME NEW n, NEW s, NEW from, NEW from2, NEW nodes, NEW next, NEW next2, NEW i \in 1..n,
         IsList(n, s, from, nodes, next),
         \A j \in 1..n : j # i /\ j # i - 1 => next2[s[j]] = next[s[j]],
         i # 1 => next2[s[i-1]] = next[s[i]] /\ from2 = from, i = 1 => from2 = next[s[i]]
  PROVE  /\ IsList(n - 1, Without(n, s, i), from2, nodes, next2)
         /\ \A j \in 1..n-1 : \E k \in 1..n : k # i /\ Without(n, s, i)[j] = s[k]
<1> DEFINE z == Without(n, s, i)
<1>1. n \in Nat /\ n - 1 \in Nat /\ s \in [1..n -> nodes] /\ \A j, k \in 1..n : s[j] = s[k] => j = k
  BY DEF IsList
<1>2. from = (IF n = 0 THEN Nil ELSE s[1]) /\ \A j \in 1..n : next[s[j]] = IF j = n THEN Nil ELSE s[j+1]
  BY DEF IsList
<1>3. \A j \in 1..n-1 : j \in 1..n /\ j + 1 \in 1..n /\ z[j] = IF j < i THEN s[j] ELSE s[j+1]
  BY <1>1 DEF Without
<1>4. z \in [1..n-1 -> nodes]
  BY <1>1 DEF Without
<1> HIDE DEF z
<1>5. \A j, k \in 1..n-1 : z[j] = z[k] => j = k
  <2> SUFFICES ASSUME NEW j \in 1..n-1, NEW k \in 1..n-1, z[j] = z[k] PROVE j = k
    OBVIOUS
  <2>1. PICK jj : jj = IF j < i THEN j ELSE j + 1
    OBVIOUS
  <2>2. PICK kk : kk = IF k < i THEN k ELSE k + 1
    OBVIOUS
  <2>3. jj \in 1..n /\ kk \in 1..n /\ s[jj] = s[kk]
    BY <1>3, <2>1, <2>2
  <2>4. jj = kk
    BY <1>1, <2>3
  <2> QED BY <1>1, <2>1, <2>2, <2>4
<1>6. from2 = IF n - 1 = 0 THEN Nil ELSE z[1]
  <2>1. CASE i = 1
    <3>1. CASE n = 1
      BY <1>2, <2>1, <3>1
    <3>2. CASE n # 1
      <4>1. 1 \in 1..n-1
        BY <1>1, <3>2
      <4> QED BY <1>2, <1>3, <2>1, <3>2, <4>1
    <3> QED BY <3>1, <3>2
  <2>2. CASE i # 1
    <3>1. 1 \in 1..n-1 /\ 1 < i
      BY <1>1, <2>2
    <3> QED BY <1>1, <1>2, <1>3, <2>2, <3>1
  <2> QED BY <2>1, <2>2
<1>7. \A j \in 1..n-1 : next2[z[j]] = IF j = n - 1 THEN Nil ELSE z[j+1]
  <2> SUFFICES ASSUME NEW j \in 1..n-1 PROVE next2[z[j]] = IF j = n - 1 THEN Nil ELSE z[j+1]
    OBVIOUS
  <2>1. CASE j = i - 1
    <3>1. z[j] = s[i-1] /\ i # 1 /\ j + 1 = i
      BY <1>1, <1>3, <2>1
    <3>2. next2[z[j]] = IF i = n THEN Nil ELSE s[i+1]
      BY <1>2, <3>1
    <3>3. CASE j = n - 1
      BY <1>1, <2>1, <3>2, <3>3
    <3>4. CASE j # n - 1
      <4>1. j + 1 \in 1..n-1 /\ ~(j + 1 < i) /\ i # n
        BY <1>1, <2>1, <3>4
      <4>2. z[j+1] = s[i+1]
        BY <1>3, <3>1, <4>1
      <4> QED BY <3>2, <3>4, <4>1, <4>2
    <3> QED BY <3>3, <3>4
  <2>2. CASE j < i - 1
    <3>1. j \in 1..n /\ j + 1 \in 1..n-1 /\ j < i /\ j + 1 < i /\ j # i /\ j # i - 1 /\ j # n /\ j # n - 1
      BY <1>1, <2>2
    <3>2. z[j] = s[j] /\ z[j+1] = s[j+1]
      BY <1>3, <3>1
    <3>3. next2[s[j]] = s[j+1]
      BY <1>2, <3>1
    <3> QED BY <3>1, <3>2, <3>3
  <2>3. CASE j >= i
    <3>1. j + 1 \in 1..n /\ ~(j < i) /\ j + 1 # i /\ j + 1 # i - 1
      BY <1>1, <2>3
    <3>2. z[j] = s[j+1]
      BY <1>3, <3>1
    <3>3. next2[s[j+1]] = IF j + 1 = n THEN Nil ELSE s[j+1+1]
      BY <1>2, <3>1
    <3>4. CASE j = n - 1
      BY <1>1, <3>2, <3>3, <3>4
    <3>5. CASE j # n - 1
      <4>1. j + 1 \in 1..n-1 /\ ~(j + 1 < i) /\ j + 1 # n
        BY <1>1, <2>3, <3>5
      <4>2. z[j+1] = s[j+1+1]
        BY <1>3, <4>1
      <4> QED BY <3>2, <3>3, <3>5, <4>1, <4>2
    <3> QED BY <3>4, <3>5
  <2> QED BY <1>1, <2>1, <2>2, <2>3
<1>8. ASSUME NEW j \in 1..n-1 PROVE \E k \in 1..n : k # i /\ z[j] = s[k]
  <2>1. CASE j < i
    BY <1>3, <2>1
  <2>2. CASE ~(j < i)
    <3>1. j + 1 \in 1..n /\ j + 1 # i /\ z[j] = s[j+1]
      BY <1>1, <1>3, <2>2
    <3> QED BY <3>1
  <2> QED BY <2>1, <2>2
<1> QED BY <1>1, <1>4, <1>5, <1>6, <1>7, <1>8 DEF IsList, z

-----------------------------------------------------------------------------
(* The table.                                                              *)

\* Parts of a call in which the thread owns the entry that it has in hand.
Holding    == {"log", "push", "record", "append", "free"}
HashLabels == Holding \cup {"unlink", "clearcell", "clearall"}

NextCell == [c \in Cells |-> cell[c].next]

Owns(t, n, s) ==
  th[t].pc \in Holding => th[t].cur \in live /\ \A i \in 1..n : s[i] # th[t].cur

\* What a thread has read is still so.
Poised(t, n, s) ==
  /\ th[t].pc = "push" => cell[th[t].cur].next = head
  /\ th[t].pc = "unlink" => \E i \in 1..n : /\ th[t].cur = s[i]
                                            /\ th[t].prev = IF i = 1 THEN Nil ELSE s[i-1]
  /\ th[t].pc = "clearcell" => n > 0 /\ th[t].cur = s[1]
  /\ th[t].pc = "clearall" => n = 0

\* Every allocated cell is in one place: in the table or with one thread.
Place(n, s) ==
  /\ Table(n, s)
  /\ \A t \in Threads : Owns(t, n, s)
  /\ \A t, u \in Threads : th[t].pc \in Holding /\ th[u].pc \in Holding /\ t # u => th[t].cur # th[u].cur
  /\ \A t \in Threads : Poised(t, n, s)

HashInv == \E n, s : Place(n, s)

\* t changes only the node x, which is not in the table and no other thread's.
LEMMA HashPrivate ==
  ASSUME ThreadType, ListType, NEW n, NEW s, Place(n, s), NEW t \in Threads,
         \A u \in Threads \ {t} : th'[u] = th[u], UNCHANGED head, NEW x,
         \A c \in Cells \ {x} : cell'[c].next = cell[c].next /\ (c \in live => c \in live'),
         \A i \in 1..n : s[i] # x,
         \A u \in Threads \ {t} : th[u].pc \in Holding => th[u].cur # x,
         th'[t].pc \in Holding =>
           /\ th'[t].cur \in live' /\ \A i \in 1..n : s[i] # th'[t].cur
           /\ \A u \in Threads \ {t} : th[u].pc \in Holding => th[u].cur # th'[t].cur,
         Poised(t, n, s)'
  PROVE  Place(n, s)'
<1>1. IsList(n, s, head, Cells, NextCell) /\ \A i \in 1..n : s[i] \in live /\ s[i] \in Cells
  BY DEF Place, Table, NextCell, IsList
<1>2. \A i \in 1..n : NextCell'[s[i]] = NextCell[s[i]] /\ s[i] \in live'
  BY <1>1 DEF NextCell
<1>3. IsList(n, s, head', Cells, NextCell')
  BY <1>1, <1>2, ListKept
<1>4. Table(n, s)'
  BY <1>2, <1>3 DEF Table, NextCell, IsList
<1>5. ASSUME NEW u \in Threads \ {t}, th[u].pc \in Holding
      PROVE  th[u].cur \in live' /\ (\A i \in 1..n : s[i] # th[u].cur) /\ cell'[th[u].cur].next = cell[th[u].cur].next
  <2>1. th[u].cur \in Cells /\ th[u].cur \in live /\ \A i \in 1..n : s[i] # th[u].cur
    BY <1>5 DEF Place, Owns, ThreadType, Sound, Holding, CellLabels
  <2> QED BY <1>5, <2>1
<1>6. \A u \in Threads : Owns(u, n, s)'
  BY <1>5 DEF Owns
<1>7. \A u, v \in Threads : th'[u].pc \in Holding /\ th'[v].pc \in Holding /\ u # v => th'[u].cur # th'[v].cur
  BY DEF Place
<1>8. ASSUME NEW u \in Threads \ {t} PROVE Poised(u, n, s)'
  <2>1. Poised(u, n, s)
    BY DEF Place
  <2>2. th'[u].pc = "push" => cell'[th'[u].cur].next = head'
    BY <1>5, <2>1 DEF Poised, Holding
  <2> QED BY <2>1, <2>2 DEF Poised
<1> QED BY <1>4, <1>6, <1>7, <1>8 DEF Place, Holding

\* t leaves the table as it is and comes to a part that does not use it.
LEMMA HashPlain ==
  ASSUME ThreadType, ListType, NEW n, NEW s, Place(n, s), NEW t \in Threads,
         \A u \in Threads \ {t} : th'[u] = th[u], UNCHANGED head,
         \A c \in Cells : cell'[c].next = cell[c].next /\ (c \in live => c \in live'),
         th'[t].pc \notin HashLabels
  PROVE  Place(n, s)'
<1>1. Nil \notin Cells
  BY FSMonAssumption
<1>2. \A i \in 1..n : s[i] # Nil
  BY <1>1 DEF Place, Table, IsList
<1>3. \A u \in Threads : th[u].pc \in Holding => th[u].cur # Nil
  BY <1>1 DEF ThreadType, Sound, Holding, CellLabels
<1>4. Poised(t, n, s)' /\ th'[t].pc \notin Holding
  BY DEF Poised, HashLabels, Holding
<1> QED BY <1>2, <1>3, <1>4, HashPrivate

\* t keeps the entry that it owns.
LEMMA HashHold ==
  ASSUME ThreadType, ListType, NEW n, NEW s, Place(n, s), NEW t \in Threads,
         \A u \in Threads \ {t} : th'[u] = th[u], UNCHANGED <<head, cell>>,
         \A c \in Cells : c \in live => c \in live',
         th[t].pc \in Holding, th'[t].pc \in {"record", "append", "free"}, th'[t].cur = th[t].cur
  PROVE  Place(n, s)'
<1>1. Nil \notin Cells
  BY FSMonAssumption
<1>2. \A i \in 1..n : s[i] # Nil
  BY <1>1 DEF Place, Table, IsList
<1>3. \A u \in Threads : th[u].pc \in Holding => th[u].cur # Nil
  BY <1>1 DEF ThreadType, Sound, Holding, CellLabels
<1>4. Poised(t, n, s)'
  BY DEF Poised
<1>5. th[t].cur \in Cells /\ th[t].cur \in live /\ \A i \in 1..n : s[i] # th[t].cur
  BY DEF Place, Owns, ThreadType, Sound, Holding, CellLabels
<1>6. \A u \in Threads \ {t} : th[u].pc \in Holding => th[u].cur # th[t].cur
  BY DEF Place
<1> QED BY <1>2, <1>3, <1>4, <1>5, <1>6, HashPrivate

LEMMA HashSame ==
  ASSUME NEW n, NEW s, Place(n, s), ThreadType, UNCHANGED <<head, cell, th>>,
         \A c \in Cells : c \in live => c \in live'
  PROVE  Place(n, s)'
<1>1. \A i \in 1..n : s[i] \in Cells
  BY DEF Place, Table, IsList
<1>2. Table(n, s)'
  BY <1>1 DEF Place, Table
<1>3. ASSUME NEW t \in Threads PROVE Owns(t, n, s)'
  BY DEF Place, Owns, ThreadType, Sound, Holding, CellLabels
<1>4. ASSUME NEW t \in Threads PROVE Poised(t, n, s)'
  BY DEF Place, Poised
<1> QED BY <1>2, <1>3, <1>4 DEF Place, Holding

LEMMA SetIs ==
  ASSUME ThreadType, NEW t \in Threads, NEW c, Set(t, c)
  PROVE  th'[t] = c
BY DEF Set, ThreadType

LEMMA SetPlain ==
  ASSUME ThreadType, NEW t \in Threads
  PROVE  /\ Set(t, Idle) => th'[t].pc = "idle"
         /\ \A l : Goto(t, l) => th'[t].pc = l /\ th'[t].cur = th[t].cur
         /\ \A l : Pass(t, l) => th'[t].pc = l
         /\ \A l : Leave(t, l) => th'[t].pc = l
         /\ AfterFree(t) => th'[t].pc \in {"idle", "lower"}
<1>t. th[t] \in Context
  BY DEF ThreadType
<1>i. Idle.pc = "idle"
  BY DEF Idle
<1>1. ASSUME Set(t, Idle) PROVE th'[t].pc = "idle"
  <2>1. th'[t] = Idle
    BY <1>1, SetIs
  <2> QED BY <1>i, <2>1
<1>2. ASSUME NEW l, Goto(t, l) PROVE th'[t].pc = l /\ th'[t].cur = th[t].cur
  <2>1. th'[t] = [th[t] EXCEPT !.pc = l]
    BY <1>2, SetIs DEF Goto
  <2> QED BY <1>t, <2>1 DEF Context
<1>3. ASSUME NEW l, Pass(t, l) PROVE th'[t].pc = l
  <2>1. CASE l = "idle"
    BY <1>1, <1>3, <2>1 DEF Pass
  <2>2. CASE l # "idle"
    <3>1. Set(t, [th[t] EXCEPT !.pc = l, !.seen = FALSE])
      BY <1>3, <2>2 DEF Pass
    <3>2. th'[t] = [th[t] EXCEPT !.pc = l, !.seen = FALSE]
      BY <3>1, SetIs
    <3> QED BY <1>t, <3>2 DEF Context
  <2> QED BY <2>1, <2>2
<1>4. ASSUME NEW l, Leave(t, l) PROVE th'[t].pc = l
  BY <1>1, <1>2, <1>4 DEF Leave
<1>5. ASSUME AfterFree(t) PROVE th'[t].pc \in {"idle", "lower"}
  <2>1. CASE Set(t, Idle)
    BY <1>1, <2>1
  <2>2. CASE Set(t, [th[t] EXCEPT !.cur = Nil, !.prev = Nil, !.pc = "lower"])
    <3>1. th'[t] = [th[t] EXCEPT !.cur = Nil, !.prev = Nil, !.pc = "lower"]
      BY <2>2, SetIs
    <3> QED BY <1>t, <3>1 DEF Context
  <2> QED BY <1>5, <2>1, <2>2 DEF AfterFree
<1> QED BY <1>1, <1>2, <1>3, <1>4, <1>5

\* Marking an entry leaves the chain as it is.
LEMMA FlagNext ==
  ASSUME ListType, NEW t, NEW from, SetWriteFlag(t, from)
  PROVE  \A c \in Cells : /\ cell'[c].next = cell[c].next /\ cell'[c].obj = cell[c].obj
                          /\ cell'[c].name = cell[c].name
<1>4. PICK e : e = Lookup(th[t].obj)
  OBVIOUS
<1>2. e.cur \in Cells \cup {Nil}
  BY <1>4, LookupType
<1>5. cell' = IF ~e.bad /\ e.cur # Nil /\ cell[e.cur].type = from
              THEN [cell EXCEPT ![e.cur].type = "MODIFIED"] ELSE cell
  BY <1>4 DEF SetWriteFlag
<1>6. CASE cell' = cell
  BY <1>6
<1>7. CASE e.cur # Nil /\ cell' = [cell EXCEPT ![e.cur].type = "MODIFIED"]
  BY <1>2, <1>7 DEF ListType
<1> QED BY <1>5, <1>6, <1>7

\* A new entry is the thread's own.
LEMMA LogHashInv ==
  ASSUME ThreadType, ListType, NEW n, NEW s, Place(n, s), NEW t \in Threads,
         \A u \in Threads \ {t} : th'[u] = th[u],
         NEW m, NEW type, NEW l \in {"find", "lower", "idle"}, Log(t, m, type, l)
  PROVE  Place(n, s)'
<1>1. CASE UNCHANGED lists /\ Pass(t, l)
  <2>1. th'[t].pc = l
    BY <1>1, SetPlain
  <2>2. th'[t].pc \notin HashLabels
    BY <2>1 DEF HashLabels, Holding
  <2> QED BY <1>1, <2>2, HashPlain DEF lists
<1>2. CASE Pass(t, l) /\ UNCHANGED <<live, cell, head>>
  <2>1. th'[t].pc = l
    BY <1>2, SetPlain
  <2>2. th'[t].pc \notin HashLabels
    BY <2>1 DEF HashLabels, Holding
  <2> QED BY <1>2, <2>2, HashPlain
<1>3. ASSUME NEW c \in Cells \ live, live' = live \cup {c}, UNCHANGED head,
             cell' = [cell EXCEPT ![c] = [next |-> Nil, obj |-> th[t].obj, name |-> m, type |-> type]],
             Set(t, [th[t] EXCEPT !.pc = "log", !.cur = c])
      PROVE  Place(n, s)'
  <2>1. th'[t] = [th[t] EXCEPT !.pc = "log", !.cur = c]
    BY <1>3, SetIs
  <2>2. th'[t].pc = "log" /\ th'[t].cur = c
    BY <2>1 DEF ThreadType, Context
  <2>3. \A i \in 1..n : s[i] # c
    BY <1>3 DEF Place, Table
  <2>4. \A u \in Threads : th[u].pc \in Holding => th[u].cur # c
    BY <1>3 DEF Place, Owns
  <2>5. \A d \in Cells \ {c} : cell'[d].next = cell[d].next /\ (d \in live => d \in live')
    BY <1>3 DEF ListType
  <2>6. Poised(t, n, s)'
    BY <2>2 DEF Poised
  <2>7. c \in live'
    BY <1>3
  <2> QED BY <1>3, <2>2, <2>3, <2>4, <2>5, <2>6, <2>7, HashPrivate
<1> QED BY <1>1, <1>2, <1>3 DEF Log

\* Reading, marking and freeing entries.
LEMMA HashEntry ==
  ASSUME ThreadType, ListType, NEW n, NEW s, Place(n, s), NEW t \in Threads,
         \A u \in Threads \ {t} : th'[u] = th[u],
         GetFullPath(t) \/ ParseReName(t) \/ LogHash(t) \/ MarkWritten(t) \/ Find(t) \/ Free(t)
  PROVE  Place(n, s)'
<1>t. th[t] \in Context /\ Sound(th[t])
  BY DEF ThreadType
<1>1. CASE GetFullPath(t)
  <2>0. th[t].call \in {"create", "write", "fastwrite", "cleanup", "close"}
    BY <1>1, <1>t DEF GetFullPath, Sound, Context, AllCalls, ClearLabels
  <2>1. CASE UNCHANGED <<th, lists>>
    <3>1. th'[t].pc = "lookup"
      BY <1>1, <2>1 DEF GetFullPath
    <3>2. th'[t].pc \notin HashLabels
      BY <3>1 DEF HashLabels, Holding
    <3> QED BY <2>1, <3>2, HashPlain DEF lists
  <2>2. CASE Goto(t, Named(th[t].call)) /\ UNCHANGED lists
    <3>1. th'[t].pc \in {"setflag", "find", "lower"}
      BY <2>0, <2>2, SetPlain, CallNames
    <3>2. th'[t].pc \notin HashLabels
      BY <3>1 DEF HashLabels, Holding
    <3> QED BY <2>2, <3>2, HashPlain DEF lists
  <2>3. CASE Log(t, file[th[t].obj].opened, "NORMAL", Unnamed(th[t].call))
    <3>1. Unnamed(th[t].call) \in {"find", "lower", "idle"}
      BY <2>0, CallNames
    <3> QED BY <2>3, <3>1, LogHashInv
  <2> QED BY <1>1, <2>1, <2>2, <2>3 DEF GetFullPath
<1>2. CASE ParseReName(t)
  <2>1. CASE Goto(t, "lower") /\ UNCHANGED lists
    <3>1. th'[t].pc = "lower"
      BY <2>1, SetPlain
    <3>2. th'[t].pc \notin HashLabels
      BY <3>1 DEF HashLabels, Holding
    <3> QED BY <2>1, <3>2, HashPlain DEF lists
  <2>2. CASE Log(t, th[t].to, "RENAME", "lower")
    BY <2>2, LogHashInv
  <2> QED BY <1>2, <2>1, <2>2 DEF ParseReName
<1>3. CASE LogHash(t)
  <2>1. th'[t].pc = "push" /\ th'[t].cur = th[t].cur
    BY <1>3, SetPlain DEF LogHash
  <2>2. th[t].cur \in Cells /\ th[t].pc \in Holding
    BY <1>3, <1>t DEF LogHash, Sound, CellLabels, Holding
  <2>3. cell' = [cell EXCEPT ![th[t].cur].next = head] /\ UNCHANGED <<head, live>>
    BY <1>3 DEF LogHash
  <2>4. cell'[th[t].cur].next = head' /\ \A c \in Cells \ {th[t].cur} : cell'[c].next = cell[c].next
    BY <2>2, <2>3 DEF ListType
  <2>5. Poised(t, n, s)'
    BY <2>1, <2>4 DEF Poised
  <2>6. th[t].cur \in live /\ \A i \in 1..n : s[i] # th[t].cur
    BY <2>2 DEF Place, Owns
  <2>7. \A u \in Threads \ {t} : th[u].pc \in Holding => th[u].cur # th[t].cur
    BY <2>2 DEF Place
  <2>8. PICK x : x = th[t].cur
    OBVIOUS
  <2>9. /\ \A c \in Cells \ {x} : cell'[c].next = cell[c].next /\ (c \in live => c \in live')
        /\ UNCHANGED head
    BY <2>3, <2>4, <2>8
  <2>10. x \in live' /\ th'[t].cur = x
    BY <2>1, <2>3, <2>6, <2>8
  <2> QED BY <2>5, <2>6, <2>7, <2>8, <2>9, <2>10, HashPrivate
<1>4. CASE MarkWritten(t)
  <2>1. th'[t].pc \in {"lower", "idle"}
    BY <1>4, SetPlain DEF MarkWritten
  <2>2. th'[t].pc \notin HashLabels
    BY <2>1 DEF HashLabels, Holding
  <2>3. \A c \in Cells : cell'[c].next = cell[c].next
    BY <1>4, FlagNext DEF MarkWritten
  <2>4. UNCHANGED <<head, live>>
    BY <1>4 DEF MarkWritten
  <2> QED BY <2>2, <2>3, <2>4, HashPlain
<1>5. CASE Find(t)
  <2>1. PICK e : e = Lookup(th[t].obj)
    OBVIOUS
  <2>2. UNCHANGED lists
    BY <1>5 DEF Find
  <2>3. CASE e.cur = Nil
    <3>1. th'[t].pc \in {"idle", "lower"}
      BY <1>5, <2>1, <2>3, SetPlain DEF Find
    <3>2. th'[t].pc \notin HashLabels
      BY <3>1 DEF HashLabels, Holding
    <3> QED BY <2>2, <3>2, HashPlain DEF lists
  <2>4. CASE e.cur # Nil
    <3>1. Set(t, [th[t] EXCEPT !.pc = "unlink", !.cur = e.cur, !.prev = e.prev])
      BY <1>5, <2>1, <2>4 DEF Find
    <3>2. th'[t] = [th[t] EXCEPT !.pc = "unlink", !.cur = e.cur, !.prev = e.prev]
      BY <3>1, SetIs
    <3>3. th'[t].pc = "unlink" /\ th'[t].cur = e.cur /\ th'[t].prev = e.prev
      BY <1>t, <3>2 DEF Context
    <3>4. PICK i \in 1..n : e.cur = s[i] /\ e.prev = IF i = 1 THEN Nil ELSE s[i-1]
      <4>1. Table(n, s) /\ live \subseteq Cells \cup Records
        BY DEF Place, ListType
      <4>2. PICK o : o = th[t].obj
        OBVIOUS
      <4>3. \/ Lookup(o).cur = Nil
            \/ \E i \in 1..n : Lookup(o).cur = s[i] /\ Lookup(o).prev = IF i = 1 THEN Nil ELSE s[i-1]
        <5>1. Found(n, s, o)
          BY <4>1, LookupList
        <5> QED BY <5>1 DEF Found
      <4>4. e = Lookup(o)
        BY <2>1, <4>2
      <4> QED BY <2>4, <4>3, <4>4
    <3>5. Poised(t, n, s)'
      BY <3>3, <3>4 DEF Poised
    <3>6. th'[t].pc \notin Holding
      BY <3>3 DEF Holding
    <3>7. Nil \notin Cells
      BY FSMonAssumption
    <3>8. \A j \in 1..n : s[j] # Nil
      BY <3>7 DEF Place, Table, IsList
    <3>9. \A u \in Threads : th[u].pc \in Holding => th[u].cur # Nil
      BY <3>7 DEF ThreadType, Sound, Holding, CellLabels
    <3>10. UNCHANGED <<head, cell, live>>
      BY <2>2 DEF lists
    <3> QED BY <3>5, <3>6, <3>8, <3>9, <3>10, HashPrivate
  <2> QED BY <2>3, <2>4
<1>6. CASE Free(t)
  <2>1. th'[t].pc \in {"lower", "idle"}
    BY <1>6, SetPlain DEF Free
  <2>2. th'[t].pc \notin HashLabels
    BY <2>1 DEF HashLabels, Holding
  <2>3. th[t].cur \in Cells /\ th[t].pc \in Holding
    BY <1>6, <1>t DEF Free, Sound, CellLabels, Holding
  <2>4. \A c \in Cells \ {th[t].cur} : cell'[c].next = cell[c].next /\ (c \in live => c \in live')
    BY <1>6, <2>3 DEF Free, ListType
  <2>5. \A i \in 1..n : s[i] # th[t].cur
    BY <2>3 DEF Place, Owns
  <2>6. \A u \in Threads \ {t} : th[u].pc \in Holding => th[u].cur # th[t].cur
    BY <2>3 DEF Place
  <2>7. Poised(t, n, s)' /\ th'[t].pc \notin Holding /\ UNCHANGED head
    BY <1>6, <2>2 DEF Poised, HashLabels, Free, Holding
  <2> QED BY <2>4, <2>5, <2>6, <2>7, HashPrivate
<1> QED BY <1>1, <1>2, <1>3, <1>4, <1>5, <1>6

\* t writes the table while nobody else has read a pointer of it.
LEMMA HashWrite ==
  ASSUME NEW n, NEW s, Place(n, s), NEW t \in Threads, \A u \in Threads \ {t} : th'[u] = th[u],
         InHash \ {t} = {}, NEW n2, NEW s2, Table(n2, s2)',
         \A u \in Threads \ {t} : th[u].pc \in Holding =>
           th[u].cur \in live' /\ \A i \in 1..n2 : s2[i] # th[u].cur,
         th'[t].pc \in Holding =>
           /\ th'[t].cur \in live' /\ \A i \in 1..n2 : s2[i] # th'[t].cur
           /\ \A u \in Threads \ {t} : th[u].pc \in Holding => th[u].cur # th'[t].cur,
         th'[t].pc \notin {"push", "unlink", "clearcell", "clearall"}
  PROVE  Place(n2, s2)'
<1>1. \A u \in Threads : Owns(u, n2, s2)'
  BY DEF Owns
<1>2. \A u, v \in Threads : th'[u].pc \in Holding /\ th'[v].pc \in Holding /\ u # v => th'[u].cur # th'[v].cur
  BY DEF Place
<1>3. ASSUME NEW u \in Threads PROVE Poised(u, n2, s2)'
  <2>1. th'[u].pc \notin {"push", "unlink", "clearcell", "clearall"}
    BY DEF InHash
  <2> QED BY <2>1 DEF Poised
<1> QED BY <1>1, <1>2, <1>3 DEF Place, Holding

\* An entry of the table is live, and no thread owns it.
LEMMA Entry ==
  ASSUME ThreadType, NEW n, NEW s, Place(n, s)
  PROVE  /\ n \in Nat /\ IsList(n, s, head, Cells, NextCell)
         /\ \A i \in 1..n : s[i] \in Cells /\ s[i] \in live /\ s[i] # Nil /\ NextCell[s[i]] = cell[s[i]].next
         /\ \A i, j \in 1..n : s[i] = s[j] => i = j
         /\ \A u \in Threads : th[u].pc \in Holding =>
              th[u].cur \in Cells /\ th[u].cur \in live /\ \A i \in 1..n : s[i] # th[u].cur
<1>1. Nil \notin Cells
  BY FSMonAssumption
<1>2. n \in Nat /\ IsList(n, s, head, Cells, NextCell)
  BY DEF Place, Table, NextCell, IsList
<1>3. \A i \in 1..n : s[i] \in Cells /\ s[i] \in live
  BY DEF Place, Table, IsList
<1>4. \A i, j \in 1..n : s[i] = s[j] => i = j
  BY DEF Place, Table, IsList
<1>5. \A u \in Threads : th[u].pc \in Holding =>
              th[u].cur \in Cells /\ th[u].cur \in live /\ \A i \in 1..n : s[i] # th[u].cur
  BY DEF Place, Owns, ThreadType, Sound, Holding, CellLabels
<1>6. \A i \in 1..n : s[i] # Nil /\ NextCell[s[i]] = cell[s[i]].next
  BY <1>1, <1>3 DEF NextCell
<1> QED BY <1>2, <1>3, <1>4, <1>5, <1>6

LEMMA NodesOf ==
  ASSUME NEW nodes, IsFiniteSet(nodes), Nil \notin nodes, NEW from, NEW next,
         NEW n, NEW s, IsList(n, s, from, nodes, next)
  PROVE  {Walk(from, nodes, next)[i] : i \in DOMAIN Walk(from, nodes, next)} \ {Nil} = {s[i] : i \in 1..n}
<1>m. PICK k : k = Cardinality(nodes)
  OBVIOUS
<1>a. PICK at : at = Walk(from, nodes, next)
  OBVIOUS
<1>1. n \in 0..k /\ k \in Nat /\ at = [i \in 0..k |-> IF i < n THEN s[i+1] ELSE Nil]
  BY <1>m, <1>a, WalkList, FS_CardinalityType
<1>2. \A i \in 1..n : s[i] # Nil
  BY DEF IsList
<1>3. ASSUME NEW x \in {at[i] : i \in DOMAIN at} \ {Nil} PROVE x \in {s[i] : i \in 1..n}
  <2>1. PICK i \in 0..k : x = at[i] /\ x # Nil
    BY <1>1, <1>3
  <2>2. x = s[i+1] /\ i + 1 \in 1..n
    BY <1>1, <2>1
  <2> QED BY <2>2
<1>4. ASSUME NEW x \in {s[i] : i \in 1..n} PROVE x \in {at[i] : i \in DOMAIN at} \ {Nil}
  <2>1. PICK i \in 1..n : x = s[i]
    BY <1>4
  <2>2. i - 1 \in 0..k /\ at[i-1] = s[i]
    BY <1>1, <2>1
  <2>3. i - 1 \in DOMAIN at
    BY <1>1, <2>2
  <2> QED BY <1>2, <2>1, <2>2, <2>3
<1>5. {at[i] : i \in DOMAIN at} \ {Nil} = {s[i] : i \in 1..n}
  BY <1>3, <1>4
<1> QED BY <1>a, <1>5

\* The chain has the entries of the table.
LEMMA ChainIs ==
  ASSUME NEW n, NEW s, Table(n, s)
  PROVE  InChain = {s[i] : i \in 1..n}
BY NodesOf, FSMonAssumption DEF Table, InChain, Chain

LEMMA ChainNext ==
  ASSUME NEW n, NEW s, Table(n, s)'
  PROVE  InChain' = {s[i] : i \in 1..n}
<1>1. PICK h, p : h = head' /\ p = [c \in Cells |-> cell'[c].next]
  OBVIOUS
<1>2. IsList(n, s, h, Cells, p)
  BY <1>1 DEF Table, IsList
<1>3. {Walk(h, Cells, p)[i] : i \in DOMAIN Walk(h, Cells, p)} \ {Nil} = {s[i] : i \in 1..n}
  BY <1>2, NodesOf, FSMonAssumption
<1> QED BY <1>1, <1>3 DEF InChain, Chain

LEMMA HashPush ==
  ASSUME ThreadType, ListType, NEW n, NEW s, Place(n, s), NEW t \in Threads,
         \A u \in Threads \ {t} : th'[u] = th[u], Push(t), ~overlapped'
  PROVE  /\ HashInv' /\ InChain' \subseteq InChain \cup {th[t].cur}
         /\ \E x : x = th[t].cur /\ Table(n + 1, Before(n, s, x))'
<1>t. th[t] \in Context /\ Sound(th[t])
  BY DEF ThreadType
<1>1. InHash \ {t} = {} /\ th[t].pc = "push" /\ th[t].pc \in Holding /\ head' = th[t].cur /\ UNCHANGED <<cell, live>>
  BY DEF Push, Overlap, Holding
<1>2. PICK x : x = th[t].cur
  OBVIOUS
<1>3. x \in Cells /\ x \in live /\ \A i \in 1..n : s[i] # x
  BY <1>1, <1>2, Entry
<1>4. NextCell[x] = head /\ NextCell' = NextCell
  BY <1>1, <1>2, <1>3 DEF NextCell, Place, Poised
<1>5. PICK z : z = Before(n, s, x)
  OBVIOUS
<1>6. IsList(n + 1, z, head', Cells, NextCell')
  BY <1>1, <1>2, <1>3, <1>4, <1>5, Entry, ListPush
<1>7. n \in Nat /\ \A i \in 1..n+1 : z[i] = IF i = 1 THEN x ELSE s[i-1]
  BY <1>5, Entry DEF Before
<1>8. \A i \in 1..n+1 : i = 1 \/ i - 1 \in 1..n
  BY <1>7
<1>9. \A i \in 1..n+1 : z[i] \in live'
  BY <1>1, <1>3, <1>7, <1>8, Entry
<1>10. Table(n + 1, z)'
  BY <1>6, <1>9 DEF Table, NextCell, IsList
<1>11. ASSUME NEW u \in Threads \ {t}, th[u].pc \in Holding
       PROVE  th[u].cur \in live' /\ \A i \in 1..n+1 : z[i] # th[u].cur
  <2>1. th[u].cur # x
    BY <1>1, <1>2, <1>11 DEF Place
  <2> QED BY <1>1, <1>7, <1>8, <1>11, <2>1, Entry
<1>12. PICK l : l = IF th[t].call = "rename" THEN "lower" ELSE Named(th[t].call)
  OBVIOUS
<1>13. l \in {"lower", "setflag", "find"}
  <2>1. th[t].call \in AllCalls \ {"clear"}
    BY <1>t, <1>1 DEF Sound, Context, AllCalls, ClearLabels
  <2> QED BY <1>12, <2>1, CallNames DEF AllCalls
<1>14. th'[t].pc = l
  <2>1. Set(t, [th[t] EXCEPT !.cur = Nil, !.pc = l])
    BY <1>12 DEF Push
  <2>2. th'[t] = [th[t] EXCEPT !.cur = Nil, !.pc = l]
    BY <2>1, SetIs
  <2> QED BY <1>t, <2>2 DEF Context
<1>15. th'[t].pc \notin Holding /\ th'[t].pc \notin {"push", "unlink", "clearcell", "clearall"}
  BY <1>13, <1>14 DEF Holding
<1>16. Place(n + 1, z)'
  BY <1>1, <1>10, <1>11, <1>15, HashWrite
<1>17. InChain = {s[i] : i \in 1..n} /\ InChain' = {z[i] : i \in 1..n+1}
  BY <1>10, ChainIs, ChainNext DEF Place
<1>18. InChain' \subseteq InChain \cup {x}
  BY <1>7, <1>8, <1>17
<1>19. Table(n + 1, Before(n, s, x))'
  BY <1>5, <1>10
<1> QED BY <1>2, <1>16, <1>18, <1>19 DEF HashInv

LEMMA HashUnlink ==
  ASSUME ThreadType, ListType, NEW n, NEW s, Place(n, s), NEW t \in Threads,
         \A u \in Threads \ {t} : th'[u] = th[u], Unlink(t), ~overlapped',
         NEW i \in 1..n, th[t].cur = s[i], th[t].prev = IF i = 1 THEN Nil ELSE s[i-1]
  PROVE  HashInv' /\ InChain' \subseteq InChain \ {th[t].cur} /\ Table(n - 1, Without(n, s, i))'
<1>t. th[t] \in Context /\ Sound(th[t])
  BY DEF ThreadType
<1>1. InHash \ {t} = {} /\ UNCHANGED live
  BY DEF Unlink, Overlap
<1>e. /\ n \in Nat /\ IsList(n, s, head, Cells, NextCell)
      /\ \A j \in 1..n : s[j] \in Cells /\ s[j] \in live /\ s[j] # Nil /\ NextCell[s[j]] = cell[s[j]].next
      /\ \A j, k \in 1..n : s[j] = s[k] => j = k
  BY Entry
<1>2. /\ i # 1 => cell' = [cell EXCEPT ![s[i-1]].next = cell[s[i]].next] /\ head' = head
      /\ i = 1 => cell' = cell /\ head' = cell[s[i]].next
  <2>1. i # 1 => i - 1 \in 1..n /\ s[i-1] # Nil
    BY <1>e
  <2> QED BY <2>1 DEF Unlink
<1>3. i # 1 => NextCell'[s[i-1]] = NextCell[s[i]] /\ head' = head
  <2>1. i # 1 => i - 1 \in 1..n /\ s[i-1] \in Cells
    BY <1>e
  <2> QED BY <1>e, <1>2, <2>1 DEF NextCell, ListType
<1>4. i = 1 => head' = NextCell[s[i]]
  BY <1>e, <1>2
<1>5. \A j \in 1..n : j # i /\ j # i - 1 => NextCell'[s[j]] = NextCell[s[j]]
  <2> SUFFICES ASSUME NEW j \in 1..n, j # i, j # i - 1 PROVE NextCell'[s[j]] = NextCell[s[j]]
    OBVIOUS
  <2>1. CASE i = 1
    BY <1>2, <2>1 DEF NextCell
  <2>2. CASE i # 1
    <3>1. i - 1 \in 1..n
      BY <1>e, <2>2
    <3>2. s[j] \in Cells /\ s[i-1] \in Cells /\ s[j] # s[i-1]
      BY <1>e, <3>1
    <3> QED BY <1>2, <2>2, <3>2 DEF NextCell, ListType
  <2> QED BY <2>1, <2>2
<1>6. PICK z : z = Without(n, s, i)
  OBVIOUS
<1>7. /\ IsList(n - 1, z, head', Cells, NextCell')
      /\ \A j \in 1..n-1 : \E k \in 1..n : k # i /\ z[j] = s[k]
  <2>1. PICK p, p2, h, h2 : p = NextCell /\ p2 = NextCell' /\ h = head /\ h2 = head'
    OBVIOUS
  <2>2. IsList(n, s, h, Cells, p) /\ \A j \in 1..n : j # i /\ j # i - 1 => p2[s[j]] = p[s[j]]
    BY <1>e, <1>5, <2>1
  <2>3. (i # 1 => p2[s[i-1]] = p[s[i]] /\ h2 = h) /\ (i = 1 => h2 = p[s[i]])
    BY <1>3, <1>4, <2>1
  <2>4. /\ IsList(n - 1, Without(n, s, i), h2, Cells, p2)
        /\ \A j \in 1..n-1 : \E k \in 1..n : k # i /\ Without(n, s, i)[j] = s[k]
    BY <2>2, <2>3, ListRemove
  <2> QED BY <1>6, <2>1, <2>4
<1>8. \A j \in 1..n-1 : z[j] \in live' /\ z[j] # s[i]
  BY <1>1, <1>e, <1>7
<1>9. Table(n - 1, z)'
  BY <1>7, <1>8 DEF Table, NextCell, IsList
<1>10. ASSUME NEW u \in Threads \ {t}, th[u].pc \in Holding
       PROVE  th[u].cur \in live' /\ (\A j \in 1..n-1 : z[j] # th[u].cur) /\ th[u].cur # s[i]
  BY <1>1, <1>7, <1>10, Entry
<1>11. th'[t].pc \in {"record", "free"} /\ th'[t].cur = th[t].cur
  <2>1. PICK l \in {"record", "free"} : Set(t, [th[t] EXCEPT !.prev = Nil, !.pc = l])
    BY DEF Unlink
  <2>2. th'[t] = [th[t] EXCEPT !.prev = Nil, !.pc = l]
    BY <2>1, SetIs
  <2> QED BY <1>t, <2>2 DEF Context
<1>12. th'[t].cur \in live' /\ th'[t].cur = s[i]
  BY <1>1, <1>e, <1>11
<1>13. Place(n - 1, z)'
  BY <1>1, <1>8, <1>9, <1>10, <1>11, <1>12, HashWrite
<1>14. InChain = {s[j] : j \in 1..n} /\ InChain' = {z[j] : j \in 1..n-1}
  BY <1>9, ChainIs, ChainNext DEF Place
<1>15. InChain' \subseteq InChain \ {s[i]}
  BY <1>7, <1>8, <1>14
<1>16. Table(n - 1, Without(n, s, i))'
  BY <1>6, <1>9
<1> QED BY <1>13, <1>15, <1>16 DEF HashInv

LEMMA HashCleanup ==
  ASSUME ThreadType, ListType, NEW n, NEW s, Place(n, s), NEW t \in Threads,
         \A u \in Threads \ {t} : th'[u] = th[u], CleanupCell(t), ~overlapped'
  PROVE  HashInv' /\ InChain' \subseteq InChain
<1>t. th[t] \in Context /\ Sound(th[t])
  BY DEF ThreadType
<1>e. /\ n \in Nat /\ IsList(n, s, head, Cells, NextCell)
      /\ \A j \in 1..n : s[j] \in Cells /\ s[j] \in live /\ s[j] # Nil /\ NextCell[s[j]] = cell[s[j]].next
      /\ \A j, k \in 1..n : s[j] = s[k] => j = k
  BY Entry
<1>1. /\ InHash \ {t} = {} /\ th[t].pc = "clearcell" /\ head' = cell[th[t].cur].next
      /\ live' = live \ {th[t].cur} /\ cell' = [cell EXCEPT ![th[t].cur] = FreeCell]
  BY DEF CleanupCell, Overlap
<1>2. 1 \in 1..n /\ th[t].cur = s[1]
  BY <1>e, <1>1 DEF Place, Poised
<1>4. head' = NextCell[s[1]]
  BY <1>e, <1>1, <1>2
<1>5. \A j \in 1..n : j # 1 => NextCell'[s[j]] = NextCell[s[j]]
  BY <1>e, <1>1, <1>2 DEF NextCell, ListType
<1>6. PICK z : z = Without(n, s, 1)
  OBVIOUS
<1>7. /\ IsList(n - 1, z, head', Cells, NextCell')
      /\ \A j \in 1..n-1 : \E k \in 1..n : k # 1 /\ z[j] = s[k]
  <2>1. PICK p, p2, h2 : p = NextCell /\ p2 = NextCell' /\ h2 = head'
    OBVIOUS
  <2>2. IsList(n, s, head, Cells, p) /\ (\A j \in 1..n : j # 1 => p2[s[j]] = p[s[j]]) /\ h2 = p[s[1]]
    BY <1>e, <1>4, <1>5, <2>1
  <2>3. /\ IsList(n - 1, Without(n, s, 1), h2, Cells, p2)
        /\ \A j \in 1..n-1 : \E k \in 1..n : k # 1 /\ Without(n, s, 1)[j] = s[k]
    BY <1>2, <2>2, ListRemove
  <2> QED BY <1>6, <2>1, <2>3
<1>8. \A j \in 1..n-1 : z[j] \in live'
  BY <1>1, <1>2, <1>e, <1>7
<1>9. Table(n - 1, z)'
  BY <1>7, <1>8 DEF Table, NextCell, IsList
<1>10. ASSUME NEW u \in Threads \ {t}, th[u].pc \in Holding
       PROVE  th[u].cur \in live' /\ (\A j \in 1..n-1 : z[j] # th[u].cur)
  BY <1>1, <1>2, <1>7, <1>10, Entry
<1>11. th'[t].pc = "clear"
  <2>1. th'[t] = [th[t] EXCEPT !.cur = Nil, !.pc = "clear"]
    BY SetIs DEF CleanupCell
  <2> QED BY <1>t, <2>1 DEF Context
<1>12. th'[t].pc \notin Holding /\ th'[t].pc \notin {"push", "unlink", "clearcell", "clearall"}
  BY <1>11 DEF Holding
<1>13. Place(n - 1, z)'
  BY <1>1, <1>9, <1>10, <1>12, HashWrite
<1>14. InChain = {s[j] : j \in 1..n} /\ InChain' = {z[j] : j \in 1..n-1}
  BY <1>9, ChainIs, ChainNext DEF Place
<1>15. InChain' \subseteq InChain
  BY <1>7, <1>14
<1> QED BY <1>13, <1>15 DEF HashInv

LEMMA BeginPc ==
  ASSUME ThreadType, NEW t \in Threads, NEW call \in Calls, NEW o \in Objects,
         NEW to \in Names \cup {Nil}, NEW excl \in BOOLEAN, Begin(t, call, o, to, excl)
  PROVE  th'[t].pc \in {"idle", "parse", "lookup", "find", "lower"}
<1>0. call \in AllCalls \ {"clear"}
  BY FSMonAssumption DEF Begin, May
<1>1. CASE Set(t, Idle)
  BY <1>1, SetPlain
<1>2. ASSUME NEW l, NEW seen,
             Set(t, [pc |-> l, call |-> call, obj |-> o, to |-> to, seen |-> seen,
                     cur |-> Nil, prev |-> Nil, new |-> Nil, done |-> FALSE])
      PROVE  th'[t].pc = l
  <2>1. th'[t] = [pc |-> l, call |-> call, obj |-> o, to |-> to, seen |-> seen,
                     cur |-> Nil, prev |-> Nil, new |-> Nil, done |-> FALSE]
    BY <1>2, SetIs
  <2> QED BY <2>1
<1>3. PICK l : l = IF call = "rename" THEN "parse" ELSE IF working /\ ~excl THEN "lookup" ELSE Unnamed(call)
  OBVIOUS
<1>4. l \in {"parse", "lookup", "find", "lower", "idle"}
  BY <1>0, <1>3, CallNames DEF AllCalls
<1>5. \/ Set(t, Idle)
      \/ \E seen : Set(t, [pc |-> l, call |-> call, obj |-> o, to |-> to, seen |-> seen,
                     cur |-> Nil, prev |-> Nil, new |-> Nil, done |-> FALSE])
  BY <1>3 DEF Begin
<1> QED BY <1>1, <1>2, <1>4, <1>5

\* The steps that leave the table as it is.
LEMMA HashKept ==
  ASSUME TypeInv, NEW n, NEW s, Place(n, s), NEW t \in Threads, Thread(t),
         ~Push(t), ~Unlink(t), ~CleanupCell(t)
  PROVE  Place(n, s)'
<1>2. ThreadType /\ ListType /\ \A u \in Threads \ {t} : th'[u] = th[u]
  BY ThreadStep DEF TypeInv
<1>t. th[t] \in Context /\ Sound(th[t])
  BY <1>2 DEF ThreadType
<1>p. ASSUME UNCHANGED <<head, cell>>, \A c \in Cells : c \in live => c \in live', th'[t].pc \notin HashLabels
      PROVE  Place(n, s)'
  BY <1>2, <1>p, HashPlain
<1>l. ASSUME UNCHANGED lists, NEW l, th'[t].pc = l, l \notin HashLabels
      PROVE  Place(n, s)'
  BY <1>p, <1>l DEF lists
<1>h. /\ "idle" \notin HashLabels /\ "find" \notin HashLabels /\ "clear" \notin HashLabels
      /\ "clearstore" \notin HashLabels /\ "clearrecord" \notin HashLabels
  BY DEF HashLabels, Holding
<1>3. ASSUME NEW call \in Calls, NEW o \in Objects, NEW to \in Names \cup {Nil}, NEW excl \in BOOLEAN,
             Begin(t, call, o, to, excl)
      PROVE  Place(n, s)'
  <2>2. th'[t].pc \in {"idle", "parse", "lookup", "find", "lower"}
    BY <1>2, <1>3, BeginPc
  <2>3. th'[t].pc \notin HashLabels
    BY <2>2 DEF HashLabels, Holding
  <2> QED BY <1>3, <1>l, <2>3 DEF Begin
<1>4. CASE GetFullPath(t) \/ ParseReName(t) \/ LogHash(t) \/ MarkWritten(t) \/ Find(t) \/ Free(t)
  <2> QED BY <1>2, <1>4, HashEntry
<1>8. CASE AddConvertRecord(t)
  <2>1. UNCHANGED <<head, cell>> /\ th[t].pc = "record" /\ th[t].pc \in Holding
    BY <1>8 DEF AddConvertRecord, Holding
  <2>2. PICK m, i :
           \/ Goto(t, "free") /\ UNCHANGED <<corrupt, live, record>>
           \/ NoRecord(t, m, i) \/ OldRecord(t, m, i)
           \/ \E r \in Records \ live : NewRecord(t, m, i, r)
    BY <1>8, RecordCases
  <2>3. th'[t].cur = th[t].cur /\ th'[t].pc \in {"record", "append", "free"}
    <3>1. CASE Goto(t, "free")
      BY <1>2, <3>1, SetPlain
    <3>2. CASE NoRecord(t, m, i)
      BY <2>1, <3>2 DEF NoRecord
    <3>3. CASE OldRecord(t, m, i)
      BY <1>2, <3>3, SetPlain DEF OldRecord
    <3>4. ASSUME NEW r \in Records \ live, NewRecord(t, m, i, r)
          PROVE  th'[t].cur = th[t].cur /\ th'[t].pc = "append"
      <4>1. th'[t] = [th[t] EXCEPT !.pc = "append", !.new = r, !.prev = IF i = 0 THEN Nil ELSE Queue[i-1]]
        BY <1>2, <3>4, SetIs DEF NewRecord
      <4> QED BY <1>t, <4>1 DEF Context
    <3> QED BY <2>2, <3>1, <3>2, <3>3, <3>4
  <2>4. \A c \in Cells : c \in live => c \in live'
    BY <2>2 DEF NoRecord, OldRecord, NewRecord
  <2> QED BY <1>2, <2>1, <2>3, <2>4, HashHold
<1>9. CASE Append(t)
  <2>1. UNCHANGED <<head, cell, live>> /\ th[t].pc = "append" /\ th[t].pc \in Holding
    BY <1>9 DEF Append, Holding
  <2>2. th'[t] = [th[t] EXCEPT !.pc = "free", !.new = Nil, !.prev = Nil]
    BY <1>2, <1>9, SetIs DEF Append
  <2>3. th'[t].cur = th[t].cur /\ th'[t].pc = "free"
    BY <1>t, <2>2 DEF Context
  <2> QED BY <1>2, <2>1, <2>3, HashHold
<1>10. CASE LowerCreate(t) \/ LowerOther(t)
  <2>1. CASE Set(t, Idle)
    BY <1>2, <1>10, <1>l, <1>h, <2>1, SetPlain DEF LowerCreate, LowerOther
  <2>2. CASE Set(t, [th[t] EXCEPT !.pc = "find", !.done = TRUE])
    <3>1. th'[t] = [th[t] EXCEPT !.pc = "find", !.done = TRUE]
      BY <1>2, <2>2, SetIs
    <3>2. th'[t].pc = "find"
      BY <1>t, <3>1 DEF Context
    <3> QED BY <1>10, <1>l, <1>h, <3>2 DEF LowerCreate, LowerOther
  <2> QED BY <1>10, <2>1, <2>2 DEF LowerCreate, LowerOther
<1>11. CASE LowerRename(t)
  <2>1. th'[t] = [th[t] EXCEPT !.pc = "find", !.done = TRUE]
    BY <1>2, <1>11, SetIs DEF LowerRename
  <2>2. th'[t].pc = "find"
    BY <1>t, <2>1 DEF Context
  <2>3. \A c \in Cells : cell'[c].next = cell[c].next
    BY <1>2, <1>11, FlagNext DEF LowerRename
  <2>4. UNCHANGED <<head, live>>
    BY <1>11 DEF LowerRename
  <2> QED BY <1>2, <1>h, <2>2, <2>3, <2>4, HashPlain
<1>12. CASE ClearState(t)
  <2>1. th'[t] = [Idle EXCEPT !.pc = "clear", !.call = "clear"]
    BY <1>2, <1>12, SetIs DEF ClearState
  <2>2. th'[t].pc = "clear"
    BY <2>1 DEF Idle
  <2> QED BY <1>12, <1>l, <1>h, <2>2 DEF ClearState
<1>13. CASE CleanupHash(t)
  <2>0. UNCHANGED <<head, cell, live>>
    BY <1>13 DEF CleanupHash, lists
  <2>1. PICK l : l = IF head = Nil THEN "clearall" ELSE "clearcell"
    OBVIOUS
  <2>2. th'[t] = [th[t] EXCEPT !.cur = head, !.pc = l]
    BY <1>2, <1>13, <2>1, SetIs DEF CleanupHash
  <2>3. th'[t].cur = head /\ th'[t].pc = l
    BY <1>t, <2>2 DEF Context
  <2>4. /\ n \in Nat /\ (n = 0 => head = Nil) /\ (n # 0 => head = s[1])
        /\ \A i \in 1..n : s[i] # Nil
    BY <1>2, Entry DEF IsList
  <2>5. Poised(t, n, s)'
    BY <2>1, <2>3, <2>4 DEF Poised
  <2>6. th'[t].pc \notin Holding
    BY <2>1, <2>3 DEF Holding
  <2>7. Nil \notin Cells
    BY FSMonAssumption
  <2>8. \A u \in Threads : th[u].pc \in Holding => th[u].cur # Nil
    BY <1>2, <2>7, Entry
  <2> QED BY <1>2, <2>0, <2>4, <2>5, <2>6, <2>8, HashPrivate
<1>14. CASE CleanupTable(t)
  <2>1. th'[t].pc = "clearstore"
    BY <1>2, <1>14, SetPlain DEF CleanupTable
  <2>2. n = 0
    BY <1>14 DEF CleanupTable, Place, Poised
  <2>3. head = Nil
    BY <1>2, <2>2, Entry DEF IsList
  <2>4. UNCHANGED <<head, cell, live>>
    BY <1>14, <2>3 DEF CleanupTable
  <2> QED BY <1>p, <1>h, <2>1, <2>4
<1>15. CASE CleanupStore(t)
  <2>1. CASE Set(t, Idle)
    BY <1>2, <1>15, <1>l, <1>h, <2>1, SetPlain DEF CleanupStore
  <2>2. CASE Set(t, [th[t] EXCEPT !.cur = first, !.pc = "clearrecord"])
    <3>1. th'[t] = [th[t] EXCEPT !.cur = first, !.pc = "clearrecord"]
      BY <1>2, <2>2, SetIs
    <3>2. th'[t].pc = "clearrecord"
      BY <1>t, <3>1 DEF Context
    <3> QED BY <1>15, <1>l, <1>h, <3>2 DEF CleanupStore
  <2> QED BY <1>15, <2>1, <2>2 DEF CleanupStore
<1>16. CASE CleanupRecord(t)
  <2>1. th'[t] = [th[t] EXCEPT !.cur = Nil, !.pc = "clearstore"]
    BY <1>2, <1>16, SetIs DEF CleanupRecord
  <2>2. th'[t].pc = "clearstore"
    BY <1>t, <2>1 DEF Context
  <2>3. th[t].cur \in Records
    BY <1>t, <1>16 DEF CleanupRecord, Sound
  <2>4. UNCHANGED <<head, cell>> /\ \A c \in Cells : c \in live => c \in live'
    BY <1>16, <2>3, FSMonAssumption DEF CleanupRecord
  <2> QED BY <1>p, <1>h, <2>2, <2>4
<1> QED BY <1>3, <1>4, <1>8, <1>9, <1>10, <1>11, <1>12, <1>13, <1>14, <1>15, <1>16
     DEF Thread

LEMMA ThreadHash ==
  ASSUME TypeInv, HashInv, NEW t \in Threads, Thread(t), ~overlapped'
  PROVE  /\ HashInv'
         /\ Push(t) => InChain' \subseteq InChain \cup {th[t].cur}
         /\ Unlink(t) => InChain' \subseteq InChain \ {th[t].cur}
         /\ ~Push(t) => InChain' \subseteq InChain
<1>1. PICK n, s : Place(n, s)
  BY DEF HashInv
<1>2. ThreadType /\ ListType /\ \A u \in Threads \ {t} : th'[u] = th[u]
  BY ThreadStep DEF TypeInv
<1>p. Push(t) => ~Unlink(t)
  BY DEF Push, Unlink
<1>3. CASE Push(t)
  BY <1>1, <1>2, <1>3, <1>p, HashPush
<1>4. CASE Unlink(t)
  <2>1. PICK i \in 1..n : th[t].cur = s[i] /\ th[t].prev = IF i = 1 THEN Nil ELSE s[i-1]
    BY <1>1, <1>4 DEF Unlink, Place, Poised
  <2>2. HashInv' /\ InChain' \subseteq InChain \ {th[t].cur}
    BY <1>1, <1>2, <1>4, <2>1, HashUnlink
  <2> QED BY <1>4, <1>p, <2>2
<1>5. CASE CleanupCell(t)
  <2>1. ~Push(t) /\ ~Unlink(t)
    BY <1>5 DEF Push, Unlink, CleanupCell
  <2> QED BY <1>1, <1>2, <1>5, <2>1, HashCleanup
<1>6. CASE ~Push(t) /\ ~Unlink(t) /\ ~CleanupCell(t)
  <2>1. Place(n, s)'
    BY <1>1, <1>6, HashKept
  <2>t. Table(n, s) /\ Table(n, s)'
    BY <1>1, <2>1 DEF Place
  <2>2. InChain = {s[i] : i \in 1..n}
    BY <2>t, ChainIs
  <2>3. InChain' = {s[i] : i \in 1..n}
    BY <2>t, ChainNext
  <2> QED BY <1>6, <2>1, <2>2, <2>3 DEF HashInv
<1> QED BY <1>3, <1>4, <1>5, <1>6

LEMMA OtherHash ==
  ASSUME TypeInv, HashInv, Other
  PROVE  HashInv'
<1>1. PICK n, s : Place(n, s)
  BY DEF HashInv
<1>2. UNCHANGED <<head, cell, th>>
  BY DEF Other, StartOrStopWork, AddMonitorItem, GetOldestRecord, Pop, Fetch, Encrypt, lists
<1>3. \A c \in Cells : c \in live => c \in live'
  <2>1. CASE Fetch
    <3>1. agent.cur \in Records
      BY <2>1 DEF TypeInv, ListType, Fetch
    <3> QED BY <2>1, <3>1, FSMonAssumption DEF Fetch
  <2>2. CASE ~Fetch
    BY <2>2 DEF Other, StartOrStopWork, AddMonitorItem, GetOldestRecord, Pop, Encrypt, lists
  <2> QED BY <2>1, <2>2
<1>4. Place(n, s)'
  BY <1>1, <1>2, <1>3, HashSame DEF TypeInv
<1> QED BY <1>4 DEF HashInv

-----------------------------------------------------------------------------
(* The list of modified files.                                             *)

NextRecord == [r \in Records |-> record[r].next]

\* Where the search for the record of file n stops.
Searched(m, q, n, i) ==
  \/ /\ i < m /\ Queue[i] = q[i+1] /\ record[q[i+1]].name = n
  \/ /\ i = m /\ Queue[i] = Nil /\ \A j \in 1..m : record[q[j]].name # n
     /\ (IF i = 0 THEN Nil ELSE Queue[i-1]) = IF m = 0 THEN Nil ELSE q[m]

\* The search finds the record of a file, or the end of the list.
LEMMA RecordOfList ==
  ASSUME NEW m, NEW q, Store(m, q), live \subseteq Cells \cup Records, NEW n
  PROVE  \E i \in 0..m : RecordOf(n) = {i} /\ Searched(m, q, n, i)
<1>h. PICK H : H = {r \in Records : record[r].name = n}
  OBVIOUS
<1>m. PICK k : k = Cardinality(Records)
  OBVIOUS
<1>a. PICK at : at = Queue
  OBVIOUS
<1>1. k \in Nat /\ IsFiniteSet(Records) /\ Nil \notin live /\ Nil \notin Records
  BY <1>m, FSMonAssumption, FS_CardinalityType, NilFree
<1>2. m \in 0..k /\ at = [i \in 0..k |-> IF i < m THEN q[i+1] ELSE Nil]
  BY <1>m, <1>a, <1>1, WalkList DEF Store, Queue
<1>3. m \in Nat /\ \A i \in 1..m : q[i] \in Records /\ q[i] \in live
  BY DEF Store, IsList
<1>4. PICK i \in 0..m :
           /\ StopsIn(at, H) = {i}
           /\ \A j \in 1..i : q[j] \notin H
           /\ i = m \/ q[i+1] \in H
  <2>1. k \in Nat /\ m \in 0..k /\ Nil \notin live
    BY <1>1, <1>2
  <2>2. \A j \in 1..m : q[j] \in live
    BY <1>3
  <2>3. Along(at, k, m, q)
    BY <1>2 DEF Along
  <2> QED BY <2>1, <2>2, <2>3, StopsOnce
<1>5. \A j \in DOMAIN at : at[j] = Nil \/ at[j] \in Records
  BY <1>1, <1>2, <1>3
<1>6. Stops(at, LAMBDA r : record[r].name = n) = {i}
  BY <1>1, <1>4, <1>5, <1>h DEF Stops, StopsIn
<1>7. RecordOf(n) = {i}
  BY <1>a, <1>6 DEF RecordOf
<1>8. i \in Nat /\ i <= m /\ at[i] = IF i < m THEN q[i+1] ELSE Nil
  BY <1>1, <1>2
<1>9. CASE i < m
  <2>1. i + 1 \in 1..m /\ at[i] = q[i+1] /\ q[i+1] \in H
    BY <1>3, <1>4, <1>8, <1>9
  <2>2. record[q[i+1]].name = n
    BY <2>1, <1>h
  <2> QED BY <1>a, <1>7, <1>9, <2>1, <2>2 DEF Searched
<1>10. CASE i = m
  <2>1. at[i] = Nil /\ \A j \in 1..m : record[q[j]].name # n
    BY <1>3, <1>4, <1>8, <1>10, <1>h
  <2>2. (IF i = 0 THEN Nil ELSE at[i-1]) = IF m = 0 THEN Nil ELSE q[m]
    <3>1. CASE i = 0
      BY <1>10, <3>1
    <3>2. CASE i # 0
      <4>1. i - 1 \in 0..k /\ i - 1 < m /\ i - 1 + 1 = m
        BY <1>1, <1>2, <1>8, <1>10, <3>2
      <4> QED BY <1>2, <1>10, <3>2, <4>1
    <3> QED BY <3>1, <3>2
  <2> QED BY <1>a, <1>7, <1>10, <2>1, <2>2 DEF Searched
<1> QED BY <1>3, <1>8, <1>9, <1>10

\* What a thread that uses the list has read is still so.
Ready(t, m, q) ==
  /\ th[t].pc = "append" =>
       /\ th[t].new \in live /\ record[th[t].new].next = Nil
       /\ th[t].prev = IF m = 0 THEN Nil ELSE q[m]
       /\ \A i \in 1..m : q[i] # th[t].new /\ record[q[i]].name # record[th[t].new].name
  /\ th[t].pc = "clearrecord" => m > 0 /\ th[t].cur = q[1]

AgentReady(m, q) ==
  /\ agent.pc = "pop" => m > 0 /\ agent.cur = q[1]
  /\ agent.pc = "copy" => /\ agent.cur \in live /\ \A i \in 1..m : q[i] # agent.cur
                          /\ \A t \in Threads : th[t].pc = "append" => th[t].new # agent.cur

\* Every allocated record is in one place: in the list, with one thread or with
\* the agent; and a file has one record in the list.
Room(m, q) ==
  /\ Store(m, q)
  /\ \A i, j \in 1..m : record[q[i]].name = record[q[j]].name => i = j
  /\ \A t \in Threads : Ready(t, m, q)
  /\ \A t, u \in Threads : th[t].pc = "append" /\ th[u].pc = "append" /\ t # u => th[t].new # th[u].new
  /\ AgentReady(m, q)

StoreInv == \E m, q : Room(m, q)

LEMMA Listed ==
  ASSUME NEW m, NEW q, Room(m, q)
  PROVE  /\ m \in Nat /\ IsList(m, q, first, Records, NextRecord)
         /\ \A i \in 1..m : q[i] \in Records /\ q[i] \in live /\ q[i] # Nil /\ NextRecord[q[i]] = record[q[i]].next
         /\ \A i, j \in 1..m : q[i] = q[j] => i = j
<1>1. Nil \notin Records
  BY FSMonAssumption
<1>2. m \in Nat /\ IsList(m, q, first, Records, NextRecord)
  BY DEF Room, Store, NextRecord, IsList
<1>3. \A i \in 1..m : q[i] \in Records /\ q[i] \in live
  BY DEF Room, Store, IsList
<1>4. \A i, j \in 1..m : q[i] = q[j] => i = j
  BY DEF Room, Store, IsList
<1>6. \A i \in 1..m : q[i] # Nil /\ NextRecord[q[i]] = record[q[i]].next
  BY <1>1, <1>3 DEF NextRecord
<1> QED BY <1>2, <1>3, <1>4, <1>6

\* t changes only the record x, which is nobody else's.
LEMMA StorePrivate ==
  ASSUME ThreadType, ListType, NEW m, NEW q, Room(m, q), NEW t \in Threads,
         \A u \in Threads \ {t} : th'[u] = th[u], UNCHANGED <<first, agent>>, NEW x,
         \A r \in Records \ {x} : /\ record'[r].next = record[r].next /\ record'[r].name = record[r].name
                                  /\ r \in live => r \in live',
         \A i \in 1..m : q[i] # x,
         \A u \in Threads \ {t} : th[u].pc = "append" => th[u].new # x,
         agent.pc = "copy" => agent.cur # x,
         th'[t].pc = "append" =>
           /\ \A u \in Threads \ {t} : th[u].pc = "append" => th[u].new # th'[t].new
           /\ agent.pc = "copy" => agent.cur # th'[t].new,
         Ready(t, m, q)'
  PROVE  Room(m, q)'
<1>1. /\ m \in Nat /\ IsList(m, q, first, Records, NextRecord)
      /\ \A i \in 1..m : q[i] \in Records /\ q[i] \in live
  BY Listed
<1>2. \A i \in 1..m : /\ NextRecord'[q[i]] = NextRecord[q[i]] /\ q[i] \in live'
                      /\ record'[q[i]].name = record[q[i]].name
  BY <1>1 DEF NextRecord
<1>3. IsList(m, q, first', Records, NextRecord')
  BY <1>1, <1>2, ListKept
<1>4. Store(m, q)'
  BY <1>2, <1>3 DEF Store, NextRecord, IsList
<1>5. \A i, j \in 1..m : record'[q[i]].name = record'[q[j]].name => i = j
  BY <1>2 DEF Room
<1>6. ASSUME NEW u \in Threads \ {t} PROVE Ready(u, m, q)'
  <2>1. Ready(u, m, q)
    BY DEF Room
  <2>2. CASE th[u].pc = "append"
    <3>1. th[u].new \in Records /\ th[u].new # x
      BY <2>2 DEF ThreadType, Sound
    <3>2. /\ th[u].new \in live' /\ record'[th[u].new].next = record[th[u].new].next
          /\ record'[th[u].new].name = record[th[u].new].name
      BY <2>1, <2>2, <3>1 DEF Ready
    <3> QED BY <1>2, <2>1, <2>2, <3>2 DEF Ready
  <2>3. CASE th[u].pc # "append"
    BY <2>1, <2>3 DEF Ready
  <2> QED BY <2>2, <2>3
<1>7. \A u, v \in Threads : th'[u].pc = "append" /\ th'[v].pc = "append" /\ u # v => th'[u].new # th'[v].new
  BY DEF Room
<1>8. AgentReady(m, q)'
  <2>1. AgentReady(m, q)
    BY DEF Room
  <2>2. CASE agent.pc = "copy"
    <3>1. agent.cur \in live'
      BY <2>1, <2>2 DEF AgentReady, ListType
    <3>2. \A u \in Threads : th'[u].pc = "append" => th'[u].new # agent.cur
      BY <2>1, <2>2 DEF AgentReady
    <3> QED BY <2>1, <2>2, <3>1, <3>2 DEF AgentReady
  <2>3. CASE agent.pc # "copy"
    BY <2>1, <2>3 DEF AgentReady
  <2> QED BY <2>2, <2>3
<1> QED BY <1>4, <1>5, <1>6, <1>7, <1>8 DEF Room

\* t leaves the list as it is and comes to a part that does not use it.
LEMMA StorePlain ==
  ASSUME ThreadType, ListType, NEW m, NEW q, Room(m, q), NEW t \in Threads,
         \A u \in Threads \ {t} : th'[u] = th[u], UNCHANGED <<first, agent>>,
         \A r \in Records : /\ record'[r].next = record[r].next /\ record'[r].name = record[r].name
                            /\ r \in live => r \in live',
         th'[t].pc \notin {"append", "clearrecord"}
  PROVE  Room(m, q)'
<1>1. Nil \notin Records
  BY FSMonAssumption
<1>2. \A i \in 1..m : q[i] # Nil
  BY Listed
<1>3. \A u \in Threads : th[u].pc = "append" => th[u].new # Nil
  BY <1>1 DEF ThreadType, Sound
<1>4. agent.pc = "copy" => agent.cur # Nil
  BY <1>1 DEF ListType
<1>5. Ready(t, m, q)'
  BY DEF Ready
<1> QED BY <1>2, <1>3, <1>4, <1>5, StorePrivate

\* t writes the list while nobody else has read a pointer of it.
LEMMA StoreWrite ==
  ASSUME NEW m, NEW q, Room(m, q), NEW t \in Threads,
         \A u \in Threads \ {t} : th'[u] = th[u], UNCHANGED agent,
         InStore \ {t} = {}, agent.pc # "pop", NEW m2, NEW q2, Store(m2, q2)',
         \A i, j \in 1..m2 : record'[q2[i]].name = record'[q2[j]].name => i = j,
         th'[t].pc \notin {"append", "clearrecord"},
         agent.pc = "copy" => agent.cur \in live' /\ \A i \in 1..m2 : q2[i] # agent.cur
  PROVE  Room(m2, q2)'
<1>1. \A u \in Threads : th'[u].pc \notin {"append", "clearrecord"}
  BY DEF InStore
<1>2. \A u \in Threads : Ready(u, m2, q2)'
  BY <1>1 DEF Ready
<1>3. AgentReady(m2, q2)'
  BY <1>1 DEF AgentReady
<1> QED BY <1>1, <1>2, <1>3 DEF Room

\* The steps that come to a part which uses the list.
LEMMA NoStore ==
  ASSUME TypeInv, NEW t \in Threads, Thread(t), ~AddConvertRecord(t), ~CleanupStore(t)
  PROVE  th'[t].pc \notin {"append", "clearrecord"}
<1>t. ThreadType /\ ListType /\ th[t] \in Context /\ Sound(th[t])
  BY DEF TypeInv, ThreadType
<1>l. ASSUME NEW n, NEW type, NEW l, Log(t, n, type, l) PROVE th'[t].pc \in {"log", l}
  <2>1. ASSUME NEW c, Set(t, [th[t] EXCEPT !.pc = "log", !.cur = c]) PROVE th'[t].pc = "log"
    <3>1. th'[t] = [th[t] EXCEPT !.pc = "log", !.cur = c]
      BY <1>t, <2>1, SetIs
    <3> QED BY <1>t, <3>1 DEF Context
  <2>2. ASSUME Pass(t, l) PROVE th'[t].pc = l
    BY <1>t, <2>2, SetPlain
  <2> QED BY <1>l, <2>1, <2>2 DEF Log
<1>1. ASSUME NEW call \in Calls, NEW o \in Objects, NEW to \in Names \cup {Nil}, NEW excl \in BOOLEAN,
             Begin(t, call, o, to, excl)
      PROVE  th'[t].pc \notin {"append", "clearrecord"}
  BY <1>1, <1>t, BeginPc
<1>2. ASSUME GetFullPath(t) PROVE th'[t].pc \notin {"append", "clearrecord"}
  <2>0. th[t].call \in {"create", "write", "fastwrite", "cleanup", "close"}
    BY <1>2, <1>t DEF GetFullPath, Sound, Context, AllCalls, ClearLabels
  <2>1. CASE UNCHANGED th
    BY <1>2, <2>1 DEF GetFullPath
  <2>2. CASE Goto(t, Named(th[t].call))
    BY <1>t, <2>0, <2>2, SetPlain, CallNames
  <2>3. CASE Log(t, file[th[t].obj].opened, "NORMAL", Unnamed(th[t].call))
    <3>1. Unnamed(th[t].call) \in {"find", "lower", "idle"}
      BY <2>0, CallNames
    <3>2. th'[t].pc \in {"log", Unnamed(th[t].call)}
      BY <1>l, <2>3
    <3> QED BY <3>1, <3>2
  <2> QED BY <1>2, <2>1, <2>2, <2>3 DEF GetFullPath
<1>3. ASSUME ParseReName(t) PROVE th'[t].pc \notin {"append", "clearrecord"}
  <2>1. CASE Goto(t, "lower")
    BY <1>t, <2>1, SetPlain
  <2>2. CASE Log(t, th[t].to, "RENAME", "lower")
    <3>1. th'[t].pc \in {"log", "lower"}
      BY <1>l, <2>2
    <3> QED BY <3>1
  <2> QED BY <1>3, <2>1, <2>2 DEF ParseReName
<1>4. ASSUME LogHash(t) PROVE th'[t].pc \notin {"append", "clearrecord"}
  <2>1. th'[t].pc = "push"
    BY <1>4, <1>t, SetPlain DEF LogHash
  <2> QED BY <2>1
<1>5. ASSUME Push(t) PROVE th'[t].pc \notin {"append", "clearrecord"}
  <2>1. PICK l : l = IF th[t].call = "rename" THEN "lower" ELSE Named(th[t].call)
    OBVIOUS
  <2>2. th[t].call \in AllCalls \ {"clear"}
    BY <1>t, <1>5 DEF Push, Sound, Context, AllCalls, ClearLabels
  <2>3. l \in {"lower", "setflag", "find"}
    BY <2>1, <2>2, CallNames DEF AllCalls
  <2>4. Set(t, [th[t] EXCEPT !.cur = Nil, !.pc = l])
    BY <1>5, <2>1 DEF Push
  <2>5. th'[t] = [th[t] EXCEPT !.cur = Nil, !.pc = l]
    BY <1>t, <2>4, SetIs
  <2>6. th'[t].pc = l
    BY <1>t, <2>5 DEF Context
  <2> QED BY <2>3, <2>6
<1>6. ASSUME MarkWritten(t) PROVE th'[t].pc \notin {"append", "clearrecord"}
  <2>1. th'[t].pc \in {"lower", "idle"}
    BY <1>t, <1>6, SetPlain DEF MarkWritten
  <2> QED BY <2>1
<1>7. ASSUME Find(t) PROVE th'[t].pc \notin {"append", "clearrecord"}
  <2>1. CASE AfterFree(t)
    BY <1>t, <2>1, SetPlain
  <2>2. ASSUME NEW e, Set(t, [th[t] EXCEPT !.pc = "unlink", !.cur = e.cur, !.prev = e.prev])
        PROVE  th'[t].pc \notin {"append", "clearrecord"}
    <3>1. th'[t] = [th[t] EXCEPT !.pc = "unlink", !.cur = e.cur, !.prev = e.prev]
      BY <1>t, <2>2, SetIs
    <3> QED BY <1>t, <3>1 DEF Context
  <2> QED BY <1>7, <2>1, <2>2 DEF Find
<1>8. ASSUME Unlink(t) PROVE th'[t].pc \notin {"append", "clearrecord"}
  <2>1. PICK l \in {"record", "free"} : Set(t, [th[t] EXCEPT !.prev = Nil, !.pc = l])
    BY <1>8 DEF Unlink
  <2>2. th'[t] = [th[t] EXCEPT !.prev = Nil, !.pc = l]
    BY <1>t, <2>1, SetIs
  <2>3. th'[t].pc = l
    BY <1>t, <2>2 DEF Context
  <2> QED BY <2>3
<1>9. ASSUME Append(t) PROVE th'[t].pc \notin {"append", "clearrecord"}
  <2>1. th'[t] = [th[t] EXCEPT !.pc = "free", !.new = Nil, !.prev = Nil]
    BY <1>t, <1>9, SetIs DEF Append
  <2> QED BY <1>t, <2>1 DEF Context
<1>10. ASSUME Free(t) PROVE th'[t].pc \notin {"append", "clearrecord"}
  BY <1>10, <1>t, SetPlain DEF Free
<1>11. ASSUME LowerCreate(t) \/ LowerRename(t) \/ LowerOther(t)
       PROVE  th'[t].pc \notin {"append", "clearrecord"}
  <2>1. CASE Set(t, Idle)
    BY <1>t, <2>1, SetPlain
  <2>2. CASE Set(t, [th[t] EXCEPT !.pc = "find", !.done = TRUE])
    <3>1. th'[t] = [th[t] EXCEPT !.pc = "find", !.done = TRUE]
      BY <1>t, <2>2, SetIs
    <3> QED BY <1>t, <3>1 DEF Context
  <2> QED BY <1>11, <2>1, <2>2 DEF LowerCreate, LowerRename, LowerOther
<1>12. ASSUME ClearState(t) PROVE th'[t].pc \notin {"append", "clearrecord"}
  <2>1. th'[t] = [Idle EXCEPT !.pc = "clear", !.call = "clear"]
    BY <1>t, <1>12, SetIs DEF ClearState
  <2>2. th'[t].pc = "clear"
    BY <2>1 DEF Idle
  <2> QED BY <2>2
<1>13. ASSUME NEW c, NEW l, Set(t, [th[t] EXCEPT !.cur = c, !.pc = l]) PROVE th'[t].pc = l
  <2>1. th'[t] = [th[t] EXCEPT !.cur = c, !.pc = l]
    BY <1>t, <1>13, SetIs
  <2> QED BY <1>t, <2>1 DEF Context
<1>14. ASSUME CleanupHash(t) PROVE th'[t].pc \notin {"append", "clearrecord"}
  <2>1. PICK l : l = IF head = Nil THEN "clearall" ELSE "clearcell"
    OBVIOUS
  <2>2. th'[t].pc = l
    BY <1>13, <1>14, <2>1 DEF CleanupHash
  <2> QED BY <2>1, <2>2
<1>15. ASSUME CleanupCell(t) \/ CleanupRecord(t) PROVE th'[t].pc \notin {"append", "clearrecord"}
  <2>1. th'[t].pc \in {"clear", "clearstore"}
    BY <1>13, <1>15 DEF CleanupCell, CleanupRecord
  <2> QED BY <2>1
<1>16. ASSUME CleanupTable(t) PROVE th'[t].pc \notin {"append", "clearrecord"}
  <2>1. th'[t].pc = "clearstore"
    BY <1>t, <1>16, SetPlain DEF CleanupTable
  <2> QED BY <2>1
<1> QED BY <1>1, <1>2, <1>3, <1>4, <1>5, <1>6, <1>7, <1>8, <1>9, <1>10, <1>11, <1>12, <1>14, <1>15, <1>16
     DEF Thread

\* The steps that do not use the list leave it and its records as they are.
LEMMA StoreApart ==
  ASSUME TypeInv, NEW t \in Threads, Thread(t),
         ~AddConvertRecord(t), ~Append(t), ~CleanupRecord(t)
  PROVE  UNCHANGED <<first, record, agent>> /\ \A r \in Records : r \in live => r \in live'
<1>t. Sound(th[t])
  BY DEF TypeInv, ThreadType
<1>l. ASSUME NEW n, NEW type, NEW l, Log(t, n, type, l)
      PROVE  UNCHANGED <<first, record>> /\ live \subseteq live'
  BY <1>l DEF Log, lists
<1>1. ASSUME NEW call \in Calls, NEW o \in Objects, NEW to \in Names \cup {Nil}, NEW excl \in BOOLEAN,
             Begin(t, call, o, to, excl)
      PROVE  UNCHANGED <<first, record, agent, live>>
  BY <1>1 DEF Begin, lists
<1>2. CASE GetFullPath(t)
  BY <1>2, <1>l DEF GetFullPath, lists
<1>3. CASE ParseReName(t)
  BY <1>3, <1>l DEF ParseReName, lists
<1>4. CASE LogHash(t) \/ Push(t) \/ MarkWritten(t) \/ Find(t) \/ Unlink(t)
  BY <1>4 DEF LogHash, Push, MarkWritten, Find, Unlink, lists
<1>5. CASE Free(t) \/ CleanupCell(t)
  <2>1. th[t].cur \in Cells
    BY <1>5, <1>t DEF Free, CleanupCell, Sound, CellLabels
  <2> QED BY <1>5, <2>1, FSMonAssumption DEF Free, CleanupCell
<1>6. CASE LowerCreate(t) \/ LowerRename(t) \/ LowerOther(t)
  BY <1>6 DEF LowerCreate, LowerRename, LowerOther, lists
<1>7. CASE ClearState(t) \/ CleanupHash(t) \/ CleanupTable(t) \/ CleanupStore(t)
  BY <1>7 DEF ClearState, CleanupHash, CleanupTable, CleanupStore, lists
<1> QED BY <1>1, <1>2, <1>3, <1>4, <1>5, <1>6, <1>7 DEF Thread

LEMMA StoreRecord ==
  ASSUME TypeInv, NEW m, NEW q, Room(m, q), NEW t \in Threads, AddConvertRecord(t),
         \A u \in Threads \ {t} : th'[u] = th[u]
  PROVE  Room(m, q)'
<1>t. ThreadType /\ ListType /\ th[t] \in Context /\ Sound(th[t])
  BY DEF TypeInv, ThreadType
<1>1. th[t].pc = "record" /\ UNCHANGED <<first, agent>>
  BY DEF AddConvertRecord
<1>2. PICK n, i :
         /\ RecordOf(n) # {} => i \in RecordOf(n)
         /\ \/ Goto(t, "free") /\ UNCHANGED <<corrupt, live, record>>
            \/ NoRecord(t, n, i) \/ OldRecord(t, n, i)
            \/ \E r \in Records \ live : NewRecord(t, n, i, r)
  BY RecordCases
<1>3. CASE Goto(t, "free") /\ UNCHANGED <<live, record>>
  <2>1. th'[t].pc = "free"
    BY <1>t, <1>3, SetPlain
  <2> QED BY <1>t, <1>1, <1>3, <2>1, StorePlain
<1>4. CASE NoRecord(t, n, i)
  <2>1. th'[t].pc = "record" /\ UNCHANGED <<live, record>>
    BY <1>1, <1>4 DEF NoRecord
  <2> QED BY <1>t, <1>1, <2>1, StorePlain
<1>5. CASE OldRecord(t, n, i)
  <2>1. PICK x, y : x = Queue[i] /\ y = cell[th[t].cur].type
    OBVIOUS
  <2>2. x \in Records
    BY <1>t, <1>2, <1>5, <2>1, RecordOfType DEF OldRecord
  <2>3. th'[t].pc = "free" /\ UNCHANGED live
    BY <1>t, <1>5, SetPlain DEF OldRecord
  <2>4. record' = record \/ record' = [record EXCEPT ![x].type = "MODIFIED"]
    BY <1>5, <2>1 DEF OldRecord, Merge
  <2>5. \A r \in Records : record'[r].next = record[r].next /\ record'[r].name = record[r].name
    BY <1>t, <2>2, <2>4 DEF ListType
  <2> QED BY <1>t, <1>1, <2>3, <2>5, StorePlain
<1>6. ASSUME NEW r \in Records \ live, NewRecord(t, n, i, r) PROVE Room(m, q)'
  <2>1. Store(m, q) /\ live \subseteq Cells \cup Records
    BY <1>t DEF Room, ListType
  <2>2. PICK k \in 0..m : RecordOf(n) = {k} /\ Searched(m, q, n, k)
    BY <2>1, RecordOfList
  <2>3. k = i
    BY <1>2, <2>2
  <2>4. m \in Nat /\ \A j \in 1..m : q[j] \in Records /\ q[j] \in live /\ q[j] # Nil
    BY Listed
  <2>5. ~(i < m)
    BY <1>6, <2>2, <2>3, <2>4 DEF Searched, NewRecord
  <2>6. /\ \A j \in 1..m : record[q[j]].name # n
        /\ (IF i = 0 THEN Nil ELSE Queue[i-1]) = IF m = 0 THEN Nil ELSE q[m]
    BY <2>2, <2>3, <2>5 DEF Searched
  <2>7. PICK p : p = IF i = 0 THEN Nil ELSE Queue[i-1]
    OBVIOUS
  <2>8. th'[t] = [th[t] EXCEPT !.pc = "append", !.new = r, !.prev = p]
    BY <1>t, <1>6, <2>7, SetIs DEF NewRecord
  <2>9. th'[t].pc = "append" /\ th'[t].new = r /\ th'[t].prev = p
    BY <1>t, <2>8 DEF Context
  <2>10. live' = live \cup {r} /\ \E y : record' = [record EXCEPT ![r] = [next |-> Nil, name |-> n, type |-> y]]
    BY <1>6 DEF NewRecord
  <2>11. PICK y : record' = [record EXCEPT ![r] = [next |-> Nil, name |-> n, type |-> y]]
    BY <2>10
  <2>12. /\ record'[r].next = Nil /\ record'[r].name = n
         /\ \A z \in Records \ {r} : record'[z] = record[z]
    BY <1>t, <2>11 DEF ListType
  <2>13. \A j \in 1..m : q[j] # r
    BY <2>4
  <2>14. Ready(t, m, q)'
    BY <2>4, <2>6, <2>7, <2>9, <2>10, <2>12, <2>13 DEF Ready
  <2>15. \A u \in Threads \ {t} : th[u].pc = "append" => th[u].new # r
    BY DEF Room, Ready
  <2>16. agent.pc = "copy" => agent.cur # r
    BY DEF Room, AgentReady
  <2>17. \A z \in Records \ {r} : /\ record'[z].next = record[z].next /\ record'[z].name = record[z].name
                                  /\ z \in live => z \in live'
    BY <2>10, <2>12
  <2> QED BY <1>t, <1>1, <2>9, <2>13, <2>14, <2>15, <2>16, <2>17, StorePrivate
<1> QED BY <1>2, <1>3, <1>4, <1>5, <1>6

LEMMA StoreAppend ==
  ASSUME TypeInv, NEW m, NEW q, Room(m, q), NEW t \in Threads, Append(t), ~overlapped',
         \A u \in Threads \ {t} : th'[u] = th[u]
  PROVE  StoreInv'
<1>t. ThreadType /\ ListType /\ th[t] \in Context /\ Sound(th[t])
  BY DEF TypeInv, ThreadType
<1>1. /\ th[t].pc = "append" /\ InStore \ {t} = {} /\ agent.pc # "pop" /\ UNCHANGED <<agent, live>>
  BY DEF Append
<1>2. PICK x : x = th[t].new
  OBVIOUS
<1>3. /\ x \in Records /\ x \in live /\ record[x].next = Nil
      /\ th[t].prev = IF m = 0 THEN Nil ELSE q[m]
      /\ \A i \in 1..m : q[i] # x /\ record[q[i]].name # record[x].name
  BY <1>t, <1>1, <1>2 DEF Room, Ready, Sound
<1>4. /\ m \in Nat /\ IsList(m, q, first, Records, NextRecord)
      /\ \A i \in 1..m : q[i] \in Records /\ q[i] \in live /\ q[i] # Nil /\ NextRecord[q[i]] = record[q[i]].next
      /\ \A i, j \in 1..m : q[i] = q[j] => i = j
  BY Listed
<1>5. /\ m # 0 => record' = [record EXCEPT ![q[m]].next = x] /\ first' = first
      /\ m = 0 => record' = record /\ first' = x
  <2>1. m # 0 => m \in 1..m /\ q[m] # Nil
    BY <1>4
  <2> QED BY <1>2, <1>3, <2>1 DEF Append
<1>6. m # 0 => q[m] \in Records
  BY <1>4
<1>7. /\ NextRecord'[x] = Nil
      /\ \A i \in 1..m : i # m => NextRecord'[q[i]] = NextRecord[q[i]]
      /\ m # 0 => NextRecord'[q[m]] = x
      /\ \A r \in Records : record'[r].name = record[r].name
  <2>1. CASE m = 0
    BY <1>3, <1>4, <1>5, <2>1 DEF NextRecord
  <2>2. CASE m # 0
    <3>1. m \in 1..m
      BY <1>4, <2>2
    <3>2. \A r \in Records : /\ record'[r].next = IF r = q[m] THEN x ELSE record[r].next
                             /\ record'[r].name = record[r].name
      BY <1>t, <1>5, <1>6, <2>2 DEF ListType
    <3>3. x # q[m] /\ \A i \in 1..m : i # m => q[i] # q[m]
      BY <1>3, <1>4, <3>1
    <3>4. \A r \in Records : NextRecord'[r] = record'[r].next /\ NextRecord[r] = record[r].next
      BY DEF NextRecord
    <3> QED BY <1>3, <1>4, <1>6, <2>2, <3>2, <3>3, <3>4
  <2> QED BY <2>1, <2>2
<1>8. PICK z : z = Behind(m, q, x)
  OBVIOUS
<1>9. IsList(m + 1, z, first', Records, NextRecord')
  <2>1. PICK p, p2, h, h2 : p = NextRecord /\ p2 = NextRecord' /\ h = first /\ h2 = first'
    OBVIOUS
  <2>2. IsList(m, q, h, Records, p) /\ \A i \in 1..m : q[i] # x
    BY <1>3, <1>4, <2>1
  <2>3. /\ \A i \in 1..m : i # m => p2[q[i]] = p[q[i]]
        /\ m # 0 => p2[q[m]] = x /\ h2 = h
        /\ m = 0 => h2 = x
        /\ p2[x] = Nil
    BY <1>5, <1>7, <2>1
  <2>4. IsList(m + 1, Behind(m, q, x), h2, Records, p2)
    BY <1>3, <2>2, <2>3, ListAppend
  <2> QED BY <1>8, <2>1, <2>4
<1>10. /\ \A i \in 1..m+1 : i \in 1..m \/ i = m + 1
       /\ z[m+1] = x /\ \A i \in 1..m : z[i] = q[i]
  BY <1>4, <1>8 DEF Behind
<1>11. \A i \in 1..m+1 : z[i] \in live' /\ z[i] \in Records
  BY <1>1, <1>3, <1>4, <1>10
<1>12. Store(m + 1, z)'
  BY <1>9, <1>11 DEF Store, NextRecord, IsList
<1>13. \A i, j \in 1..m+1 : record'[z[i]].name = record'[z[j]].name => i = j
  <2>1. \A i \in 1..m+1 : record'[z[i]].name = record[z[i]].name
    BY <1>7, <1>11
  <2>2. \A i, j \in 1..m : record[q[i]].name = record[q[j]].name => i = j
    BY DEF Room
  <2> QED BY <1>3, <1>10, <2>1, <2>2
<1>14. th'[t].pc = "free"
  <2>1. th'[t] = [th[t] EXCEPT !.pc = "free", !.new = Nil, !.prev = Nil]
    BY <1>t, SetIs DEF Append
  <2> QED BY <1>t, <2>1 DEF Context
<1>15. agent.pc = "copy" => agent.cur \in live' /\ \A i \in 1..m+1 : z[i] # agent.cur
  <2>1. agent.pc = "copy" => agent.cur \in live /\ agent.cur # x /\ \A i \in 1..m : q[i] # agent.cur
    BY <1>1, <1>2 DEF Room, AgentReady
  <2> QED BY <1>1, <1>10, <2>1
<1>16. Room(m + 1, z)'
  BY <1>1, <1>12, <1>13, <1>14, <1>15, StoreWrite
<1> QED BY <1>16 DEF StoreInv

\* The first record is taken out.
LEMMA StoreFirst ==
  ASSUME ListType, NEW m, NEW q, Room(m, q), m > 0, first' = record[q[1]].next,
         \A r \in Records \ {q[1]} : record'[r] = record[r], \A r \in Records \ {q[1]} : r \in live => r \in live'
  PROVE  /\ Store(m - 1, Without(m, q, 1))'
         /\ \A i \in 1..m-1 : \E k \in 1..m : k # 1 /\ Without(m, q, 1)[i] = q[k]
         /\ \A i, j \in 1..m-1 : record'[Without(m, q, 1)[i]].name = record'[Without(m, q, 1)[j]].name => i = j
<1>1. /\ m \in Nat /\ IsList(m, q, first, Records, NextRecord)
      /\ \A i \in 1..m : q[i] \in Records /\ q[i] \in live /\ q[i] # Nil /\ NextRecord[q[i]] = record[q[i]].next
      /\ \A i, j \in 1..m : q[i] = q[j] => i = j
  BY Listed
<1>2. 1 \in 1..m /\ first' = NextRecord[q[1]]
  BY <1>1
<1>3. \A j \in 1..m : j # 1 => NextRecord'[q[j]] = NextRecord[q[j]] /\ q[j] \in live' /\ record'[q[j]] = record[q[j]]
  BY <1>1, <1>2 DEF NextRecord
<1>4. PICK z : z = Without(m, q, 1)
  OBVIOUS
<1>5. /\ IsList(m - 1, z, first', Records, NextRecord')
      /\ \A j \in 1..m-1 : \E k \in 1..m : k # 1 /\ z[j] = q[k]
  <2>1. PICK p, p2, h, h2 : p = NextRecord /\ p2 = NextRecord' /\ h = first /\ h2 = first'
    OBVIOUS
  <2>2. IsList(m, q, h, Records, p) /\ (\A j \in 1..m : j # 1 => p2[q[j]] = p[q[j]]) /\ h2 = p[q[1]]
    BY <1>1, <1>2, <1>3, <2>1
  <2>3. /\ IsList(m - 1, Without(m, q, 1), h2, Records, p2)
        /\ \A j \in 1..m-1 : \E k \in 1..m : k # 1 /\ Without(m, q, 1)[j] = q[k]
    BY <1>2, <2>2, ListRemove
  <2> QED BY <1>4, <2>1, <2>3
<1>6. Store(m - 1, z)'
  BY <1>3, <1>5 DEF Store, NextRecord, IsList
<1>7. \A i \in 1..m-1 : record'[z[i]] = record[z[i]]
  BY <1>3, <1>5
<1>8. ASSUME NEW i \in 1..m-1, NEW j \in 1..m-1, record'[z[i]].name = record'[z[j]].name PROVE i = j
  <2>1. z[i] = z[j]
    <3>1. PICK k \in 1..m : z[i] = q[k]
      BY <1>5
    <3>2. PICK l \in 1..m : z[j] = q[l]
      BY <1>5
    <3>3. record[q[k]].name = record[q[l]].name
      BY <1>7, <1>8, <3>1, <3>2
    <3>4. k = l
      BY <3>3 DEF Room
    <3> QED BY <3>1, <3>2, <3>4
  <2> QED BY <1>5, <2>1 DEF IsList
<1> QED BY <1>4, <1>5, <1>6, <1>8

LEMMA StoreCleanup ==
  ASSUME TypeInv, NEW m, NEW q, Room(m, q), NEW t \in Threads, CleanupRecord(t), ~overlapped',
         \A u \in Threads \ {t} : th'[u] = th[u]
  PROVE  StoreInv'
<1>t. ThreadType /\ ListType /\ th[t] \in Context /\ Sound(th[t])
  BY DEF TypeInv, ThreadType
<1>1. /\ th[t].pc = "clearrecord" /\ InStore \ {t} = {} /\ agent.pc # "pop" /\ UNCHANGED agent
  BY DEF CleanupRecord
<1>2. m > 0 /\ th[t].cur = q[1]
  BY <1>1 DEF Room, Ready
<1>3. q[1] \in Records
  BY <1>2, Listed
<1>4. /\ first' = record[q[1]].next /\ live' = live \ {q[1]}
      /\ record' = [record EXCEPT ![q[1]] = FreeRecord]
  BY <1>2 DEF CleanupRecord
<1>5. \A r \in Records \ {q[1]} : record'[r] = record[r] /\ (r \in live => r \in live')
  BY <1>t, <1>4 DEF ListType
<1>6. PICK z : z = Without(m, q, 1)
  OBVIOUS
<1>7. /\ Store(m - 1, z)'
      /\ \A i \in 1..m-1 : \E k \in 1..m : k # 1 /\ z[i] = q[k]
      /\ \A i, j \in 1..m-1 : record'[z[i]].name = record'[z[j]].name => i = j
  BY <1>t, <1>2, <1>4, <1>5, <1>6, StoreFirst
<1>8. th'[t].pc = "clearstore"
  <2>1. th'[t] = [th[t] EXCEPT !.cur = Nil, !.pc = "clearstore"]
    BY <1>t, SetIs DEF CleanupRecord
  <2> QED BY <1>t, <2>1 DEF Context
<1>9. agent.pc = "copy" => agent.cur \in live' /\ \A i \in 1..m-1 : z[i] # agent.cur
  <2>1. agent.pc = "copy" => agent.cur \in live /\ \A i \in 1..m : q[i] # agent.cur
    BY DEF Room, AgentReady
  <2>2. 1 \in 1..m
    BY <1>2, Listed
  <2> QED BY <1>4, <1>7, <2>1, <2>2
<1>10. Room(m - 1, z)'
  BY <1>1, <1>7, <1>8, <1>9, StoreWrite
<1> QED BY <1>10 DEF StoreInv

LEMMA ThreadStore ==
  ASSUME TypeInv, StoreInv, NEW t \in Threads, Thread(t), ~overlapped'
  PROVE  StoreInv'
<1>1. PICK m, q : Room(m, q)
  BY DEF StoreInv
<1>2. ThreadType /\ ListType /\ \A u \in Threads \ {t} : th'[u] = th[u]
  BY ThreadStep DEF TypeInv
<1>t. th[t] \in Context
  BY <1>2 DEF ThreadType
<1>3. CASE AddConvertRecord(t)
  <2>1. Room(m, q)'
    BY <1>1, <1>2, <1>3, StoreRecord
  <2> QED BY <2>1 DEF StoreInv
<1>4. CASE Append(t)
  BY <1>1, <1>2, <1>4, StoreAppend
<1>5. CASE CleanupRecord(t)
  BY <1>1, <1>2, <1>5, StoreCleanup
<1>6. CASE CleanupStore(t)
  <2>0. UNCHANGED <<first, record, live, agent>>
    BY <1>6 DEF CleanupStore, lists
  <2>1. CASE Set(t, Idle)
    <3>1. th'[t].pc = "idle"
      BY <1>2, <2>1, SetPlain
    <3>2. Room(m, q)'
      BY <1>1, <1>2, <2>0, <3>1, StorePlain
    <3> QED BY <3>2 DEF StoreInv
  <2>2. CASE first # Nil /\ Set(t, [th[t] EXCEPT !.cur = first, !.pc = "clearrecord"])
    <3>1. th'[t] = [th[t] EXCEPT !.cur = first, !.pc = "clearrecord"]
      BY <1>2, <2>2, SetIs
    <3>2. th'[t].pc = "clearrecord" /\ th'[t].cur = first
      BY <1>t, <3>1 DEF Context
    <3>3. m \in Nat /\ (m = 0 => first = Nil) /\ (m # 0 => first = q[1]) /\ \A i \in 1..m : q[i] # Nil
      BY <1>1, Listed DEF IsList
    <3>4. Ready(t, m, q)'
      BY <2>2, <3>2, <3>3 DEF Ready
    <3>5. Nil \notin Records
      BY FSMonAssumption
    <3>6. \A u \in Threads : th[u].pc = "append" => th[u].new # Nil
      BY <1>2, <3>5 DEF ThreadType, Sound
    <3>7. agent.pc = "copy" => agent.cur # Nil
      BY <1>2, <3>5 DEF ListType
    <3>8. Room(m, q)'
      BY <1>1, <1>2, <2>0, <3>2, <3>3, <3>4, <3>6, <3>7, StorePrivate
    <3> QED BY <3>8 DEF StoreInv
  <2> QED BY <1>6, <2>1, <2>2 DEF CleanupStore
<1>7. CASE ~AddConvertRecord(t) /\ ~Append(t) /\ ~CleanupRecord(t) /\ ~CleanupStore(t)
  <2>1. th'[t].pc \notin {"append", "clearrecord"}
    BY <1>7, NoStore
  <2>2. UNCHANGED <<first, record, agent>> /\ \A r \in Records : r \in live => r \in live'
    BY <1>7, StoreApart
  <2>3. Room(m, q)'
    BY <1>1, <1>2, <2>1, <2>2, StorePlain
  <2> QED BY <2>3 DEF StoreInv
<1> QED BY <1>3, <1>4, <1>5, <1>6, <1>7

LEMMA OtherStore ==
  ASSUME TypeInv, StoreInv, Other, ~overlapped'
  PROVE  StoreInv'
<1>1. PICK m, q : Room(m, q)
  BY DEF StoreInv
<1>2. ListType /\ ThreadType
  BY DEF TypeInv
<1>e. /\ m \in Nat /\ (m = 0 => first = Nil) /\ (m # 0 => first = q[1])
      /\ \A i \in 1..m : q[i] \in Records /\ q[i] \in live /\ q[i] # Nil
  BY <1>1, Listed DEF IsList
<1>3. CASE StartOrStopWork \/ AddMonitorItem
  <2>1. UNCHANGED <<th, agent, first, record, live>>
    BY <1>3 DEF StartOrStopWork, AddMonitorItem, lists
  <2>2. Room(m, q)'
    BY <1>1, <2>1 DEF Room, Store, IsList, Ready, AgentReady
  <2> QED BY <2>2 DEF StoreInv
<1>4. CASE GetOldestRecord
  <2>1. UNCHANGED <<th, first, record, live>> /\ first # Nil /\ agent' = [agent EXCEPT !.pc = "pop", !.cur = first]
    BY <1>4 DEF GetOldestRecord, lists
  <2>2. agent'.pc = "pop" /\ agent'.cur = first
    BY <1>2, <2>1 DEF ListType
  <2>3. AgentReady(m, q)'
    BY <1>e, <2>1, <2>2 DEF AgentReady
  <2>4. Room(m, q)'
    BY <1>1, <2>1, <2>3 DEF Room, Store, IsList, Ready
  <2> QED BY <2>4 DEF StoreInv
<1>5. CASE Pop
  <2>1. /\ agent.pc = "pop" /\ InStore = {} /\ UNCHANGED <<live, record, th>>
        /\ first' = record[agent.cur].next /\ agent' = [agent EXCEPT !.pc = "copy"]
    BY <1>5 DEF Pop, Overlap
  <2>2. m > 0 /\ agent.cur = q[1]
    BY <1>1, <2>1 DEF Room, AgentReady
  <2>3. PICK z : z = Without(m, q, 1)
    OBVIOUS
  <2>4. /\ Store(m - 1, z)'
        /\ \A i \in 1..m-1 : \E k \in 1..m : k # 1 /\ z[i] = q[k]
        /\ \A i, j \in 1..m-1 : record'[z[i]].name = record'[z[j]].name => i = j
    BY <1>1, <1>2, <2>1, <2>2, <2>3, StoreFirst
  <2>5. agent'.pc = "copy" /\ agent'.cur = q[1]
    BY <1>2, <2>1, <2>2 DEF ListType
  <2>6. 1 \in 1..m /\ \A i, j \in 1..m : q[i] = q[j] => i = j
    BY <1>1, <2>2, Listed
  <2>7. \A t \in Threads : th'[t].pc \notin {"append", "clearrecord"}
    BY <2>1 DEF InStore
  <2>8. AgentReady(m - 1, z)'
    BY <1>e, <2>1, <2>4, <2>5, <2>6, <2>7 DEF AgentReady
  <2>9. \A t \in Threads : Ready(t, m - 1, z)'
    BY <2>7 DEF Ready
  <2>10. Room(m - 1, z)'
    BY <2>4, <2>7, <2>8, <2>9 DEF Room
  <2> QED BY <2>10 DEF StoreInv
<1>6. CASE Fetch
  <2>1. /\ agent.pc = "copy" /\ live' = live \ {agent.cur} /\ record' = [record EXCEPT ![agent.cur] = FreeRecord]
        /\ agent'.pc = "encrypt" /\ UNCHANGED <<first, th>>
    BY <1>6 DEF Fetch
  <2>2. PICK x : x = agent.cur
    OBVIOUS
  <2>3. /\ \A i \in 1..m : q[i] # x
        /\ \A t \in Threads : th[t].pc = "append" => th[t].new # x /\ th[t].new \in Records
    BY <1>1, <1>2, <2>1, <2>2 DEF Room, AgentReady, ThreadType, Sound
  <2>4. \A r \in Records \ {x} : record'[r] = record[r] /\ (r \in live => r \in live')
    BY <1>2, <2>1, <2>2 DEF ListType
  <2>5. \A i \in 1..m : q[i] \in live' /\ record'[q[i]] = record[q[i]]
    BY <1>e, <2>3, <2>4
  <2>6. Store(m, q)'
    <3>1. IsList(m, q, first, Records, NextRecord)
      BY <1>1, Listed
    <3>2. \A i \in 1..m : NextRecord'[q[i]] = NextRecord[q[i]]
      BY <1>e, <2>5 DEF NextRecord
    <3>3. IsList(m, q, first', Records, NextRecord')
      BY <2>1, <3>1, <3>2, ListKept
    <3> QED BY <2>5, <3>3 DEF Store, NextRecord, IsList
  <2>7. \A i, j \in 1..m : record'[q[i]].name = record'[q[j]].name => i = j
    BY <1>1, <2>5 DEF Room
  <2>8. ASSUME NEW t \in Threads PROVE Ready(t, m, q)'
    <3>1. Ready(t, m, q)
      BY <1>1 DEF Room
    <3>2. CASE th[t].pc = "append"
      <4>1. record'[th[t].new] = record[th[t].new] /\ th[t].new \in live'
        BY <2>3, <2>4, <3>1, <3>2 DEF Ready
      <4> QED BY <2>1, <2>5, <3>1, <3>2, <4>1 DEF Ready
    <3>3. CASE th[t].pc # "append"
      BY <2>1, <3>1, <3>3 DEF Ready
    <3> QED BY <3>2, <3>3
  <2>9. AgentReady(m, q)'
    BY <2>1 DEF AgentReady
  <2>10. Room(m, q)'
    BY <1>1, <2>1, <2>6, <2>7, <2>8, <2>9 DEF Room
  <2> QED BY <2>10 DEF StoreInv
<1>7. CASE Encrypt
  <2>1. UNCHANGED <<th, first, record, live>> /\ agent'.pc = "idle"
    BY <1>7 DEF Encrypt, lists, Resting
  <2>2. Room(m, q)'
    BY <1>1, <2>1 DEF Room, Store, IsList, Ready, AgentReady
  <2> QED BY <2>2 DEF StoreInv
<1> QED BY <1>3, <1>4, <1>5, <1>6, <1>7 DEF Other

-----------------------------------------------------------------------------
(* Memory safety.                                                          *)

MemInv == ~overlapped => ~corrupt /\ HashInv /\ StoreInv

LEMMA ThreadSafe ==
  ASSUME TypeInv, HashInv, StoreInv, ~corrupt, NEW t \in Threads, Thread(t)
  PROVE  ~corrupt'
<1>1. PICK n, s : Place(n, s)
  BY DEF HashInv
<1>2. PICK m, q : Room(m, q)
  BY DEF StoreInv
<1>t. ThreadType /\ ListType /\ th[t] \in Context /\ Sound(th[t])
  BY DEF TypeInv, ThreadType
<1>e. /\ n \in Nat
      /\ \A i \in 1..n : s[i] \in live
      /\ th[t].pc \in Holding => th[t].cur \in live
      /\ Poised(t, n, s) /\ Table(n, s) /\ live \subseteq Cells \cup Records
  BY <1>1, <1>t, Entry DEF Place, ListType
<1>f. /\ m \in Nat /\ Ready(t, m, q)
      /\ \A i \in 1..m : q[i] \in live
  BY <1>2, Listed DEF Room
<1>l. \A o : Lookup(o).bad = FALSE
  <2> SUFFICES ASSUME NEW o PROVE Lookup(o).bad = FALSE
    OBVIOUS
  <2>1. Found(n, s, o)
    BY <1>e, LookupList
  <2> QED BY <2>1 DEF Found
<1>3. ASSUME NEW call \in Calls, NEW o \in Objects, NEW to \in Names \cup {Nil}, NEW excl \in BOOLEAN,
             Begin(t, call, o, to, excl)
      PROVE  ~corrupt'
  BY <1>3 DEF Begin
<1>4. CASE GetFullPath(t)
  BY <1>4, <1>l DEF GetFullPath
<1>5. CASE ParseReName(t) \/ LogHash(t) \/ Push(t)
  BY <1>5 DEF ParseReName, LogHash, Push
<1>6. CASE MarkWritten(t)
  BY <1>6, <1>l DEF MarkWritten, SetWriteFlag
<1>7. CASE Find(t)
  BY <1>7, <1>l DEF Find
<1>8. CASE Unlink(t)
  <2>1. PICK i \in 1..n : th[t].cur = s[i] /\ th[t].prev = IF i = 1 THEN Nil ELSE s[i-1]
    BY <1>e, <1>8 DEF Unlink, Poised
  <2>2. i # 1 => i - 1 \in 1..n
    BY <1>e
  <2>3. {th[t].cur, th[t].prev} \ {Nil} \subseteq live
    BY <1>e, <2>1, <2>2
  <2> QED BY <1>8, <2>3 DEF Unlink
<1>9. CASE AddConvertRecord(t)
  <2>1. th[t].cur \in live
    BY <1>e, <1>9 DEF AddConvertRecord, Holding
  <2>2. PICK o, i :
         /\ RecordOf(o) # {} => i \in RecordOf(o)
         /\ \/ UNCHANGED corrupt \/ NoRecord(t, o, i)
    BY <1>9, RecordCases DEF OldRecord, NewRecord
  <2>3. PICK k \in 0..m : RecordOf(o) = {k} /\ Searched(m, q, o, k)
    BY <1>2, <1>e, RecordOfList DEF Room
  <2>4. Queue[k] = Nil \/ Queue[k] \in live
    <3>1. CASE k < m
      <4>1. k + 1 \in 1..m
        BY <1>f, <3>1
      <4> QED BY <1>f, <2>3, <3>1, <4>1 DEF Searched
    <3>2. CASE ~(k < m)
      BY <2>3, <3>2 DEF Searched
    <3> QED BY <3>1, <3>2
  <2>5. i = k
    BY <2>2, <2>3
  <2>6. ~NoRecord(t, o, i)
    BY <2>1, <2>3, <2>4, <2>5 DEF NoRecord
  <2> QED BY <2>2, <2>6
<1>10. CASE Append(t)
  <2>1. th[t].prev = IF m = 0 THEN Nil ELSE q[m]
    BY <1>f, <1>10 DEF Append, Ready
  <2>2. th[t].prev \in live \cup {Nil}
    BY <1>f, <2>1
  <2> QED BY <1>10, <2>2 DEF Append
<1>11. CASE Free(t)
  BY <1>e, <1>11 DEF Free, Holding
<1>12. CASE LowerCreate(t) \/ LowerOther(t) \/ ClearState(t) \/ CleanupHash(t) \/ CleanupTable(t) \/ CleanupStore(t)
  BY <1>12 DEF LowerCreate, LowerOther, ClearState, CleanupHash, CleanupTable, CleanupStore
<1>13. CASE LowerRename(t)
  BY <1>13, <1>l DEF LowerRename, SetWriteFlag
<1>14. CASE CleanupCell(t)
  <2>1. 1 \in 1..n /\ th[t].cur = s[1]
    BY <1>e, <1>14 DEF CleanupCell, Poised
  <2> QED BY <1>e, <1>14, <2>1 DEF CleanupCell
<1>15. CASE CleanupRecord(t)
  <2>1. 1 \in 1..m /\ th[t].cur = q[1]
    BY <1>f, <1>15 DEF CleanupRecord, Ready
  <2> QED BY <1>f, <1>15, <2>1 DEF CleanupRecord
<1> QED BY <1>3, <1>4, <1>5, <1>6, <1>7, <1>8, <1>9, <1>10, <1>11, <1>12, <1>13, <1>14, <1>15 DEF Thread

LEMMA OtherSafe ==
  ASSUME StoreInv, ~corrupt, Other
  PROVE  ~corrupt'
<1>1. PICK m, q : Room(m, q)
  BY DEF StoreInv
<1>2. CASE Pop
  <2>1. 1 \in 1..m /\ agent.cur = q[1]
    BY <1>1, <1>2, Listed DEF Pop, Room, AgentReady
  <2>2. agent.cur \in live
    BY <1>1, <2>1, Listed
  <2> QED BY <1>2, <2>2 DEF Pop
<1>3. CASE Fetch
  BY <1>1, <1>3 DEF Fetch, Room, AgentReady
<1>4. CASE StartOrStopWork \/ AddMonitorItem \/ GetOldestRecord \/ Encrypt
  BY <1>4 DEF StartOrStopWork, AddMonitorItem, GetOldestRecord, Encrypt
<1> QED BY <1>2, <1>3, <1>4 DEF Other

\* The history of races only grows.
LEMMA OverlapStays == [Next]_vars /\ overlapped => overlapped'
<1> SUFFICES ASSUME [Next]_vars, overlapped PROVE overlapped'
  OBVIOUS
<1>1. ASSUME NEW t \in Threads, Thread(t) PROVE overlapped'
  <2>1. ASSUME NEW call \in Calls, NEW o \in Objects, NEW to \in Names \cup {Nil}, NEW excl \in BOOLEAN,
               Begin(t, call, o, to, excl)
        PROVE  overlapped'
    BY <2>1 DEF Begin
  <2>2. CASE GetFullPath(t) \/ ParseReName(t) \/ LogHash(t) \/ Push(t) \/ MarkWritten(t)
    BY <2>2 DEF GetFullPath, ParseReName, LogHash, Push, MarkWritten, Overlap
  <2>3. CASE Find(t) \/ Unlink(t) \/ AddConvertRecord(t) \/ Append(t) \/ Free(t)
    BY <2>3 DEF Find, Unlink, AddConvertRecord, Append, Free, Overlap
  <2>4. CASE LowerCreate(t) \/ LowerRename(t) \/ LowerOther(t) \/ ClearState(t)
    BY <2>4 DEF LowerCreate, LowerRename, LowerOther, ClearState
  <2>5. CASE CleanupHash(t) \/ CleanupCell(t) \/ CleanupTable(t) \/ CleanupStore(t) \/ CleanupRecord(t)
    BY <2>5 DEF CleanupHash, CleanupCell, CleanupTable, CleanupStore, CleanupRecord, Overlap
  <2> QED BY <1>1, <2>1, <2>2, <2>3, <2>4, <2>5 DEF Thread
<1>2. CASE Other
  BY <1>2 DEF Other, StartOrStopWork, AddMonitorItem, GetOldestRecord, Pop, Fetch, Encrypt, Overlap
<1>3. CASE UNCHANGED vars
  BY <1>3 DEF vars
<1> QED BY <1>1, <1>2, <1>3 DEF Next, Other

LEMMA InitMem == Init => MemInv
<1> SUFFICES ASSUME Init PROVE ~corrupt /\ HashInv /\ StoreInv
  BY DEF MemInv
<1> DEFINE e == [i \in 1..0 |-> Nil]
<1>1. \A t \in Threads : th[t].pc = "idle"
  BY DEF Init, Idle
<1>2. head = Nil /\ first = Nil /\ agent.pc = "idle" /\ ~corrupt
  BY DEF Init, Resting
<1>3. e \in [1..0 -> Cells] /\ e \in [1..0 -> Records] /\ \A i \in 1..0 : FALSE
  OBVIOUS
<1> HIDE DEF e
<1>4. Table(0, e) /\ Store(0, e)
  BY <1>2, <1>3 DEF Table, Store, IsList
<1>5. Place(0, e)
  BY <1>1, <1>4 DEF Place, Owns, Poised, Holding
<1>6. Room(0, e)
  BY <1>1, <1>2, <1>3, <1>4 DEF Room, Ready, AgentReady
<1> QED BY <1>2, <1>5, <1>6 DEF HashInv, StoreInv

LEMMA MemStep == TypeInv /\ MemInv /\ [Next]_vars => MemInv'
<1> SUFFICES ASSUME TypeInv, MemInv, [Next]_vars, ~overlapped'
             PROVE  ~corrupt' /\ HashInv' /\ StoreInv'
  BY DEF MemInv
<1>1. ~corrupt /\ HashInv /\ StoreInv
  BY OverlapStays DEF MemInv
<1>2. ASSUME NEW t \in Threads, Thread(t) PROVE ~corrupt' /\ HashInv' /\ StoreInv'
  BY <1>1, <1>2, ThreadHash, ThreadStore, ThreadSafe
<1>3. CASE Other
  BY <1>1, <1>3, OtherHash, OtherStore, OtherSafe
<1>4. CASE UNCHANGED vars
  <2>1. UNCHANGED <<head, first, cell, record, live, th, agent, corrupt>>
    BY <1>4 DEF vars, lists
  <2>2. HashInv'
    <3>1. PICK n, s : Place(n, s)
      BY <1>1 DEF HashInv
    <3>2. Place(n, s)'
      BY <2>1, <3>1, HashSame DEF TypeInv
    <3> QED BY <3>2 DEF HashInv
  <2>3. StoreInv'
    <3>1. PICK m, q : Room(m, q)
      BY <1>1 DEF StoreInv
    <3>2. Room(m, q)'
      BY <2>1, <3>1 DEF Room, Store, IsList, Ready, AgentReady
    <3> QED BY <3>2 DEF StoreInv
  <2> QED BY <1>1, <2>1, <2>2, <2>3
<1> QED BY <1>2, <1>3, <1>4 DEF Next, Other

LEMMA MemInvariant == Spec => [](TypeInv /\ MemInv)
<1>1. Init => TypeInv /\ MemInv
  BY InitType, InitMem
<1>2. TypeInv /\ MemInv /\ [Next]_vars => (TypeInv /\ MemInv)'
  BY TypeStep, MemStep
<1> QED BY <1>1, <1>2, PTL DEF Spec

\* As long as no thread writes a list inside another one's section, nothing is
\* used after it was freed and no list becomes a ring: for any numbers of threads,
\* objects, cells and records, and any calls.
THEOREM Safe == Spec => []MemorySafe
<1>1. MemInv => MemorySafe
  BY DEF MemInv, MemorySafe
<1> QED BY <1>1, MemInvariant, PTL

\* The list has the records of Room.
LEMMA InQueueList ==
  ASSUME NEW m, NEW q, Room(m, q)
  PROVE  InQueue \subseteq {q[i] : i \in 1..m}
<1>m. PICK k : k = Cardinality(Records)
  OBVIOUS
<1>1. k \in Nat /\ IsFiniteSet(Records) /\ Nil \notin Records
  BY <1>m, FSMonAssumption, FS_CardinalityType
<1>2. m \in Nat /\ m \in 0..k /\ Queue = [i \in 0..k |-> IF i < m THEN q[i+1] ELSE Nil]
  BY <1>m, <1>1, WalkList DEF Room, Store, Queue
<1>3. ASSUME NEW x \in InQueue PROVE \E i \in 1..m : x = q[i]
  <2>1. PICK i \in 0..k : x = Queue[i] /\ x # Nil
    BY <1>2, <1>3 DEF InQueue
  <2>2. i < m /\ x = q[i+1] /\ i + 1 \in 1..m
    BY <1>1, <1>2, <2>1
  <2> QED BY <2>2
<1> QED BY <1>3

\* A file has one record, races apart.
THEOREM OneRecord == Spec => []OneRecordPerFile
<1>1. MemInv => OneRecordPerFile
  <2> SUFFICES ASSUME MemInv, ~overlapped, NEW r \in InQueue, NEW s \in InQueue, record[r].name = record[s].name
               PROVE  r = s
    BY DEF OneRecordPerFile
  <2>1. PICK m, q : Room(m, q)
    BY DEF MemInv, StoreInv
  <2>2. PICK i \in 1..m : r = q[i]
    BY <2>1, InQueueList
  <2>3. PICK j \in 1..m : s = q[j]
    BY <2>1, InQueueList
  <2>4. i = j
    BY <2>1, <2>2, <2>3 DEF Room
  <2> QED BY <2>2, <2>3, <2>4
<1> QED BY <1>1, MemInvariant, PTL
-----------------------------------------------------------------------------
(* Entries and their objects.                                              *)

Entries(o) == {c \in InChain : cell[c].obj = o}

\* Renames of object o that have put an entry in and have not taken one out.
Renamers(o) ==
  {t \in Threads : /\ th[t].call = "rename" /\ th[t].seen /\ th[t].obj = o
                   /\ th[t].pc \in {"lower", "find", "unlink"}}

\* A close, or a create that has failed, has taken the entry of its object out.
Past(t) ==
  \/ th[t].call = "close" /\ th[t].pc \in {"record", "append", "free", "lower"}
  \/ th[t].call = "create" /\ th[t].done /\ th[t].pc \in {"record", "append", "free"}

\* What a thread brings to the table, or takes from it.
Brings(t) ==
  /\ th[t].pc \in {"log", "push", "unlink"} => cell[th[t].cur].obj = th[t].obj
  /\ th[t].pc \in {"log", "push"} /\ th[t].call = "rename" => th[t].seen

\* An object has one entry, and one more at most for each of its renames.
Counted(o) == Cardinality(Entries(o)) <= 1 + Cardinality(Renamers(o))

ObjInv ==
  /\ \A c \in InChain : cell[c].obj \in Objects
  /\ \A t \in Threads : Brings(t)
  /\ \A o \in Objects : Counted(o)
  /\ \A o \in Objects : file[o].state = "free" => Entries(o) = {}
  /\ \A t \in Threads : Past(t) => Entries(th[t].obj) = {}

\* A step that takes no entry out and is not the last one on an object.
Keeps(t) ==
  /\ Brings(t)'
  /\ \A o \in Objects : t \in Renamers(o) => t \in Renamers(o)'
  /\ Past(t)' => Past(t) /\ th'[t].obj = th[t].obj
  /\ \A o \in Objects : file'[o].state = "free" => file[o].state = "free" \/ (Past(t) /\ o = th[t].obj)

\* A step that finds no entry.
Misses(t) == Find(t) /\ Lookup(th[t].obj).cur = Nil

\* Only the part of a call that the thread is in changes.
LEMMA GotoFields ==
  ASSUME ThreadType, NEW t \in Threads, NEW l, Goto(t, l)
  PROVE  /\ th'[t].pc = l /\ th'[t].cur = th[t].cur /\ th'[t].obj = th[t].obj
         /\ th'[t].call = th[t].call /\ th'[t].seen = th[t].seen /\ th'[t].done = th[t].done
<1>1. th[t] \in Context
  BY DEF ThreadType
<1>2. th'[t] = [th[t] EXCEPT !.pc = l]
  BY SetIs DEF Goto
<1> QED BY <1>1, <1>2 DEF Context

\* A thread that is in no call brings nothing.
LEMMA AtRest ==
  ASSUME NEW t \in Threads, th'[t].pc \in {"idle"} \cup ClearLabels,
         th[t].pc = "idle" \/ th[t].pc \in ClearLabels \/ th[t].call # "rename", UNCHANGED file, ThreadType,
         th'[t].pc = "idle" \/ th'[t].call = "clear"
  PROVE  Keeps(t)
<1>1. Brings(t)'
  BY DEF Brings, ClearLabels
<1>2. \A o \in Objects : t \notin Renamers(o)
  BY DEF Renamers, ClearLabels
<1>3. ~Past(t)'
  BY DEF Past, ClearLabels
<1> QED BY <1>1, <1>2, <1>3 DEF Keeps

\* A call goes on outside the table.
LEMMA GoesOn ==
  ASSUME NEW t \in Threads, UNCHANGED file,
         th'[t].call = th[t].call, th'[t].obj = th[t].obj,
         th'[t].pc \notin {"log", "push", "unlink"},
         th[t].call = "rename" => th[t].pc \notin {"lower", "find", "unlink"} \/
                                  (th'[t].seen = th[t].seen /\ th'[t].pc \in {"lower", "find"}),
         Past(t)' => Past(t)
  PROVE  Keeps(t)
<1>1. Brings(t)'
  BY DEF Brings
<1>2. \A o \in Objects : t \in Renamers(o) => t \in Renamers(o)'
  BY DEF Renamers
<1> QED BY <1>1, <1>2 DEF Keeps
\* A new entry is made for a thread.
Logged(t, c, n, type) ==
  /\ cell' = [cell EXCEPT ![c] = [next |-> Nil, obj |-> th[t].obj, name |-> n, type |-> type]]
  /\ Set(t, [th[t] EXCEPT !.pc = "log", !.cur = c])

\* A new entry is of the thread's object.
LEMMA LogKeeps ==
  ASSUME ThreadType, ListType, NEW t \in Threads, th[t].pc \in {"lookup", "parse"},
         th[t].call = "rename" => th[t].seen, UNCHANGED file,
         NEW n, NEW type, NEW l \in {"find", "lower", "idle"}, th[t].call = "close" => l # "lower",
         Log(t, n, type, l)
  PROVE  Keeps(t)
<1>t. th[t] \in Context
  BY DEF ThreadType
<1>1. CASE Pass(t, l)
  <2>1. CASE l = "idle"
    <3>1. th'[t].pc = "idle"
      BY <1>1, SetPlain, <2>1
    <3>2. \A o \in Objects : t \notin Renamers(o)
      BY DEF Renamers
    <3> QED BY <3>1, <3>2 DEF Keeps, Brings, Past
  <2>2. CASE l # "idle"
    <3>1. Set(t, [th[t] EXCEPT !.pc = l, !.seen = FALSE])
      BY <1>1, <2>2 DEF Pass
    <3>2. th'[t] = [th[t] EXCEPT !.pc = l, !.seen = FALSE]
      BY <3>1, SetIs
    <3>3. th'[t].pc = l /\ th'[t].call = th[t].call /\ th'[t].obj = th[t].obj
      BY <1>t, <3>2 DEF Context
    <3>4. ~Past(t)'
      BY <3>3 DEF Past
    <3> QED BY <3>3, <3>4, GoesOn
  <2> QED BY <2>1, <2>2
<1>2. CASE \E c \in Cells \ live : Logged(t, c, n, type)
  <2>0. PICK c \in Cells \ live : Logged(t, c, n, type)
    BY <1>2
  <2>1. th'[t] = [th[t] EXCEPT !.pc = "log", !.cur = c]
    BY <2>0, SetIs DEF Logged
  <2>2. /\ th'[t].pc = "log" /\ th'[t].cur = c /\ th'[t].call = th[t].call /\ th'[t].obj = th[t].obj
        /\ th'[t].seen = th[t].seen
    BY <1>t, <2>1 DEF Context
  <2>3. cell'[c].obj = th[t].obj
    BY <2>0 DEF ListType, Logged
  <2>4. Brings(t)'
    BY <2>2, <2>3 DEF Brings
  <2>5. \A o \in Objects : t \notin Renamers(o)
    BY DEF Renamers
  <2>6. ~Past(t)'
    BY <2>2 DEF Past
  <2> QED BY <2>4, <2>5, <2>6 DEF Keeps
<1>3. \/ Pass(t, l)
      \/ \E c \in Cells \ live : Logged(t, c, n, type)
  BY Zenon DEF Log, Logged
<1> QED BY <1>1, <1>2, <1>3

LEMMA BeginKeeps ==
  ASSUME TypeInv, NEW t \in Threads, NEW call \in Calls, NEW o \in Objects,
         NEW to \in Names \cup {Nil}, NEW excl \in BOOLEAN, Begin(t, call, o, to, excl)
  PROVE  Keeps(t)
<1>0. call \in AllCalls \ {"clear"} /\ th[t].pc = "idle" /\ ThreadType /\ FileType
  BY FSMonAssumption DEF Begin, May, TypeInv, FileInv
<1>1. \A p \in Objects : t \notin Renamers(p)
  BY <1>0 DEF Renamers
<1>2. \A p \in Objects : file'[p].state = "free" => file[p].state = "free"
  BY <1>0 DEF Begin, FileType
<1>3. Brings(t)'
  <2>1. th'[t].pc \in {"idle", "parse", "lookup", "find", "lower"}
    BY <1>0, BeginPc
  <2> QED BY <2>1 DEF Brings
<1>4. ~Past(t)'
  <2>1. CASE Set(t, Idle)
    <3>1. th'[t].pc = "idle"
      BY <1>0, <2>1, SetPlain
    <3> QED BY <3>1 DEF Past
  <2>2. PICK l : l = IF call = "rename" THEN "parse" ELSE IF working /\ ~excl THEN "lookup" ELSE Unnamed(call)
    OBVIOUS
  <2>3. ASSUME NEW seen,
               Set(t, [pc |-> l, call |-> call, obj |-> o, to |-> to, seen |-> seen,
                       cur |-> Nil, prev |-> Nil, new |-> Nil, done |-> FALSE])
        PROVE  ~Past(t)'
    <3>1. th'[t] = [pc |-> l, call |-> call, obj |-> o, to |-> to, seen |-> seen,
                       cur |-> Nil, prev |-> Nil, new |-> Nil, done |-> FALSE]
      BY <1>0, <2>3, SetIs
    <3>2. th'[t].pc = l /\ th'[t].call = call /\ th'[t].done = FALSE
      BY <3>1
    <3>3. call = "close" => l \in {"lookup", "find"}
      BY <2>2, CallNames
    <3> QED BY <3>2, <3>3 DEF Past
  <2>4. \/ Set(t, Idle)
        \/ \E seen : Set(t, [pc |-> l, call |-> call, obj |-> o, to |-> to, seen |-> seen,
                       cur |-> Nil, prev |-> Nil, new |-> Nil, done |-> FALSE])
    BY <2>2 DEF Begin
  <2> QED BY <2>1, <2>3, <2>4
<1> QED BY <1>1, <1>2, <1>3, <1>4 DEF Keeps

\* The steps that look up, make and put in an entry.
LEMMA NamesKeeps ==
  ASSUME TypeInv, HashInv, ObjInv, NEW t \in Threads,
         \/ GetFullPath(t) \/ ParseReName(t) \/ LogHash(t) \/ Push(t) \/ MarkWritten(t)
         \/ Find(t) /\ ~Misses(t)
  PROVE  Keeps(t)
<1>i. ThreadType /\ ListType /\ FileInv
  BY DEF TypeInv
<1>t. th[t] \in Context /\ Sound(th[t])
  BY <1>i DEF ThreadType
<1>1. CASE GetFullPath(t)
  <2>0. th[t].pc = "lookup" /\ UNCHANGED file /\ th[t].call \in AllCalls \ {"clear", "rename"}
    BY <1>1, <1>t DEF GetFullPath, Sound, Context, ClearLabels
  <2>1. CASE UNCHANGED th
    BY <2>0, <2>1, GoesOn DEF Past
  <2>2. CASE Goto(t, Named(th[t].call))
    <3>1. Named(th[t].call) \in {"setflag", "find", "lower"} /\ (th[t].call = "close" => Named(th[t].call) = "find")
      BY <2>0, CallNames DEF AllCalls
    <3>2. PICK l : l = Named(th[t].call)
      OBVIOUS
    <3>3. th'[t].pc = l /\ th'[t].obj = th[t].obj /\ th'[t].call = th[t].call
      BY <1>i, <2>2, <3>2, GotoFields
    <3>4. ~Past(t)'
      BY <3>1, <3>2, <3>3 DEF Past
    <3> QED BY <2>0, <3>1, <3>2, <3>3, <3>4, GoesOn
  <2>3. CASE Log(t, file[th[t].obj].opened, "NORMAL", Unnamed(th[t].call))
    <3>1. Unnamed(th[t].call) \in {"find", "lower", "idle"} /\ (th[t].call = "close" => Unnamed(th[t].call) # "lower")
      BY <2>0, CallNames DEF AllCalls
    <3> QED BY <1>i, <2>0, <2>3, <3>1, LogKeeps
  <2> QED BY <1>1, <2>1, <2>2, <2>3 DEF GetFullPath
<1>2. CASE ParseReName(t)
  <2>0. th[t].pc = "parse" /\ UNCHANGED file /\ th[t].call = "rename"
    BY <1>2, <1>t DEF ParseReName, Sound
  <2>1. CASE Goto(t, "lower")
    <3>1. th'[t].pc = "lower" /\ th'[t].obj = th[t].obj /\ th'[t].call = th[t].call
      BY <1>i, <2>1, GotoFields
    <3>2. ~Past(t)'
      BY <2>0, <3>1 DEF Past
    <3> QED BY <2>0, <3>1, <3>2, GoesOn
  <2>2. CASE th[t].seen /\ Log(t, th[t].to, "RENAME", "lower")
    BY <1>i, <2>0, <2>2, LogKeeps
  <2> QED BY <1>2, <2>1, <2>2 DEF ParseReName
<1>3. CASE LogHash(t)
  <2>0. th[t].pc = "log" /\ UNCHANGED file /\ th[t].cur \in Cells /\ cell' = [cell EXCEPT ![th[t].cur].next = head]
    BY <1>3, <1>t DEF LogHash, Sound, CellLabels
  <2>1. /\ th'[t].pc = "push" /\ th'[t].cur = th[t].cur /\ th'[t].obj = th[t].obj
        /\ th'[t].call = th[t].call /\ th'[t].seen = th[t].seen
    BY <1>i, <1>3, GotoFields DEF LogHash
  <2>2. cell'[th[t].cur].obj = cell[th[t].cur].obj
    BY <1>i, <2>0 DEF ListType
  <2>3. Brings(t)
    BY DEF ObjInv
  <2>4. Brings(t)'
    BY <2>0, <2>1, <2>2, <2>3 DEF Brings
  <2>5. \A o \in Objects : t \notin Renamers(o)
    BY <2>0 DEF Renamers
  <2>6. ~Past(t)'
    BY <2>1 DEF Past
  <2> QED BY <2>0, <2>4, <2>5, <2>6 DEF Keeps
<1>4. CASE Push(t)
  <2>0. th[t].pc = "push" /\ UNCHANGED file /\ th[t].call \in AllCalls \ {"clear"}
    BY <1>4, <1>t DEF Push, Sound, Context, ClearLabels
  <2>1. PICK l : l = IF th[t].call = "rename" THEN "lower" ELSE Named(th[t].call)
    OBVIOUS
  <2>2. l \in {"setflag", "find", "lower"} /\ (th[t].call = "close" => l = "find")
    BY <2>0, <2>1, CallNames DEF AllCalls
  <2>3. Set(t, [th[t] EXCEPT !.cur = Nil, !.pc = l])
    BY <1>4, <2>1 DEF Push
  <2>4. th'[t] = [th[t] EXCEPT !.cur = Nil, !.pc = l]
    BY <1>i, <2>3, SetIs
  <2>5. th'[t].pc = l /\ th'[t].obj = th[t].obj /\ th'[t].call = th[t].call
    BY <1>t, <2>4 DEF Context
  <2>6. ~Past(t)'
    BY <2>2, <2>5 DEF Past
  <2> QED BY <2>0, <2>2, <2>5, <2>6, GoesOn
<1>5. CASE MarkWritten(t)
  <2>0. th[t].pc = "setflag" /\ UNCHANGED file /\ th[t].call \in {"write", "fastwrite"}
    BY <1>5, <1>t DEF MarkWritten, Sound
  <2>1. CASE th[t].call = "write"
    <3>1. Goto(t, "lower")
      BY <1>5, <2>1 DEF MarkWritten, Leave
    <3>2. th'[t].pc = "lower" /\ th'[t].obj = th[t].obj /\ th'[t].call = th[t].call
      BY <1>i, <3>1, GotoFields
    <3>3. ~Past(t)'
      BY <2>1, <3>2 DEF Past
    <3> QED BY <2>0, <3>2, <3>3, GoesOn
  <2>2. CASE th[t].call = "fastwrite"
    <3>1. th'[t].pc = "idle"
      BY <1>i, <1>5, <2>2, SetPlain DEF MarkWritten
    <3> QED BY <1>i, <2>0, <3>1, AtRest
  <2> QED BY <2>0, <2>1, <2>2
<1>6. CASE Find(t) /\ ~Misses(t)
  <2>0. th[t].pc = "find"
    BY <1>6 DEF Find
  <2>1. PICK x, p : x = Lookup(th[t].obj).cur /\ p = Lookup(th[t].obj).prev
    OBVIOUS
  <2>2. x # Nil
    BY <1>6, <2>1 DEF Misses
  <2>3. UNCHANGED <<file, cell>> /\ Set(t, [th[t] EXCEPT !.pc = "unlink", !.cur = x, !.prev = p])
    BY <1>6, <2>1, <2>2 DEF Find, lists
  <2>4. PICK n, s : Place(n, s)
    BY DEF HashInv
  <2>5. Found(n, s, th[t].obj)
    BY <1>i, <2>4, LookupList DEF Place, ListType
  <2>6. cell[x].obj = th[t].obj
    BY <2>1, <2>2, <2>5 DEF Found
  <2>7. th'[t] = [th[t] EXCEPT !.pc = "unlink", !.cur = x, !.prev = p]
    BY <1>i, <2>3, SetIs
  <2>8. /\ th'[t].pc = "unlink" /\ th'[t].cur = x /\ th'[t].obj = th[t].obj
        /\ th'[t].call = th[t].call /\ th'[t].seen = th[t].seen
    BY <1>t, <2>7 DEF Context
  <2>9. Brings(t)'
    BY <2>3, <2>6, <2>8 DEF Brings
  <2>10. \A o \in Objects : t \in Renamers(o) => t \in Renamers(o)'
    BY <2>8 DEF Renamers
  <2>11. ~Past(t)'
    BY <2>8 DEF Past
  <2> QED BY <2>3, <2>9, <2>10, <2>11 DEF Keeps
<1> QED BY <1>1, <1>2, <1>3, <1>4, <1>5, <1>6
\* The steps below the table and behind it.
LEMMA CallKeeps ==
  ASSUME TypeInv, NEW t \in Threads,
         \/ AddConvertRecord(t) \/ Append(t) \/ Free(t)
         \/ LowerCreate(t) \/ LowerRename(t) \/ LowerOther(t)
  PROVE  Keeps(t)
<1>i. ThreadType /\ FileType
  BY DEF TypeInv, FileInv
<1>t. th[t] \in Context /\ Sound(th[t])
  BY <1>i DEF ThreadType
<1>o. th[t].pc \notin ClearLabels \cup {"idle"} => th[t].obj \in Objects
  BY <1>t DEF Sound
<1>1. CASE AddConvertRecord(t)
  <2>0. th[t].pc = "record" /\ UNCHANGED file
    BY <1>1, Zenon DEF AddConvertRecord
  <2>1. PICK m, i :
           \/ Goto(t, "free") /\ UNCHANGED <<corrupt, live, record>>
           \/ NoRecord(t, m, i) \/ OldRecord(t, m, i)
           \/ \E r \in Records \ live : NewRecord(t, m, i, r)
    BY <1>1, RecordCases
  <2>2. /\ th'[t].pc \in {"record", "append", "free"} /\ th'[t].obj = th[t].obj
        /\ th'[t].call = th[t].call /\ th'[t].done = th[t].done
    <3>1. CASE Goto(t, "free")
      BY <1>i, <3>1, GotoFields
    <3>2. CASE NoRecord(t, m, i)
      BY <2>0, <3>2 DEF NoRecord
    <3>3. CASE OldRecord(t, m, i)
      BY <1>i, <3>3, GotoFields DEF OldRecord
    <3>4. ASSUME NEW r \in Records \ live, NewRecord(t, m, i, r)
          PROVE  /\ th'[t].pc = "append" /\ th'[t].obj = th[t].obj
                 /\ th'[t].call = th[t].call /\ th'[t].done = th[t].done
      <4>1. th'[t] = [th[t] EXCEPT !.pc = "append", !.new = r, !.prev = IF i = 0 THEN Nil ELSE Queue[i-1]]
        BY <1>i, <3>4, SetIs DEF NewRecord
      <4> QED BY <1>t, <4>1 DEF Context
    <3> QED BY <2>1, <3>1, <3>2, <3>3, <3>4
  <2> QED BY <2>0, <2>2, GoesOn DEF Past
<1>2. CASE Append(t)
  <2>0. th[t].pc = "append" /\ UNCHANGED file
    BY <1>2 DEF Append
  <2>1. th'[t] = [th[t] EXCEPT !.pc = "free", !.new = Nil, !.prev = Nil]
    BY <1>i, <1>2, SetIs DEF Append
  <2>2. /\ th'[t].pc = "free" /\ th'[t].obj = th[t].obj
        /\ th'[t].call = th[t].call /\ th'[t].done = th[t].done
    BY <1>t, <2>1 DEF Context
  <2> QED BY <2>0, <2>2, GoesOn DEF Past
<1>3. CASE Free(t)
  <2>0. th[t].pc = "free" /\ AfterFree(t)
    BY <1>3 DEF Free
  <2>1. CASE th[t].done
    <3>0. Set(t, Idle)
      BY <2>0, <2>1 DEF AfterFree
    <3>1. th'[t].pc = "idle"
      BY <1>i, <3>0, SetPlain
    <3>2. \A o \in Objects : file'[o].state = "free" => file[o].state = "free" \/ (Past(t) /\ o = th[t].obj)
      BY <1>i, <2>0, <2>1 DEF AfterFree, FileType, Past
    <3>3. \A o \in Objects : t \notin Renamers(o)
      BY <2>0 DEF Renamers
    <3> QED BY <3>1, <3>2, <3>3 DEF Keeps, Brings, Past
  <2>2. CASE ~th[t].done
    <3>1. Set(t, [th[t] EXCEPT !.cur = Nil, !.prev = Nil, !.pc = "lower"]) /\ UNCHANGED file
      BY <2>0, <2>2 DEF AfterFree
    <3>2. th'[t] = [th[t] EXCEPT !.cur = Nil, !.prev = Nil, !.pc = "lower"]
      BY <1>i, <3>1, SetIs
    <3>3. /\ th'[t].pc = "lower" /\ th'[t].obj = th[t].obj
          /\ th'[t].call = th[t].call /\ th'[t].done = th[t].done
      BY <1>t, <3>2 DEF Context
    <3> QED BY <2>0, <3>1, <3>3, GoesOn DEF Past
  <2> QED BY <2>1, <2>2
<1>4. CASE LowerCreate(t)
  <2>0. th[t].pc = "lower" /\ th[t].call = "create"
    BY <1>4 DEF LowerCreate
  <2>1. CASE Set(t, Idle) /\ file' = [file EXCEPT ![th[t].obj].state = "open"]
    <3>1. th'[t].pc = "idle"
      BY <1>i, <2>1, SetPlain
    <3>2. \A o \in Objects : file'[o].state = "free" => file[o].state = "free"
      BY <1>i, <2>1 DEF FileType
    <3>3. \A o \in Objects : t \notin Renamers(o)
      BY <2>0 DEF Renamers
    <3> QED BY <3>1, <3>2, <3>3 DEF Keeps, Brings, Past
  <2>2. CASE Set(t, [th[t] EXCEPT !.pc = "find", !.done = TRUE]) /\ UNCHANGED file
    <3>1. th'[t] = [th[t] EXCEPT !.pc = "find", !.done = TRUE]
      BY <1>i, <2>2, SetIs
    <3>2. th'[t].pc = "find" /\ th'[t].obj = th[t].obj /\ th'[t].call = th[t].call
      BY <1>t, <3>1 DEF Context
    <3> QED BY <2>0, <2>2, <3>2, GoesOn DEF Past
  <2> QED BY <1>4, <2>1, <2>2 DEF LowerCreate
<1>5. CASE LowerRename(t)
  <2>0. th[t].pc = "lower" /\ th[t].call = "rename"
    BY <1>5 DEF LowerRename
  <2>1. th'[t] = [th[t] EXCEPT !.pc = "find", !.done = TRUE]
    BY <1>i, <1>5, SetIs DEF LowerRename
  <2>2. /\ th'[t].pc = "find" /\ th'[t].obj = th[t].obj /\ th'[t].call = th[t].call
        /\ th'[t].seen = th[t].seen
    BY <1>t, <2>1 DEF Context
  <2>3. \A o \in Objects : file'[o].state = file[o].state
    <3>1. CASE UNCHANGED file
      BY <3>1
    <3>2. ASSUME NEW n,
                 file' = [p \in Objects |-> IF file[p].name = n THEN [file[p] EXCEPT !.name = th[t].to] ELSE file[p]]
          PROVE  \A o \in Objects : file'[o].state = file[o].state
      BY <1>i, <3>2 DEF FileType
    <3> QED BY <1>5, <3>1, <3>2 DEF LowerRename
  <2>4. \A o \in Objects : t \in Renamers(o) => t \in Renamers(o)'
    BY <2>2 DEF Renamers
  <2> QED BY <2>2, <2>3, <2>4 DEF Keeps, Brings, Past
<1>6. CASE LowerOther(t)
  <2>0. /\ th[t].pc = "lower" /\ th[t].call \in {"write", "cleanup", "close"} /\ Set(t, Idle)
        /\ file' = IF th[t].call = "close" THEN [file EXCEPT ![th[t].obj] = NoFile] ELSE file
    BY <1>6 DEF LowerOther
  <2>1. th'[t].pc = "idle"
    BY <1>i, <2>0, SetPlain
  <2>2. \A o \in Objects : file'[o].state = "free" => file[o].state = "free" \/ (Past(t) /\ o = th[t].obj)
    BY <1>i, <2>0 DEF FileType, Past
  <2>3. \A o \in Objects : t \notin Renamers(o)
    BY <2>0 DEF Renamers
  <2> QED BY <2>1, <2>2, <2>3 DEF Keeps, Brings, Past
<1> QED BY <1>1, <1>2, <1>3, <1>4, <1>5, <1>6

\* IOCTL_YGFSMON_CLEAR_STATE_NT.
LEMMA ClearKeeps ==
  ASSUME TypeInv, NEW t \in Threads,
         \/ ClearState(t) \/ CleanupHash(t) \/ CleanupCell(t) \/ CleanupTable(t)
         \/ CleanupStore(t) \/ CleanupRecord(t)
  PROVE  Keeps(t)
<1>i. ThreadType
  BY DEF TypeInv
<1>t. th[t] \in Context /\ Sound(th[t])
  BY <1>i DEF ThreadType
<1>c. ASSUME NEW l \in ClearLabels, NEW m \in ClearLabels, th[t].pc = l, th'[t].pc = m, UNCHANGED file
      PROVE  Keeps(t)
  <2>1. \A o \in Objects : t \notin Renamers(o)
    BY <1>c DEF Renamers, ClearLabels
  <2> QED BY <1>c, <2>1 DEF Keeps, Brings, Past, ClearLabels
<1>1. CASE ClearState(t)
  <2>1. th'[t] = [Idle EXCEPT !.pc = "clear", !.call = "clear"]
    BY <1>i, <1>1, SetIs DEF ClearState
  <2>2. th'[t].pc = "clear" /\ th'[t].call = "clear" /\ th[t].pc = "idle" /\ UNCHANGED file
    BY <1>1, <2>1 DEF Idle, ClearState
  <2> QED BY <1>i, <2>2, AtRest DEF ClearLabels
<1>2. CASE CleanupHash(t)
  <2>1. PICK l \in {"clearall", "clearcell"} : Set(t, [th[t] EXCEPT !.cur = head, !.pc = l])
    BY <1>2 DEF CleanupHash
  <2>2. th'[t] = [th[t] EXCEPT !.cur = head, !.pc = l]
    BY <1>i, <2>1, SetIs
  <2>3. th'[t].pc = l
    BY <1>t, <2>2 DEF Context
  <2> QED BY <1>2, <1>c, <2>3 DEF CleanupHash, ClearLabels
<1>3. CASE CleanupCell(t) \/ CleanupRecord(t)
  <2>1. PICK l \in {"clear", "clearstore"} : Set(t, [th[t] EXCEPT !.cur = Nil, !.pc = l])
    BY <1>3 DEF CleanupCell, CleanupRecord
  <2>2. th'[t] = [th[t] EXCEPT !.cur = Nil, !.pc = l]
    BY <1>i, <2>1, SetIs
  <2>3. th'[t].pc = l
    BY <1>t, <2>2 DEF Context
  <2> QED BY <1>3, <1>c, <2>3 DEF CleanupCell, CleanupRecord, ClearLabels
<1>4. CASE CleanupTable(t)
  <2>1. th'[t].pc = "clearstore"
    BY <1>i, <1>4, SetPlain DEF CleanupTable
  <2> QED BY <1>4, <1>c, <2>1 DEF CleanupTable, ClearLabels
<1>5. CASE CleanupStore(t)
  <2>1. CASE Set(t, Idle)
    <3>1. th'[t].pc = "idle" /\ th[t].pc = "clearstore" /\ UNCHANGED file
      BY <1>i, <1>5, <2>1, SetPlain DEF CleanupStore
    <3> QED BY <1>i, <3>1, AtRest DEF ClearLabels
  <2>2. CASE Set(t, [th[t] EXCEPT !.cur = first, !.pc = "clearrecord"])
    <3>1. th'[t] = [th[t] EXCEPT !.cur = first, !.pc = "clearrecord"]
      BY <1>i, <2>2, SetIs
    <3>2. th'[t].pc = "clearrecord"
      BY <1>t, <3>1 DEF Context
    <3> QED BY <1>5, <1>c, <3>2 DEF CleanupStore, ClearLabels
  <2> QED BY <1>5, <2>1, <2>2 DEF CleanupStore
<1> QED BY <1>1, <1>2, <1>3, <1>4, <1>5

LEMMA ThreadKeeps ==
  ASSUME TypeInv, HashInv, ObjInv, NEW t \in Threads, Thread(t), ~Unlink(t), ~Misses(t)
  PROVE  Keeps(t)
BY BeginKeeps, NamesKeeps, CallKeeps, ClearKeeps DEF Thread
\* An entry is of the same object as long as it is allocated.
SameObjects == \A c \in Cells : c \in live /\ c \in live' => cell'[c].obj = cell[c].obj

LEMMA CellObj ==
  ASSUME TypeInv, NEW t \in Threads, Thread(t)
  PROVE  SameObjects
<1>i. ThreadType /\ ListType
  BY DEF TypeInv
<1>t. th[t] \in Context /\ Sound(th[t])
  BY <1>i DEF ThreadType
<1>u. UNCHANGED cell => SameObjects
  BY DEF SameObjects
<1>l. ASSUME NEW n, NEW type, NEW l, Log(t, n, type, l) PROVE SameObjects
  <2>1. \/ UNCHANGED cell
        \/ \E c \in Cells \ live : Logged(t, c, n, type)
    BY <1>l, Zenon DEF Log, Logged, lists
  <2>2. ASSUME NEW c \in Cells \ live, Logged(t, c, n, type) PROVE SameObjects
    BY <1>i, <2>2 DEF Logged, ListType, SameObjects
  <2> QED BY <1>u, <2>1, <2>2
<1>f. ASSUME NEW from, SetWriteFlag(t, from) PROVE SameObjects
  BY <1>i, <1>f, FlagNext DEF SameObjects
<1>n. ASSUME NEW x \in Cells, NEW y, cell' = [cell EXCEPT ![x].next = y] PROVE SameObjects
  BY <1>i, <1>n DEF ListType, SameObjects
<1>r. ASSUME NEW x \in Cells, NEW y, cell' = [cell EXCEPT ![x] = y], x \notin live' PROVE SameObjects
  BY <1>i, <1>r DEF ListType, SameObjects
<1>1. ASSUME NEW call \in Calls, NEW o \in Objects, NEW to \in Names \cup {Nil}, NEW excl \in BOOLEAN,
             Begin(t, call, o, to, excl)
      PROVE  SameObjects
  BY <1>1, <1>u DEF Begin, lists
<1>2. CASE GetFullPath(t) \/ ParseReName(t)
  <2>1. UNCHANGED cell \/ \E n, type, l : Log(t, n, type, l)
    BY <1>2, Zenon DEF GetFullPath, ParseReName, lists
  <2> QED BY <1>u, <1>l, <2>1
<1>3. CASE LogHash(t)
  <2>1. th[t].cur \in Cells
    BY <1>3, <1>t DEF LogHash, Sound, CellLabels
  <2> QED BY <1>3, <1>n, <2>1 DEF LogHash
<1>4. CASE Push(t) \/ Find(t) \/ Append(t)
  BY <1>4, <1>u DEF Push, Find, Append, lists
<1>5. CASE AddConvertRecord(t)
  BY <1>5, <1>u, Zenon DEF AddConvertRecord
<1>6. CASE MarkWritten(t)
  BY <1>6, <1>f DEF MarkWritten
<1>7. CASE Unlink(t)
  <2>1. th[t].prev \in Cells \cup {Nil}
    BY <1>7, <1>t DEF Unlink, Sound
  <2> QED BY <1>7, <1>u, <1>n, <2>1 DEF Unlink
<1>8. CASE Free(t) \/ CleanupCell(t)
  <2>1. th[t].cur \in Cells
    BY <1>8, <1>t DEF Free, CleanupCell, Sound, CellLabels
  <2> QED BY <1>8, <1>r, <2>1 DEF Free, CleanupCell
<1>9. CASE LowerCreate(t) \/ LowerOther(t) \/ ClearState(t) \/ CleanupHash(t) \/ CleanupTable(t)
           \/ CleanupStore(t) \/ CleanupRecord(t)
  BY <1>9, <1>u DEF LowerCreate, LowerOther, ClearState, CleanupHash, CleanupTable, CleanupStore,
     CleanupRecord, lists
<1>10. CASE LowerRename(t)
  BY <1>10, <1>f, <1>u DEF LowerRename
<1> QED BY <1>1, <1>2, <1>3, <1>4, <1>5, <1>6, <1>7, <1>8, <1>9, <1>10 DEF Thread

\* Entries are allocated, and so are those that a thread has in hand.
LEMMA InHand ==
  ASSUME ThreadType, HashInv
  PROVE  /\ InChain \subseteq Cells \cap live
         /\ \A u \in Threads : th[u].pc \in {"log", "push", "unlink"} => th[u].cur \in Cells /\ th[u].cur \in live
         /\ \A u \in Threads : th[u].pc = "unlink" => th[u].cur \in InChain
<1>1. PICK n, s : Place(n, s)
  BY DEF HashInv
<1>2. InChain = {s[i] : i \in 1..n}
  BY <1>1, ChainIs DEF Place
<1>3. \A i \in 1..n : s[i] \in Cells /\ s[i] \in live
  BY <1>1, Entry
<1>4. \A u \in Threads : th[u].pc = "unlink" => \E i \in 1..n : th[u].cur = s[i]
  BY <1>1 DEF Place, Poised
<1>5. \A u \in Threads : th[u].pc \in {"log", "push"} => th[u].cur \in Cells /\ th[u].cur \in live
  BY <1>1, Entry DEF Holding
<1> QED BY <1>2, <1>3, <1>4, <1>5

LEMMA InHandNext ==
  ASSUME HashInv'
  PROVE  /\ InChain' \subseteq Cells \cap live'
         /\ \A u \in Threads : th'[u].pc \in {"log", "push", "unlink"} => th'[u].cur \in live'
<1>1. PICK n, s : Place(n, s)'
  BY DEF HashInv
<1>2. InChain' = {s[i] : i \in 1..n}
  BY <1>1, ChainNext DEF Place
<1>3. \A i \in 1..n : s[i] \in Cells /\ s[i] \in live'
  BY <1>1 DEF Place, Table, IsList
<1>4. \A u \in Threads : th'[u].pc = "unlink" => \E i \in 1..n : th'[u].cur = s[i]
  BY <1>1 DEF Place, Poised
<1>5. \A u \in Threads : th'[u].pc \in {"log", "push"} => th'[u].cur \in live'
  BY <1>1 DEF Place, Owns, Holding
<1> QED BY <1>2, <1>3, <1>4, <1>5

\* The table finds none of an object's entries only if there is none.
LEMMA NoneFound ==
  ASSUME TypeInv, HashInv, NEW o, Lookup(o).cur = Nil
  PROVE  Entries(o) = {}
<1>1. PICK n, s : Place(n, s)
  BY DEF HashInv
<1>2. Found(n, s, o)
  BY <1>1, LookupList DEF Place, TypeInv, ListType
<1>3. \A i \in 1..n : s[i] # Nil
  BY <1>1, Entry DEF TypeInv
<1>4. \A i \in 1..n : cell[s[i]].obj # o
  BY <1>2, <1>3 DEF Found
<1>5. InChain = {s[i] : i \in 1..n}
  BY <1>1, ChainIs DEF Place
<1> QED BY <1>4, <1>5 DEF Entries

LEMMA Fewer ==
  ASSUME NEW A, NEW B, IsFiniteSet(B), A \subseteq B
  PROVE  /\ IsFiniteSet(A) /\ Cardinality(A) \in Nat /\ Cardinality(B) \in Nat
         /\ Cardinality(A) <= Cardinality(B)
BY FS_Subset, FS_CardinalityType

LEMMA OneMore ==
  ASSUME NEW B, IsFiniteSet(B), NEW x
  PROVE  /\ IsFiniteSet(B \cup {x}) /\ Cardinality(B \cup {x}) <= Cardinality(B) + 1
         /\ x \notin B => Cardinality(B \cup {x}) = Cardinality(B) + 1
         /\ IsFiniteSet(B \ {x})
         /\ x \in B => Cardinality(B \ {x}) = Cardinality(B) - 1
<1>1. Cardinality(B) \in Nat
  BY FS_CardinalityType
<1> QED BY <1>1, FS_AddElement, FS_RemoveElement
\* A step of t on the entries of objects; only Push puts one in.
LEMMA EntriesStep ==
  ASSUME TypeInv, HashInv, ObjInv, NEW t \in Threads, Thread(t), ~overlapped'
  PROVE  /\ HashInv'
         /\ \A c \in InChain' : cell'[c].obj \in Objects
         /\ \A o : ~(Push(t) /\ o = th[t].obj) => Entries(o)' \subseteq Entries(o)
         /\ \A o : Push(t) => Entries(o)' \subseteq Entries(o) \cup {th[t].cur}
         /\ \A o : Unlink(t) => Entries(o)' \subseteq Entries(o) \ {th[t].cur}
         /\ \A u \in Threads \ {t} : Brings(u)'
<1>i. ThreadType /\ \A u \in Threads \ {t} : th'[u] = th[u]
  BY ThreadStep DEF TypeInv
<1>t. th[t] \in Context /\ Sound(th[t])
  BY <1>i DEF ThreadType
<1>1. /\ HashInv'
      /\ Push(t) => InChain' \subseteq InChain \cup {th[t].cur}
      /\ Unlink(t) => InChain' \subseteq InChain \ {th[t].cur}
      /\ ~Push(t) => InChain' \subseteq InChain
  BY ThreadHash
<1>2. /\ InChain \subseteq Cells \cap live /\ InChain' \subseteq Cells \cap live'
      /\ \A u \in Threads : th[u].pc \in {"log", "push", "unlink"} => th[u].cur \in Cells /\ th[u].cur \in live
      /\ \A u \in Threads : th'[u].pc \in {"log", "push", "unlink"} => th'[u].cur \in live'
  BY <1>i, <1>1, InHand, InHandNext
<1>3. \A c \in Cells : c \in live /\ c \in live' => cell'[c].obj = cell[c].obj
  BY CellObj DEF SameObjects
<1>4. Push(t) => /\ th[t].cur \in Cells /\ th[t].cur \in live /\ th[t].obj \in Objects
                 /\ cell[th[t].cur].obj = th[t].obj
  <2>1. Push(t) => th[t].pc = "push"
    BY DEF Push
  <2>2. th[t].pc = "push" => th[t].obj \in Objects
    BY <1>t DEF Sound, ClearLabels
  <2>3. Brings(t)
    BY DEF ObjInv
  <2> QED BY <1>2, <2>1, <2>2, <2>3 DEF Brings
<1>5. ASSUME NEW c \in InChain'
      PROVE  /\ cell'[c].obj = cell[c].obj /\ cell[c].obj \in Objects
             /\ c \in InChain \/ (Push(t) /\ c = th[t].cur /\ cell[c].obj = th[t].obj)
  <2>1. c \in InChain \/ (Push(t) /\ c = th[t].cur)
    BY <1>1
  <2>2. c \in Cells /\ c \in live /\ c \in live'
    BY <1>2, <1>4, <2>1
  <2>3. cell[c].obj \in Objects
    BY <1>4, <2>1 DEF ObjInv
  <2> QED BY <1>3, <1>4, <2>1, <2>2, <2>3
<1>6. \A o : ~(Push(t) /\ o = th[t].obj) => Entries(o)' \subseteq Entries(o)
  BY <1>5 DEF Entries
<1>7. \A o : Push(t) => Entries(o)' \subseteq Entries(o) \cup {th[t].cur}
  BY <1>5 DEF Entries
<1>8. \A o : Unlink(t) => Entries(o)' \subseteq Entries(o) \ {th[t].cur}
  <2>1. Unlink(t) => ~Push(t)
    BY DEF Push, Unlink
  <2> QED BY <1>1, <1>5, <2>1 DEF Entries
<1>9. ASSUME NEW u \in Threads \ {t} PROVE Brings(u)'
  <2>1. Brings(u) /\ th'[u] = th[u]
    BY <1>i DEF ObjInv
  <2>2. th[u].pc \in {"log", "push", "unlink"} => cell'[th[u].cur].obj = cell[th[u].cur].obj
    BY <1>2, <1>3, <2>1
  <2> QED BY <2>1, <2>2 DEF Brings
<1> QED BY <1>1, <1>5, <1>6, <1>7, <1>8, <1>9

\* In a close or a create no other thread is at the object.
LEMMA Alone ==
  ASSUME TypeInv, ObjInv, NEW t \in Threads, InCall(t), th[t].call \in {"create", "close"}
  PROVE  /\ Renamers(th[t].obj) = {}
         /\ \A u \in Threads \ {t} : InCall(u) => th[u].obj # th[t].obj
<1>1. \A u \in Threads \ {t} : InCall(u) => th[u].obj # th[t].obj
  BY DEF TypeInv, FileInv
<1>2. \A u \in Threads : u \in Renamers(th[t].obj) => u # t /\ InCall(u) /\ th[u].obj = th[t].obj
  BY DEF Renamers, InCall
<1> QED BY <1>1, <1>2 DEF Renamers

\* Neither does it leave an entry of its object.
LEMMA LastOut ==
  ASSUME TypeInv, HashInv, ObjInv, NEW t \in Threads, Unlink(t), ~overlapped', Thread(t),
         th[t].call \in {"create", "close"}
  PROVE  \A o : o = th[t].obj => Entries(o)' = {}
<1>i. ThreadType
  BY DEF TypeInv
<1>1. th[t].pc = "unlink" /\ InCall(t) /\ th[t].obj \in Objects
  BY <1>i, OnObject DEF Unlink, ClearLabels
<1>2. PICK E, c : E = Entries(th[t].obj) /\ c = th[t].cur
  OBVIOUS
<1>3. c \in InChain /\ cell[c].obj = th[t].obj
  <2>1. Brings(t)
    BY DEF ObjInv
  <2> QED BY <1>i, <1>1, <1>2, <2>1, InHand DEF Brings
<1>4. c \in E
  BY <1>2, <1>3 DEF Entries
<1>5. E \subseteq Cells /\ IsFiniteSet(E) /\ IsFiniteSet(Cells)
  <2>1. InChain \subseteq Cells
    BY <1>i, InHand
  <2>2. E \subseteq Cells
    BY <1>2, <2>1 DEF Entries
  <2> QED BY <2>2, FSMonAssumption, Fewer
<1>6. Cardinality(E) <= 1
  <2>1. Renamers(th[t].obj) = {}
    BY <1>1, Alone
  <2>2. Cardinality(Renamers(th[t].obj)) = 0
    BY <2>1, FS_EmptySet
  <2>3. Cardinality(E) <= 1 + Cardinality(Renamers(th[t].obj))
    BY <1>1, <1>2 DEF ObjInv, Counted
  <2>4. Cardinality(E) \in Nat
    BY <1>5, FS_CardinalityType
  <2> QED BY <2>2, <2>3, <2>4
<1>7. E \ {c} = {}
  <2>1. Cardinality(E \ {c}) = Cardinality(E) - 1 /\ IsFiniteSet(E \ {c})
    BY <1>4, <1>5, OneMore
  <2>2. Cardinality(E \ {c}) \in Nat /\ Cardinality(E) \in Nat
    BY <1>5, <2>1, FS_CardinalityType
  <2>3. Cardinality(E \ {c}) = 0
    BY <1>6, <2>1, <2>2
  <2> QED BY <2>1, <2>3, FS_EmptySet
<1>8. \A o : o = th[t].obj => Entries(o)' \subseteq E \ {c}
  BY <1>2, EntriesStep
<1> QED BY <1>7, <1>8
\* A rename that leaves the table as it found it goes on; others stay where they are.
LEMMA RenamersStep ==
  ASSUME TypeInv, HashInv, ObjInv, NEW t \in Threads, Thread(t), NEW o \in Objects
  PROVE  /\ Renamers(o) \ {t} \subseteq Renamers(o)'
         /\ ~(Unlink(t) \/ Misses(t)) \/ o # th[t].obj => Renamers(o) \subseteq Renamers(o)'
<1>1. \A u \in Threads \ {t} : th'[u] = th[u]
  BY ThreadStep DEF TypeInv
<1>2. Renamers(o) \ {t} \subseteq Renamers(o)'
  BY <1>1 DEF Renamers
<1>3. o # th[t].obj => t \notin Renamers(o)
  BY DEF Renamers
<1>4. ~(Unlink(t) \/ Misses(t)) => (t \in Renamers(o) => t \in Renamers(o)')
  BY ThreadKeeps DEF Keeps
<1> QED BY <1>2, <1>3, <1>4

LEMMA CountStep ==
  ASSUME TypeInv, HashInv, ObjInv, NEW t \in Threads, Thread(t), ~overlapped', ~duplicated',
         NEW o \in Objects
  PROVE  Counted(o)'
<1>i. ThreadType
  BY DEF TypeInv
<1>t. th[t] \in Context
  BY <1>i DEF ThreadType
<1>1. PICK E, F, R, S : E = Entries(o) /\ F = Entries(o)' /\ R = Renamers(o) /\ S = Renamers(o)'
  OBVIOUS
<1>2. IsFiniteSet(E) /\ IsFiniteSet(F) /\ IsFiniteSet(R) /\ IsFiniteSet(S)
  <2>1. InChain \subseteq Cells /\ InChain' \subseteq Cells
    BY <1>i, InHand, InHandNext, EntriesStep
  <2>2. E \subseteq Cells /\ F \subseteq Cells
    BY <1>1, <2>1 DEF Entries
  <2>3. R \subseteq Threads /\ S \subseteq Threads
    BY <1>1 DEF Renamers
  <2> QED BY <2>2, <2>3, FSMonAssumption, Fewer
<1>3. Cardinality(E) \in Nat /\ Cardinality(F) \in Nat /\ Cardinality(R) \in Nat /\ Cardinality(S) \in Nat
  BY <1>2, FS_CardinalityType
<1>4. Cardinality(E) <= 1 + Cardinality(R)
  BY <1>1 DEF ObjInv, Counted
<1>s. SUFFICES Cardinality(F) <= 1 + Cardinality(S)
  BY <1>1 DEF Counted
<1>5. R \ {t} \subseteq S /\ (~(Unlink(t) \/ Misses(t)) \/ o # th[t].obj => R \subseteq S)
  BY <1>1, RenamersStep
<1>6. /\ ~(Push(t) /\ o = th[t].obj) => F \subseteq E
      /\ Push(t) => F \subseteq E \cup {th[t].cur}
      /\ Unlink(t) => F \subseteq E \ {th[t].cur}
  BY <1>1, EntriesStep
<1>7. CASE R \subseteq S /\ F \subseteq E
  BY <1>2, <1>3, <1>4, <1>7, Fewer
<1>8. CASE Push(t) /\ o = th[t].obj
  <2>1. CASE th[t].call = "rename"
    <3>0. th[t].pc = "push"
      BY <1>8 DEF Push
    <3>1. th[t].seen
      BY <2>1, <3>0 DEF ObjInv, Brings
    <3>2. th'[t] = [th[t] EXCEPT !.cur = Nil, !.pc = "lower"]
      <4>1. Set(t, [th[t] EXCEPT !.cur = Nil, !.pc = "lower"])
        BY <1>8, <2>1 DEF Push
      <4> QED BY <1>i, <4>1, SetIs
    <3>3. /\ th'[t].pc = "lower" /\ th'[t].obj = o /\ th'[t].call = "rename" /\ th'[t].seen
      BY <1>t, <1>8, <2>1, <3>1, <3>2 DEF Context
    <3>4. t \in S /\ t \notin R
      BY <1>1, <3>0, <3>3 DEF Renamers
    <3>5. R \cup {t} \subseteq S
      BY <1>5, <3>4
    <3>6. Cardinality(R \cup {t}) = Cardinality(R) + 1 /\ IsFiniteSet(R \cup {t})
      BY <1>2, <3>4, OneMore
    <3>7. Cardinality(R) + 1 <= Cardinality(S)
      BY <1>2, <3>5, <3>6, Fewer
    <3>8. Cardinality(F) <= Cardinality(E) + 1
      <4>1. PICK x : x = th[t].cur
        OBVIOUS
      <4>2. F \subseteq E \cup {x}
        BY <1>6, <1>8, <4>1
      <4>3. IsFiniteSet(E \cup {x}) /\ Cardinality(E \cup {x}) <= Cardinality(E) + 1
        BY <1>2, OneMore
      <4>4. Cardinality(F) <= Cardinality(E \cup {x}) /\ Cardinality(E \cup {x}) \in Nat
        BY <4>2, <4>3, Fewer
      <4> QED BY <1>3, <4>3, <4>4
    <3> QED BY <1>3, <1>4, <3>7, <3>8
  <2>2. CASE th[t].call # "rename"
    <3>1. Lookup(th[t].obj).cur = Nil
      BY <1>8, <2>2 DEF Push
    <3>2. E = {}
      BY <1>1, <1>8, <3>1, NoneFound
    <3>3. PICK x : x = th[t].cur
      OBVIOUS
    <3>4. F \subseteq {x}
      BY <1>6, <1>8, <3>2, <3>3
    <3>5. IsFiniteSet({x}) /\ Cardinality({x}) = 1
      BY FS_Singleton
    <3>6. Cardinality(F) <= 1
      BY <3>4, <3>5, Fewer
    <3> QED BY <1>3, <3>6
  <2> QED BY <2>1, <2>2
<1>9. CASE Misses(t) /\ o = th[t].obj
  <2>1. E = {}
    BY <1>1, <1>9, NoneFound DEF Misses
  <2>2. F = {}
    <3>1. ~Push(t)
      BY <1>9 DEF Misses, Find, Push
    <3> QED BY <1>6, <2>1, <3>1
  <2>3. Cardinality(F) = 0
    BY <2>2, FS_EmptySet
  <2> QED BY <1>3, <2>3
<1>10. CASE Unlink(t) /\ o = th[t].obj
  <2>1. PICK x : x = th[t].cur
    OBVIOUS
  <2>2. x \in E
    <3>1. th[t].pc = "unlink" /\ Brings(t)
      BY <1>10 DEF Unlink, ObjInv
    <3> QED BY <1>i, <1>1, <1>10, <2>1, <3>1, InHand DEF Entries, Brings
  <2>3. F \subseteq E \ {x}
    BY <1>6, <1>10, <2>1
  <2>4. IsFiniteSet(E \ {x}) /\ Cardinality(E \ {x}) = Cardinality(E) - 1
    BY <1>2, <2>2, OneMore
  <2>5. Cardinality(F) <= Cardinality(E) - 1
    BY <2>3, <2>4, Fewer
  <2>6. Cardinality(R) - 1 <= Cardinality(S)
    <3>1. CASE t \in R
      <4>1. IsFiniteSet(R \ {t}) /\ Cardinality(R \ {t}) = Cardinality(R) - 1
        BY <1>2, <3>1, OneMore
      <4>2. Cardinality(R \ {t}) <= Cardinality(S)
        BY <1>2, <1>5, Fewer
      <4> QED BY <4>1, <4>2
    <3>2. CASE t \notin R
      <4>1. R \subseteq S
        BY <1>5, <3>2
      <4>2. Cardinality(R) <= Cardinality(S)
        BY <1>2, <4>1, Fewer
      <4> QED BY <1>3, <4>2
    <3> QED BY <3>1, <3>2
  <2> QED BY <1>3, <1>4, <2>5, <2>6
<1> QED
  <2>1. CASE o = th[t].obj
    <3>1. Push(t) => R \subseteq S
      BY <1>5 DEF Push, Unlink, Misses, Find
    <3> QED BY <1>5, <1>6, <1>7, <1>8, <1>9, <1>10, <2>1
  <2>2. CASE o # th[t].obj
    BY <1>5, <1>6, <1>7, <2>2
  <2> QED BY <2>1, <2>2

\* Nothing is left when an object is closed, and nothing comes to a free one.
LEMMA PastStep ==
  ASSUME TypeInv, HashInv, ObjInv, NEW t \in Threads, Thread(t), ~overlapped'
  PROVE  /\ \A o \in Objects : file'[o].state = "free" => Entries(o)' = {}
         /\ \A u \in Threads : \A o : Past(u)' /\ o = th'[u].obj => Entries(o)' = {}
<1>i. ThreadType /\ FileInv /\ \A u \in Threads \ {t} : th'[u] = th[u]
  BY ThreadStep DEF TypeInv
<1>t. th[t] \in Context
  BY <1>i DEF ThreadType
<1>1. \A o : ~(Push(t) /\ o = th[t].obj) /\ Entries(o) = {} => Entries(o)' = {}
  BY EntriesStep
<1>2. Push(t) => InCall(t) /\ ~Past(t) /\ file[th[t].obj].state # "free"
  <2> SUFFICES ASSUME Push(t) PROVE InCall(t) /\ ~Past(t) /\ file[th[t].obj].state # "free"
    OBVIOUS
  <2>1. th[t].pc = "push"
    BY DEF Push
  <2>2. InCall(t)
    BY <1>i, <2>1, OnObject DEF ClearLabels
  <2>3. ~Past(t)
    BY <2>1 DEF Past
  <2>4. file[th[t].obj].state \in States(th[t].call)
    BY <1>i, <2>2 DEF FileInv
  <2> QED BY <2>2, <2>3, <2>4 DEF States
<1>3. Misses(t) => \A o : o = th[t].obj => Entries(o)' = {}
  <2> SUFFICES ASSUME Misses(t) PROVE \A o : o = th[t].obj => Entries(o)' = {}
    OBVIOUS
  <2>1. Entries(th[t].obj) = {}
    BY NoneFound DEF Misses
  <2>2. ~Push(t)
    BY DEF Misses, Find, Push
  <2> QED BY <1>1, <2>1, <2>2
<1>4. ASSUME NEW o \in Objects, file'[o].state = "free" PROVE Entries(o)' = {}
  <2>1. CASE file[o].state = "free"
    <3>1. Entries(o) = {}
      BY <2>1 DEF ObjInv
    <3> QED BY <1>1, <1>2, <2>1, <3>1
  <2>2. CASE file[o].state # "free" /\ Unlink(t)
    BY <1>4, <2>2 DEF Unlink
  <2>3. CASE file[o].state # "free" /\ Misses(t)
    <3>1. o = th[t].obj
      <4>1. UNCHANGED file \/ file' = [file EXCEPT ![th[t].obj] = NoFile]
        BY <2>3 DEF Misses, Find, AfterFree
      <4>2. file \in [Objects -> [state : {"free", "opening", "open", "cleaned"},
                        name : Names \cup {Nil}, opened : Names \cup {Nil}]]
        BY <1>i DEF FileInv, FileType
      <4> QED BY <1>4, <2>3, <4>1, <4>2
    <3> QED BY <1>3, <2>3, <3>1
  <2>4. CASE file[o].state # "free" /\ ~Unlink(t) /\ ~Misses(t)
    <3>1. Past(t) /\ o = th[t].obj
      BY <1>4, <2>4, ThreadKeeps DEF Keeps
    <3>2. Entries(o) = {}
      BY <3>1 DEF ObjInv
    <3> QED BY <1>1, <1>2, <3>1, <3>2
  <2> QED BY <2>1, <2>2, <2>3, <2>4
<1>5. ASSUME NEW u \in Threads \ {t}, NEW o, Past(u)', o = th'[u].obj PROVE Entries(o)' = {}
  <2>1. Past(u) /\ o = th[u].obj
    BY <1>i, <1>5 DEF Past
  <2>2. Entries(o) = {}
    BY <2>1 DEF ObjInv
  <2>3. InCall(u) /\ th[u].call \in {"create", "close"}
    BY <2>1 DEF Past, InCall
  <2>4. InCall(t) => th[t].obj # o
    BY <2>1, <2>3, Alone
  <2> QED BY <1>1, <1>2, <2>2, <2>4
<1>6. ASSUME NEW o, Past(t)', o = th'[t].obj PROVE Entries(o)' = {}
  <2>1. CASE Unlink(t)
    <3>1. PICK l \in {"record", "free"} : Set(t, [th[t] EXCEPT !.prev = Nil, !.pc = l])
      BY <2>1 DEF Unlink
    <3>2. th'[t] = [th[t] EXCEPT !.prev = Nil, !.pc = l]
      BY <1>i, <3>1, SetIs
    <3>3. th'[t].call = th[t].call /\ th'[t].obj = th[t].obj
      BY <1>t, <3>2 DEF Context
    <3>4. th[t].call \in {"create", "close"} /\ o = th[t].obj
      BY <1>6, <3>3 DEF Past
    <3> QED BY <2>1, <3>4, LastOut
  <2>2. CASE Misses(t)
    <3>1. CASE Set(t, Idle)
      BY <1>i, <1>6, <3>1, SetPlain DEF Past
    <3>2. CASE Set(t, [th[t] EXCEPT !.cur = Nil, !.prev = Nil, !.pc = "lower"])
      <4>1. th'[t] = [th[t] EXCEPT !.cur = Nil, !.prev = Nil, !.pc = "lower"]
        BY <1>i, <3>2, SetIs
      <4>2. th'[t].obj = th[t].obj
        BY <1>t, <4>1 DEF Context
      <4> QED BY <1>3, <1>6, <2>2, <4>2
    <3> QED BY <2>2, <3>1, <3>2 DEF Misses, Find, AfterFree
  <2>3. CASE ~Unlink(t) /\ ~Misses(t)
    <3>1. Past(t) /\ o = th[t].obj
      BY <1>6, <2>3, ThreadKeeps DEF Keeps
    <3>2. Entries(o) = {}
      BY <3>1 DEF ObjInv
    <3> QED BY <1>1, <1>2, <3>1, <3>2
  <2> QED BY <2>1, <2>2, <2>3
<1> QED BY <1>4, <1>5, <1>6
LEMMA ThreadObj ==
  ASSUME TypeInv, HashInv, ObjInv, NEW t \in Threads, Thread(t), ~overlapped', ~duplicated'
  PROVE  ObjInv'
<1>1. \A c \in InChain' : cell'[c].obj \in Objects
  BY EntriesStep
<1>2. \A u \in Threads : Brings(u)'
  <2>1. \A u \in Threads \ {t} : Brings(u)'
    BY EntriesStep
  <2>2. Brings(t)'
    <3>1. CASE Unlink(t) \/ Misses(t)
      <4>1. th'[t].pc \in {"record", "free", "idle", "lower"}
        <5>1. CASE Unlink(t)
          <6>1. PICK l \in {"record", "free"} : Set(t, [th[t] EXCEPT !.prev = Nil, !.pc = l])
            BY <5>1 DEF Unlink
          <6>2. th'[t] = [th[t] EXCEPT !.prev = Nil, !.pc = l]
            BY <6>1, SetIs DEF TypeInv
          <6> QED BY <6>2 DEF TypeInv, ThreadType, Context
        <5>2. CASE Misses(t)
          <6>1. AfterFree(t)
            BY <5>2 DEF Misses, Find
          <6> QED BY <6>1, SetPlain DEF TypeInv
        <5> QED BY <3>1, <5>1, <5>2
      <4> QED BY <4>1 DEF Brings
    <3>2. CASE ~Unlink(t) /\ ~Misses(t)
      BY <3>2, ThreadKeeps DEF Keeps
    <3> QED BY <3>1, <3>2
  <2> QED BY <2>1, <2>2
<1>3. \A o \in Objects : Counted(o)'
  BY CountStep
<1>4. \A o \in Objects : file'[o].state = "free" => Entries(o)' = {}
  BY PastStep
<1>5. ASSUME NEW u \in Threads, Past(u)' PROVE Entries(th[u].obj)' = {}
  <2>1. PICK o : o = th'[u].obj
    OBVIOUS
  <2>2. Entries(o)' = {}
    BY <1>5, <2>1, PastStep
  <2> QED BY <2>1, <2>2 DEF Entries
<1> QED BY <1>1, <1>2, <1>3, <1>4, <1>5 DEF ObjInv

\* Entries, objects and threads stay as they are in the other steps.
LEMMA OtherObj ==
  ASSUME ObjInv, UNCHANGED <<file, head, cell, th>>
  PROVE  ObjInv'
<1>1. InChain' = InChain
  BY DEF InChain, Chain
<1>2. \A o : Entries(o)' = Entries(o) /\ Renamers(o)' = Renamers(o)
  BY <1>1 DEF Entries, Renamers
<1>3. \A u \in Threads : (Brings(u)' <=> Brings(u)) /\ (Past(u)' <=> Past(u))
  BY DEF Brings, Past
<1>4. \A o \in Objects : Counted(o)'
  BY <1>2 DEF ObjInv, Counted
<1>5. \A u \in Threads : Past(u)' => Entries(th[u].obj)' = {}
  <2> SUFFICES ASSUME NEW u \in Threads, Past(u)' PROVE Entries(th[u].obj)' = {}
    OBVIOUS
  <2>1. Entries(th[u].obj) = {}
    BY <1>3 DEF ObjInv
  <2> QED BY <1>1, <2>1 DEF Entries
<1> QED BY <1>1, <1>2, <1>3, <1>4, <1>5 DEF ObjInv

LEMMA DuplicateStays == [Next]_vars /\ duplicated => duplicated'
<1> SUFFICES ASSUME [Next]_vars, duplicated PROVE duplicated'
  OBVIOUS
<1>1. ASSUME NEW t \in Threads, Thread(t) PROVE duplicated'
  <2>1. ASSUME NEW call \in Calls, NEW o \in Objects, NEW to \in Names \cup {Nil}, NEW excl \in BOOLEAN,
               Begin(t, call, o, to, excl)
        PROVE  duplicated'
    BY <2>1 DEF Begin
  <2>2. CASE GetFullPath(t) \/ ParseReName(t) \/ LogHash(t) \/ MarkWritten(t)
    BY <2>2 DEF GetFullPath, ParseReName, LogHash, MarkWritten
  <2>p. CASE Push(t)
    BY <2>p DEF Push
  <2>r. CASE AddConvertRecord(t)
    BY <2>r, Zenon DEF AddConvertRecord
  <2>3. CASE Find(t) \/ Unlink(t) \/ Append(t) \/ Free(t)
    BY <2>3 DEF Find, Unlink, Append, Free
  <2>4. CASE LowerCreate(t) \/ LowerRename(t) \/ LowerOther(t) \/ ClearState(t)
    BY <2>4 DEF LowerCreate, LowerRename, LowerOther, ClearState
  <2>5. CASE CleanupHash(t) \/ CleanupCell(t) \/ CleanupTable(t) \/ CleanupStore(t) \/ CleanupRecord(t)
    BY <2>5 DEF CleanupHash, CleanupCell, CleanupTable, CleanupStore, CleanupRecord
  <2> QED BY <1>1, <2>1, <2>2, <2>p, <2>r, <2>3, <2>4, <2>5 DEF Thread
<1>2. CASE Other
  BY <1>2 DEF Other, StartOrStopWork, AddMonitorItem, GetOldestRecord, Pop, Fetch, Encrypt
<1>3. CASE UNCHANGED vars
  BY <1>3 DEF vars
<1> QED BY <1>1, <1>2, <1>3 DEF Next, Other

TableInv == ~overlapped /\ ~duplicated => ObjInv

LEMMA InitTable == Init => TableInv
<1> SUFFICES ASSUME Init PROVE ObjInv
  BY DEF TableInv
<1>1. TypeInv /\ MemInv /\ ~overlapped
  BY InitType, InitMem DEF Init
<1>2. PICK n, s : Place(n, s)
  BY <1>1 DEF MemInv, HashInv
<1>3. n = 0
  <2>1. head = Nil
    BY DEF Init
  <2>2. n \in Nat /\ (n # 0 => head = s[1] /\ 1 \in 1..n) /\ \A i \in 1..n : s[i] # Nil
    BY <1>1, <1>2, Entry DEF TypeInv, IsList
  <2> QED BY <2>1, <2>2
<1>4. InChain = {}
  BY <1>2, <1>3, ChainIs DEF Place
<1>5. \A o : Entries(o) = {}
  BY <1>4 DEF Entries
<1>6. \A t \in Threads : th[t].pc = "idle"
  BY DEF Init, Idle
<1>7. \A o \in Objects : Counted(o)
  <2> SUFFICES ASSUME NEW o \in Objects PROVE Counted(o)
    OBVIOUS
  <2>1. Renamers(o) \subseteq Threads
    BY DEF Renamers
  <2>2. Cardinality(Renamers(o)) \in Nat
    BY <2>1, FSMonAssumption, Fewer
  <2>3. Cardinality(Entries(o)) = 0
    BY <1>5, FS_EmptySet
  <2> QED BY <2>2, <2>3 DEF Counted
<1> QED BY <1>4, <1>5, <1>6, <1>7 DEF ObjInv, Brings, Past

LEMMA TableStep == TypeInv /\ MemInv /\ TableInv /\ [Next]_vars => TableInv'
<1> SUFFICES ASSUME TypeInv, MemInv, TableInv, [Next]_vars, ~overlapped', ~duplicated' PROVE ObjInv'
  BY DEF TableInv
<1>1. HashInv /\ ObjInv
  BY OverlapStays, DuplicateStays DEF MemInv, TableInv
<1>2. ASSUME NEW t \in Threads, Thread(t) PROVE ObjInv'
  BY <1>1, <1>2, ThreadObj
<1>3. CASE Other
  <2>1. UNCHANGED <<file, head, cell, th>>
    BY <1>3 DEF Other, StartOrStopWork, AddMonitorItem, GetOldestRecord, Pop, Fetch, Encrypt, lists
  <2> QED BY <1>1, <2>1, OtherObj
<1>4. CASE UNCHANGED vars
  BY <1>1, <1>4, OtherObj DEF vars, lists
<1> QED BY <1>2, <1>3, <1>4 DEF Next, Other

\* Unless two threads have named an object at once or a list was written inside
\* another thread's section, the table has no entry of an object whose address is
\* free: whatever is renamed, closed or fails to open, in any number of threads.
THEOREM NoEntryOutlives == Spec => []NoEntryOutlivesItsObject
<1>1. Init => TypeInv /\ MemInv /\ TableInv
  BY InitType, InitMem, InitTable
<1>2. TypeInv /\ MemInv /\ TableInv /\ [Next]_vars => (TypeInv /\ MemInv /\ TableInv)'
  BY TypeStep, MemStep, TableStep
<1>3. TypeInv /\ MemInv /\ TableInv => NoEntryOutlivesItsObject
  <2> SUFFICES ASSUME ObjInv, NEW c \in InChain PROVE file[cell[c].obj].state # "free"
    BY DEF TableInv, NoEntryOutlivesItsObject
  <2>1. cell[c].obj \in Objects /\ c \in Entries(cell[c].obj)
    BY DEF ObjInv, Entries
  <2> QED BY <2>1 DEF ObjInv
<1> QED BY <1>1, <1>2, <1>3, PTL DEF Spec

-----------------------------------------------------------------------------
(* The first entry of an object.                                           *)

\* c is the first node of the list s whose object is o, or Nil if there is none.
FirstOf(n, s, obj, o, c) ==
  \/ c = Nil /\ \A i \in 1..n : obj[s[i]] # o
  \/ \E i \in 1..n : c = s[i] /\ obj[s[i]] = o /\ \A j \in 1..i-1 : obj[s[j]] # o

\* There is one first entry.
LEMMA FirstOnce ==
  ASSUME NEW n \in Nat, NEW s, NEW obj, NEW o, NEW c, NEW d, \A i \in 1..n : s[i] # Nil,
         FirstOf(n, s, obj, o, c), FirstOf(n, s, obj, o, d)
  PROVE  c = d
<1>1. CASE c = Nil /\ \A i \in 1..n : obj[s[i]] # o
  BY <1>1 DEF FirstOf
<1>2. CASE d = Nil /\ \A i \in 1..n : obj[s[i]] # o
  BY <1>2 DEF FirstOf
<1>3. ASSUME NEW i \in 1..n, c = s[i], obj[s[i]] = o, \A j \in 1..i-1 : obj[s[j]] # o,
             NEW k \in 1..n, d = s[k], obj[s[k]] = o, \A j \in 1..k-1 : obj[s[j]] # o
      PROVE  c = d
  <2>1. ~(i < k)
    BY <1>3
  <2>2. ~(k < i)
    BY <1>3
  <2> QED BY <1>3, <2>1, <2>2
<1> QED BY <1>1, <1>2, <1>3 DEF FirstOf

\* Objects of other nodes do not count.
LEMMA FirstKept ==
  ASSUME NEW n \in Nat, NEW s, NEW obj, NEW obj2, NEW o, NEW c,
         \A i \in 1..n : obj2[s[i]] = obj[s[i]], FirstOf(n, s, obj, o, c)
  PROVE  FirstOf(n, s, obj2, o, c)
BY DEF FirstOf

\* A node that is put in front is the first of its object, and of no other one.
LEMMA FirstPushed ==
  ASSUME NEW n \in Nat, NEW s, NEW x, NEW obj, NEW o, NEW c, FirstOf(n, s, obj, o, c)
  PROVE  FirstOf(n + 1, Before(n, s, x), obj, o, IF obj[x] = o THEN x ELSE c)
<1>1. PICK z : z = Before(n, s, x)
  OBVIOUS
<1>2. \A i \in 1..n+1 : z[i] = IF i = 1 THEN x ELSE s[i-1]
  BY <1>1 DEF Before
<1>3. CASE obj[x] = o
  <2>1. 1 \in 1..n+1 /\ z[1] = x /\ \A j \in 1..1-1 : obj[z[j]] # o
    BY <1>2
  <2> QED BY <1>1, <1>3, <2>1 DEF FirstOf
<1>4. CASE obj[x] # o /\ c = Nil /\ \A i \in 1..n : obj[s[i]] # o
  <2>1. ASSUME NEW i \in 1..n+1 PROVE obj[z[i]] # o
    <3>1. i = 1 \/ i - 1 \in 1..n
      OBVIOUS
    <3> QED BY <1>2, <1>4, <3>1
  <2> QED BY <1>1, <1>4, <2>1 DEF FirstOf
<1>5. ASSUME obj[x] # o, NEW i \in 1..n, c = s[i], obj[s[i]] = o, \A j \in 1..i-1 : obj[s[j]] # o
      PROVE  FirstOf(n + 1, z, obj, o, c)
  <2>1. i + 1 \in 1..n+1 /\ z[i+1] = s[i]
    BY <1>2
  <2>2. ASSUME NEW j \in 1..(i+1)-1 PROVE obj[z[j]] # o
    <3>1. j = 1 \/ (j - 1 \in 1..i-1 /\ j \in 1..n+1)
      OBVIOUS
    <3> QED BY <1>2, <1>5, <3>1
  <2> QED BY <1>5, <2>1, <2>2 DEF FirstOf
<1> QED BY <1>1, <1>3, <1>4, <1>5 DEF FirstOf

\* Taking out a node of another object changes nothing.
LEMMA FirstOut ==
  ASSUME NEW n \in Nat, NEW s, NEW k \in 1..n, NEW obj, NEW o, NEW c, obj[s[k]] # o, FirstOf(n, s, obj, o, c)
  PROVE  FirstOf(n - 1, Without(n, s, k), obj, o, c)
<1>1. PICK z : z = Without(n, s, k)
  OBVIOUS
<1>2. \A i \in 1..n-1 : z[i] = IF i < k THEN s[i] ELSE s[i+1]
  BY <1>1 DEF Without
<1>3. CASE c = Nil /\ \A i \in 1..n : obj[s[i]] # o
  <2>1. ASSUME NEW i \in 1..n-1 PROVE obj[z[i]] # o
    <3>1. i \in 1..n /\ i + 1 \in 1..n
      OBVIOUS
    <3> QED BY <1>2, <1>3, <3>1
  <2> QED BY <1>1, <1>3, <2>1 DEF FirstOf
<1>4. ASSUME NEW i \in 1..n, c = s[i], obj[s[i]] = o, \A j \in 1..i-1 : obj[s[j]] # o
      PROVE  FirstOf(n - 1, z, obj, o, c)
  <2>1. i # k
    BY <1>4
  <2>2. CASE i < k
    <3>1. i \in 1..n-1 /\ z[i] = s[i]
      BY <1>2, <2>2
    <3>2. ASSUME NEW j \in 1..i-1 PROVE obj[z[j]] # o
      <4>1. j \in 1..n-1 /\ j < k
        BY <2>2
      <4> QED BY <1>2, <1>4, <4>1
    <3> QED BY <1>4, <3>1, <3>2 DEF FirstOf
  <2>3. CASE k < i
    <3>1. i - 1 \in 1..n-1 /\ z[i-1] = s[i]
      BY <1>2, <2>3
    <3>2. ASSUME NEW j \in 1..(i-1)-1 PROVE obj[z[j]] # o
      <4>1. j \in 1..n-1 /\ j \in 1..i-1 /\ j + 1 \in 1..i-1
        OBVIOUS
      <4> QED BY <1>2, <1>4, <4>1
    <3> QED BY <1>4, <3>1, <3>2 DEF FirstOf
  <2> QED BY <2>1, <2>2, <2>3
<1> QED BY <1>1, <1>3, <1>4 DEF FirstOf

Of == [c \in Cells |-> cell[c].obj]

\* The table finds the first entry of an object.
LEMMA LookupFirst ==
  \A n, s, o : Table(n, s) /\ live \subseteq Cells \cup Records => FirstOf(n, s, Of, o, Lookup(o).cur)
<1> SUFFICES ASSUME NEW n, NEW s, NEW o, Table(n, s), live \subseteq Cells \cup Records
             PROVE  FirstOf(n, s, Of, o, Lookup(o).cur)
  OBVIOUS
<1>1. Found(n, s, o)
  BY LookupList
<1>2. \A i \in 1..n : Of[s[i]] = cell[s[i]].obj
  BY DEF Table, IsList, Of
<1>3. n \in Nat
  BY DEF Table, IsList
<1>4. CASE Lookup(o).cur = Nil /\ \A i \in 1..n : cell[s[i]].obj # o
  BY <1>2, <1>4 DEF FirstOf
<1>5. ASSUME NEW i \in 1..n, Lookup(o).cur = s[i], cell[s[i]].obj = o, \A j \in 1..i-1 : cell[s[j]].obj # o
      PROVE  FirstOf(n, s, Of, o, Lookup(o).cur)
  <2>1. \A j \in 1..i-1 : j \in 1..n
    BY <1>3
  <2> QED BY <1>2, <1>5, <2>1 DEF FirstOf
<1> QED BY <1>1, <1>4, <1>5 DEF Found

LEMMA LookupNext ==
  (\A n, s, o : Table(n, s) /\ live \subseteq Cells \cup Records => FirstOf(n, s, Of, o, Lookup(o).cur))'
BY LookupFirst, PTL

\* What a step does to the list of the table.
LEMMA TableMoves ==
  ASSUME TypeInv, HashInv, NEW t \in Threads, Thread(t), ~overlapped', ~CleanupCell(t)
  PROVE  \E n, s : /\ Place(n, s)
                   /\ \/ Push(t) /\ \E x : x = th[t].cur /\ Table(n + 1, Before(n, s, x))'
                      \/ Unlink(t) /\ \E i \in 1..n : th[t].cur = s[i] /\ Table(n - 1, Without(n, s, i))'
                      \/ ~Push(t) /\ ~Unlink(t) /\ Table(n, s)'
<1>1. PICK n, s : Place(n, s)
  BY DEF HashInv
<1>2. ThreadType /\ ListType /\ \A u \in Threads \ {t} : th'[u] = th[u]
  BY ThreadStep DEF TypeInv
<1>3. CASE Push(t)
  BY <1>1, <1>2, <1>3, HashPush
<1>4. CASE Unlink(t)
  <2>1. PICK i \in 1..n : th[t].cur = s[i] /\ th[t].prev = IF i = 1 THEN Nil ELSE s[i-1]
    BY <1>1, <1>4 DEF Unlink, Place, Poised
  <2>2. Table(n - 1, Without(n, s, i))'
    BY <1>1, <1>2, <1>4, <2>1, HashUnlink
  <2> QED BY <1>1, <1>4, <2>1, <2>2
<1>5. CASE ~Push(t) /\ ~Unlink(t)
  <2>1. Place(n, s)'
    BY <1>1, <1>5, HashKept
  <2> QED BY <1>1, <1>5, <2>1 DEF Place
<1> QED BY <1>3, <1>4, <1>5

\* Only a step that puts in or takes out an entry of an object changes what the
\* table finds of the object.
LEMMA ChainStep ==
  ASSUME TypeInv, HashInv, ObjInv, NEW t \in Threads, Thread(t), ~overlapped', ~CleanupCell(t)
  PROVE  /\ Push(t) => InChain' = InChain \cup {th[t].cur}
         /\ Unlink(t) => InChain' = InChain \ {th[t].cur}
         /\ ~Push(t) /\ ~Unlink(t) => InChain' = InChain
         /\ \A o : o # th[t].obj \/ (~Push(t) /\ ~Unlink(t)) => Lookup(o)'.cur = Lookup(o).cur
         /\ \A o : o = th[t].obj /\ Push(t) => Lookup(o)'.cur = th[t].cur
<1>1. PICK n, s : /\ Place(n, s)
                  /\ \/ Push(t) /\ \E x : x = th[t].cur /\ Table(n + 1, Before(n, s, x))'
                     \/ Unlink(t) /\ \E i \in 1..n : th[t].cur = s[i] /\ Table(n - 1, Without(n, s, i))'
                     \/ ~Push(t) /\ ~Unlink(t) /\ Table(n, s)'
  BY TableMoves
<1>i. ThreadType /\ ListType /\ TypeInv' /\ HashInv'
  <2>1. HashInv'
    BY ThreadHash
  <2>2. ThreadType' /\ ListType' /\ FileInv' /\ dirty' \subseteq Names /\ calls' \in 0..MaxCalls
    BY ThreadStep, ThreadLists, ThreadFiles DEF TypeInv
  <2> QED BY <2>1, <2>2 DEF TypeInv
<1>l. live \subseteq Cells \cup Records /\ live' \subseteq Cells \cup Records
  BY <1>i DEF TypeInv, ListType
<1>p. Push(t) => ~Unlink(t)
  BY DEF Push, Unlink
<1>e. /\ n \in Nat /\ Table(n, s)
      /\ \A i \in 1..n : s[i] \in Cells /\ s[i] \in live /\ s[i] # Nil
      /\ \A i, j \in 1..n : s[i] = s[j] => i = j
  BY <1>i, <1>1, Entry DEF Place
<1>c. InChain = {s[i] : i \in 1..n} /\ InChain' \subseteq Cells \cap live'
  BY <1>i, <1>e, ChainIs, InHandNext
<1>f. \A o : FirstOf(n, s, Of, o, Lookup(o).cur)
  BY <1>e, <1>l, LookupFirst
<1>g. ASSUME NEW n2, NEW s2, Table(n2, s2)' PROVE \A o : FirstOf(n2, s2, Of', o, Lookup(o)'.cur)
  BY <1>g, <1>l, LookupNext
<1>a. PICK a, b : a = Of /\ b = Of'
  OBVIOUS
<1>b. \A d \in Cells : d \in live /\ d \in live' => b[d] = a[d] /\ a[d] = cell[d].obj
  BY <1>a, CellObj DEF SameObjects, Of
<1>2. CASE ~Push(t) /\ ~Unlink(t)
  <2>1. Table(n, s)'
    BY <1>1, <1>2
  <2>2. InChain' = {s[i] : i \in 1..n}
    BY <2>1, ChainNext
  <2>3. \A i \in 1..n : b[s[i]] = a[s[i]]
    BY <1>b, <1>c, <1>e, <2>2
  <2>4. ASSUME NEW o PROVE Lookup(o)'.cur = Lookup(o).cur
    <3>1. FirstOf(n, s, b, o, Lookup(o)'.cur) /\ FirstOf(n, s, a, o, Lookup(o).cur)
      BY <1>a, <1>f, <1>g, <2>1
    <3>2. PICK c, d : c = Lookup(o).cur /\ d = Lookup(o)'.cur
      OBVIOUS
    <3>3. FirstOf(n, s, b, o, c)
      BY <1>e, <2>3, <3>1, <3>2, FirstKept
    <3>4. FirstOf(n, s, b, o, d)
      BY <3>1, <3>2
    <3>5. c = d
      BY <1>e, <3>3, <3>4, FirstOnce
    <3> QED BY <3>2, <3>5
  <2> QED BY <1>2, <1>c, <2>2, <2>4
<1>3. CASE Push(t)
  <2>1. PICK x : x = th[t].cur /\ Table(n + 1, Before(n, s, x))'
    BY <1>1, <1>3, <1>p
  <2>2. PICK z : z = Before(n, s, x)
    OBVIOUS
  <2>3. \A i \in 1..n+1 : z[i] = IF i = 1 THEN x ELSE s[i-1]
    BY <2>2 DEF Before
  <2>4. InChain' = {z[i] : i \in 1..n+1}
    BY <2>1, <2>2, ChainNext, <1>e
  <2>5. InChain' = InChain \cup {x}
    <3>1. ASSUME NEW y \in InChain PROVE y \in InChain'
      <4>1. PICK i \in 1..n : y = s[i]
        BY <1>c, <3>1
      <4>2. i + 1 \in 1..n+1 /\ z[i+1] = s[i]
        BY <1>e, <2>3
      <4> QED BY <2>4, <4>1, <4>2
    <3>2. x \in InChain'
      <4>1. 1 \in 1..n+1 /\ z[1] = x
        BY <1>e, <2>3
      <4> QED BY <2>4, <4>1
    <3>3. InChain' \subseteq InChain \cup {x}
      BY <1>3, <2>1, ThreadHash
    <3> QED BY <3>1, <3>2, <3>3
  <2>6. x \in Cells /\ x \in live /\ cell[x].obj = th[t].obj
    <3>1. th[t].pc = "push" /\ Brings(t)
      BY <1>3 DEF Push, ObjInv
    <3> QED BY <1>i, <2>1, <3>1, InHand DEF Brings
  <2>7. b[x] = th[t].obj /\ \A i \in 1..n : b[s[i]] = a[s[i]]
    BY <1>b, <1>c, <1>e, <2>5, <2>6
  <2>8. ASSUME NEW o PROVE Lookup(o)'.cur = IF o = th[t].obj THEN x ELSE Lookup(o).cur
    <3>1. FirstOf(n + 1, z, b, o, Lookup(o)'.cur) /\ FirstOf(n, s, a, o, Lookup(o).cur)
      BY <1>a, <1>f, <1>g, <2>1, <2>2
    <3>2. PICK c, d : c = Lookup(o).cur /\ d = Lookup(o)'.cur
      OBVIOUS
    <3>3. FirstOf(n, s, b, o, c)
      BY <1>e, <2>7, <3>1, <3>2, FirstKept
    <3>4. FirstOf(n + 1, z, b, o, IF b[x] = o THEN x ELSE c)
      BY <1>e, <2>2, <3>3, FirstPushed
    <3>5. FirstOf(n + 1, z, b, o, d)
      BY <3>1, <3>2
    <3>6. n + 1 \in Nat /\ \A i \in 1..n+1 : z[i] # Nil
      BY <1>e, <1>i, <2>4, <1>c, FSMonAssumption
    <3>7. d = IF b[x] = o THEN x ELSE c
      BY <3>4, <3>5, <3>6, FirstOnce
    <3> QED BY <2>7, <3>2, <3>7
  <2> QED BY <1>3, <1>p, <2>1, <2>5, <2>8
<1>4. CASE Unlink(t)
  <2>1. PICK k \in 1..n : th[t].cur = s[k] /\ Table(n - 1, Without(n, s, k))'
    BY <1>1, <1>4, <1>p
  <2>2. PICK z : z = Without(n, s, k)
    OBVIOUS
  <2>3. \A i \in 1..n-1 : z[i] = IF i < k THEN s[i] ELSE s[i+1]
    BY <2>2 DEF Without
  <2>4. InChain' = {z[i] : i \in 1..n-1}
    BY <2>1, <2>2, ChainNext
  <2>5. InChain' = InChain \ {s[k]}
    <3>1. ASSUME NEW y \in InChain \ {s[k]} PROVE y \in InChain'
      <4>1. PICK i \in 1..n : y = s[i] /\ i # k
        BY <1>c, <3>1
      <4>2. CASE i < k
        <5>1. i \in 1..n-1 /\ z[i] = s[i]
          BY <1>e, <2>3, <4>2
        <5> QED BY <2>4, <4>1, <5>1
      <4>3. CASE k < i
        <5>1. i - 1 \in 1..n-1 /\ z[i-1] = s[i]
          BY <1>e, <2>3, <4>3
        <5> QED BY <2>4, <4>1, <5>1
      <4> QED BY <1>e, <4>1, <4>2, <4>3
    <3>3. InChain' \subseteq InChain \ {s[k]}
      BY <1>4, <2>1, ThreadHash
    <3> QED BY <3>1, <3>3
  <2>6. cell[s[k]].obj = th[t].obj
    <3>1. th[t].pc = "unlink" /\ Brings(t)
      BY <1>4 DEF Unlink, ObjInv
    <3> QED BY <2>1, <3>1 DEF Brings
  <2>7. live' = live
    BY <1>4 DEF Unlink
  <2>8. \A i \in 1..n : b[s[i]] = a[s[i]] /\ a[s[k]] = th[t].obj
    BY <1>b, <1>e, <2>6, <2>7
  <2>9. ASSUME NEW o, o # th[t].obj PROVE Lookup(o)'.cur = Lookup(o).cur
    <3>1. FirstOf(n - 1, z, b, o, Lookup(o)'.cur) /\ FirstOf(n, s, a, o, Lookup(o).cur)
      BY <1>a, <1>f, <1>g, <2>1, <2>2
    <3>2. PICK c, d : c = Lookup(o).cur /\ d = Lookup(o)'.cur
      OBVIOUS
    <3>3. FirstOf(n, s, b, o, c) /\ b[s[k]] # o
      BY <1>e, <2>8, <2>9, <3>1, <3>2, FirstKept
    <3>4. FirstOf(n - 1, z, b, o, c)
      BY <1>e, <2>2, <3>3, FirstOut
    <3>5. FirstOf(n - 1, z, b, o, d)
      BY <3>1, <3>2
    <3>6. n - 1 \in Nat /\ \A i \in 1..n-1 : z[i] # Nil
      BY <1>e, <2>4, <1>c, FSMonAssumption
    <3>7. d = c
      BY <3>4, <3>5, <3>6, FirstOnce
    <3> QED BY <3>2, <3>7
  <2> QED BY <1>4, <1>p, <2>1, <2>5, <2>9
<1> QED BY <1>2, <1>3, <1>4

-----------------------------------------------------------------------------
(* Where the steps of a call take a thread.                                *)

\* The thread stays in its call.
Same(t) == th'[t].call = th[t].call /\ th'[t].obj = th[t].obj /\ th'[t].to = th[t].to

LEMMA SameCall ==
  ASSUME ThreadType, NEW t \in Threads
  PROVE  /\ \A l : Goto(t, l) =>
              Same(t) /\ th'[t].pc = l /\ th'[t].seen = th[t].seen /\ th'[t].done = th[t].done /\ th'[t].cur = th[t].cur
         /\ \A l : Pass(t, l) => th'[t].pc = l /\ (l # "idle" => Same(t) /\ th'[t].seen = FALSE)
         /\ AfterFree(t) => IF th[t].done THEN th'[t].pc = "idle"
                            ELSE Same(t) /\ th'[t].pc = "lower" /\ th'[t].seen = th[t].seen
<1>t. th[t] \in Context
  BY DEF ThreadType
<1>1. ASSUME NEW l, Goto(t, l)
      PROVE  Same(t) /\ th'[t].pc = l /\ th'[t].seen = th[t].seen /\ th'[t].done = th[t].done /\ th'[t].cur = th[t].cur
  <2>1. th'[t] = [th[t] EXCEPT !.pc = l]
    BY <1>1, SetIs DEF Goto
  <2> QED BY <1>t, <2>1 DEF Context, Same
<1>2. ASSUME NEW l, Pass(t, l), l # "idle" PROVE Same(t) /\ th'[t].seen = FALSE
  <2>1. Set(t, [th[t] EXCEPT !.pc = l, !.seen = FALSE])
    BY <1>2 DEF Pass
  <2>2. th'[t] = [th[t] EXCEPT !.pc = l, !.seen = FALSE]
    BY <2>1, SetIs
  <2> QED BY <1>t, <2>2 DEF Context, Same
<1>3. ASSUME AfterFree(t), ~th[t].done PROVE Same(t) /\ th'[t].pc = "lower" /\ th'[t].seen = th[t].seen
  <2>1. Set(t, [th[t] EXCEPT !.cur = Nil, !.prev = Nil, !.pc = "lower"])
    BY <1>3 DEF AfterFree
  <2>2. th'[t] = [th[t] EXCEPT !.cur = Nil, !.prev = Nil, !.pc = "lower"]
    BY <2>1, SetIs
  <2> QED BY <1>t, <2>2 DEF Context, Same
<1>4. AfterFree(t) /\ th[t].done => th'[t].pc = "idle"
  BY SetPlain DEF AfterFree
<1> QED BY <1>1, <1>2, <1>3, <1>4, SetPlain

\* An entry is logged, or the call goes to l without one.
LEMMA LogFields ==
  ASSUME ThreadType, ListType, NEW t \in Threads, NEW n, NEW type, NEW l, Log(t, n, type, l)
  PROVE  \/ /\ th'[t].pc = l /\ (l # "idle" => Same(t) /\ th'[t].seen = FALSE)
            /\ UNCHANGED lists
            /\ \/ excused' = excused \cup {n}
               \/ excused' = excused /\ ~Monitored(n)
         \/ \E c \in Cells \ live :
              /\ th'[t].pc = "log" /\ Same(t) /\ th'[t].cur = c /\ th'[t].seen = th[t].seen
              /\ live' = live \cup {c} /\ excused' = excused /\ UNCHANGED <<head, first, record>>
              /\ cell' = [cell EXCEPT ![c] = [next |-> Nil, obj |-> th[t].obj, name |-> n, type |-> type]]
<1>t. th[t] \in Context
  BY DEF ThreadType
<1>1. CASE Pass(t, l) /\ Excuse({n}) /\ UNCHANGED lists
  BY <1>1, SameCall DEF Excuse
<1>2. CASE Pass(t, l) /\ ~Monitored(n) /\ UNCHANGED <<lists, excused>>
  BY <1>2, SameCall
<1>3. ASSUME NEW c \in Cells \ live, live' = live \cup {c}, UNCHANGED <<excused, head, first, record>>,
             cell' = [cell EXCEPT ![c] = [next |-> Nil, obj |-> th[t].obj, name |-> n, type |-> type]],
             Set(t, [th[t] EXCEPT !.pc = "log", !.cur = c])
      PROVE  /\ th'[t].pc = "log" /\ Same(t) /\ th'[t].cur = c /\ th'[t].seen = th[t].seen
             /\ live' = live \cup {c} /\ excused' = excused
  <2>1. th'[t] = [th[t] EXCEPT !.pc = "log", !.cur = c]
    BY <1>3, SetIs
  <2> QED BY <1>t, <1>3, <2>1 DEF Context, Same
<1>4. CASE /\ UNCHANGED <<excused, head, first, record>>
           /\ \E c \in Cells \ live :
                 /\ live' = live \cup {c}
                 /\ cell' = [cell EXCEPT ![c] = [next |-> Nil, obj |-> th[t].obj, name |-> n, type |-> type]]
                 /\ Set(t, [th[t] EXCEPT !.pc = "log", !.cur = c])
  <2>1. PICK c \in Cells \ live :
                 /\ live' = live \cup {c}
                 /\ cell' = [cell EXCEPT ![c] = [next |-> Nil, obj |-> th[t].obj, name |-> n, type |-> type]]
                 /\ Set(t, [th[t] EXCEPT !.pc = "log", !.cur = c])
    BY <1>4
  <2>2. /\ th'[t].pc = "log" /\ Same(t) /\ th'[t].cur = c /\ th'[t].seen = th[t].seen
        /\ live' = live \cup {c} /\ excused' = excused
    BY <1>3, <1>4, <2>1
  <2> QED BY <1>4, <2>1, <2>2
<1> QED BY <1>1, <1>2, <1>4 DEF Log

\* A call that looks its object up.
LEMMA LookupFields ==
  ASSUME TypeInv, HashInv, NEW t \in Threads, GetFullPath(t)
  PROVE  /\ th[t].pc = "lookup" /\ InCall(t) /\ UNCHANGED <<file, dirty, settings>>
         /\ th[t].call \in {"create", "write", "fastwrite", "cleanup", "close"}
         /\ \/ /\ Lookup(th[t].obj).cur # Nil /\ UNCHANGED <<lists, excused>>
               /\ th'[t].pc = Named(th[t].call) /\ Same(t) /\ th'[t].seen = th[t].seen
            \/ /\ th'[t].pc = Unnamed(th[t].call) /\ UNCHANGED lists
               /\ th'[t].pc # "idle" => Same(t) /\ th'[t].seen = FALSE
               /\ \/ excused' = excused \cup {file[th[t].obj].opened}
                  \/ excused' = excused /\ ~Monitored(file[th[t].obj].opened)
            \/ \E c \in Cells \ live :
                 /\ th'[t].pc = "log" /\ Same(t) /\ th'[t].cur = c /\ th'[t].seen = th[t].seen
                 /\ live' = live \cup {c} /\ excused' = excused /\ UNCHANGED <<head, first, record>>
                 /\ cell' = [cell EXCEPT ![c] =
                      [next |-> Nil, obj |-> th[t].obj, name |-> file[th[t].obj].opened, type |-> "NORMAL"]]
<1>i. ThreadType /\ ListType /\ th[t].pc = "lookup" /\ UNCHANGED <<file, dirty, settings>>
  BY DEF TypeInv, GetFullPath
<1>1. InCall(t) /\ th[t].call \in {"create", "write", "fastwrite", "cleanup", "close"}
  BY <1>i DEF ThreadType, Sound, Context, InCall, ClearLabels, AllCalls
<1>2. Lookup(th[t].obj).bad = FALSE
  <2>1. PICK n, s : Place(n, s)
    BY DEF HashInv
  <2>2. Found(n, s, th[t].obj)
    BY <1>i, <2>1, LookupList DEF Place, ListType
  <2> QED BY <2>2 DEF Found
<1>3. CASE Lookup(th[t].obj).cur # Nil
  <2>1. Goto(t, Named(th[t].call)) /\ UNCHANGED <<lists, excused>>
    BY <1>2, <1>3 DEF GetFullPath
  <2> QED BY <1>i, <1>1, <1>3, <2>1, SameCall
<1>4. CASE Lookup(th[t].obj).cur = Nil
  <2>1. Log(t, file[th[t].obj].opened, "NORMAL", Unnamed(th[t].call))
    BY <1>2, <1>4 DEF GetFullPath
  <2>2. PICK n, l : n = file[th[t].obj].opened /\ l = Unnamed(th[t].call)
    OBVIOUS
  <2>3. Log(t, n, "NORMAL", l)
    BY <2>1, <2>2
  <2>4. \/ /\ th'[t].pc = l /\ (l # "idle" => Same(t) /\ th'[t].seen = FALSE)
           /\ UNCHANGED lists
           /\ \/ excused' = excused \cup {n}
              \/ excused' = excused /\ ~Monitored(n)
        \/ \E c \in Cells \ live :
              /\ th'[t].pc = "log" /\ Same(t) /\ th'[t].cur = c /\ th'[t].seen = th[t].seen
              /\ live' = live \cup {c} /\ excused' = excused /\ UNCHANGED <<head, first, record>>
              /\ cell' = [cell EXCEPT ![c] = [next |-> Nil, obj |-> th[t].obj, name |-> n, type |-> "NORMAL"]]
    BY <1>i, <2>3, LogFields
  <2> QED BY <1>i, <1>1, <2>2, <2>4
<1> QED BY <1>3, <1>4

\* A rename whose target's name is made.
LEMMA ParseFields ==
  ASSUME TypeInv, NEW t \in Threads, ParseReName(t)
  PROVE  /\ th[t].pc = "parse" /\ InCall(t) /\ UNCHANGED <<file, dirty, settings>> /\ th[t].call = "rename"
         /\ \/ th'[t].pc = "lower" /\ Same(t) /\ th'[t].seen = FALSE /\ UNCHANGED lists
            \/ \E c \in Cells \ live :
                 /\ th'[t].pc = "log" /\ Same(t) /\ th'[t].cur = c /\ th'[t].seen = th[t].seen
                 /\ live' = live \cup {c} /\ UNCHANGED <<head, first, record>>
                 /\ cell' = [cell EXCEPT ![c] =
                      [next |-> Nil, obj |-> th[t].obj, name |-> th[t].to, type |-> "RENAME"]]
         /\ excused \subseteq excused'
<1>i. ThreadType /\ ListType /\ th[t].pc = "parse" /\ UNCHANGED <<file, dirty, settings>>
  BY DEF TypeInv, ParseReName
<1>1. InCall(t) /\ th[t].call = "rename" /\ th[t].seen \in BOOLEAN
  BY <1>i DEF ThreadType, Sound, Context, InCall, ClearLabels
<1>2. CASE th[t].seen
  <2>1. PICK n, l : n = th[t].to /\ l = "lower"
    OBVIOUS
  <2>2. Log(t, n, "RENAME", l)
    BY <1>2, <2>1 DEF ParseReName
  <2>3. \/ /\ th'[t].pc = l /\ (l # "idle" => Same(t) /\ th'[t].seen = FALSE)
           /\ UNCHANGED lists
           /\ \/ excused' = excused \cup {n}
              \/ excused' = excused /\ ~Monitored(n)
        \/ \E c \in Cells \ live :
              /\ th'[t].pc = "log" /\ Same(t) /\ th'[t].cur = c /\ th'[t].seen = th[t].seen
              /\ live' = live \cup {c} /\ excused' = excused /\ UNCHANGED <<head, first, record>>
              /\ cell' = [cell EXCEPT ![c] = [next |-> Nil, obj |-> th[t].obj, name |-> n, type |-> "RENAME"]]
    BY <1>i, <2>2, LogFields
  <2> QED BY <1>i, <1>1, <2>1, <2>3
<1>3. CASE ~th[t].seen
  <2>1. Goto(t, "lower") /\ UNCHANGED <<lists, excused>>
    BY <1>3 DEF ParseReName
  <2> QED BY <1>i, <1>1, <1>3, <2>1, SameCall
<1> QED BY <1>1, <1>2, <1>3

LEMMA LinkFields ==
  ASSUME TypeInv, NEW t \in Threads, LogHash(t)
  PROVE  /\ th[t].pc = "log" /\ InCall(t) /\ th'[t].pc = "push" /\ Same(t) /\ th[t].cur \in Cells
         /\ th'[t].cur = th[t].cur /\ th'[t].seen = th[t].seen
         /\ cell' = [cell EXCEPT ![th[t].cur].next = head]
         /\ UNCHANGED <<settings, file, head, live, first, record, dirty, excused>>
<1>i. ThreadType /\ th[t].pc = "log" /\ Goto(t, "push")
  BY DEF TypeInv, LogHash
<1>1. InCall(t) /\ th[t].cur \in Cells
  BY <1>i DEF ThreadType, Sound, InCall, ClearLabels, CellLabels
<1> QED BY <1>i, <1>1, SameCall DEF LogHash

LEMMA PushFields ==
  ASSUME TypeInv, NEW t \in Threads, Push(t)
  PROVE  /\ th[t].pc = "push" /\ InCall(t) /\ Same(t) /\ th'[t].seen = th[t].seen
         /\ th[t].call \in {"create", "write", "fastwrite", "cleanup", "close", "rename"}
         /\ th'[t].pc = IF th[t].call = "rename" THEN "lower" ELSE Named(th[t].call)
         /\ UNCHANGED <<settings, file, cell, live, first, record, dirty, excused>>
<1>i. ThreadType /\ th[t].pc = "push" /\ th[t] \in Context
  BY DEF TypeInv, Push, ThreadType
<1>1. InCall(t) /\ th[t].call \in {"create", "write", "fastwrite", "cleanup", "close", "rename"}
  BY <1>i DEF ThreadType, Sound, Context, InCall, ClearLabels, AllCalls
<1>2. PICK l : l = IF th[t].call = "rename" THEN "lower" ELSE Named(th[t].call)
  OBVIOUS
<1>3. Set(t, [th[t] EXCEPT !.cur = Nil, !.pc = l])
  BY <1>2 DEF Push
<1>4. th'[t] = [th[t] EXCEPT !.cur = Nil, !.pc = l]
  BY <1>i, <1>3, SetIs
<1>5. th'[t].pc = l /\ Same(t) /\ th'[t].seen = th[t].seen
  BY <1>i, <1>4 DEF Context, Same
<1> QED BY <1>i, <1>1, <1>2, <1>5 DEF Push

\* The first entry of the object is marked if it is of the type from.
FlagSet(o, from) ==
  cell' = IF Lookup(o).cur # Nil /\ cell[Lookup(o).cur].type = from
          THEN [cell EXCEPT ![Lookup(o).cur].type = "MODIFIED"] ELSE cell

LEMMA FlagIs ==
  ASSUME ListType, HashInv, NEW t, NEW from, SetWriteFlag(t, from)
  PROVE  FlagSet(th[t].obj, from)
<1>1. PICK n, s : Place(n, s)
  BY DEF HashInv
<1>2. Found(n, s, th[t].obj)
  BY <1>1, LookupList DEF Place, ListType
<1> QED BY <1>2 DEF Found, SetWriteFlag, FlagSet

LEMMA MarkFields ==
  ASSUME TypeInv, HashInv, NEW t \in Threads, MarkWritten(t)
  PROVE  /\ th[t].pc = "setflag" /\ InCall(t) /\ th[t].call \in {"write", "fastwrite"}
         /\ IF th[t].call = "write" THEN th'[t].pc = "lower" /\ Same(t) /\ th'[t].seen = th[t].seen
            ELSE th'[t].pc = "idle"
         /\ FlagSet(th[t].obj, "NORMAL")
         /\ UNCHANGED <<settings, file, head, live, first, record, dirty, excused>>
<1>i. ThreadType /\ ListType /\ th[t].pc = "setflag"
  BY DEF TypeInv, MarkWritten
<1>1. InCall(t) /\ th[t].call \in {"write", "fastwrite"}
  BY <1>i DEF ThreadType, Sound, InCall, ClearLabels
<1>2. FlagSet(th[t].obj, "NORMAL")
  BY <1>i, FlagIs DEF MarkWritten
<1>3. CASE th[t].call = "write"
  <2>1. Goto(t, "lower")
    BY <1>3 DEF MarkWritten, Leave
  <2> QED BY <1>i, <1>1, <1>2, <1>3, <2>1, SameCall DEF MarkWritten
<1>4. CASE th[t].call # "write"
  <2>1. Set(t, Idle)
    BY <1>4 DEF MarkWritten, Leave
  <2> QED BY <1>i, <1>1, <1>2, <1>4, <2>1, SetPlain DEF MarkWritten
<1> QED BY <1>3, <1>4

LEMMA FindFields ==
  ASSUME TypeInv, NEW t \in Threads, Find(t)
  PROVE  /\ th[t].pc = "find" /\ InCall(t) /\ UNCHANGED <<settings, lists, dirty, excused>>
         /\ \/ /\ Lookup(th[t].obj).cur # Nil /\ th'[t].pc = "unlink" /\ Same(t)
               /\ th'[t].cur = Lookup(th[t].obj).cur /\ th'[t].done = th[t].done
            \/ /\ Lookup(th[t].obj).cur = Nil
               /\ IF th[t].done THEN th'[t].pc = "idle"
                  ELSE Same(t) /\ th'[t].pc = "lower" /\ th'[t].seen = th[t].seen
<1>i. ThreadType /\ th[t].pc = "find" /\ th[t] \in Context
  BY DEF TypeInv, Find, ThreadType
<1>1. InCall(t)
  BY <1>i DEF ThreadType, Sound, InCall, ClearLabels
<1>2. CASE Lookup(th[t].obj).cur = Nil
  <2>1. AfterFree(t)
    BY <1>2 DEF Find
  <2> QED BY <1>i, <1>1, <1>2, <2>1, SameCall DEF Find
<1>3. CASE Lookup(th[t].obj).cur # Nil
  <2>1. PICK c, p : c = Lookup(th[t].obj).cur /\ p = Lookup(th[t].obj).prev
    OBVIOUS
  <2>2. Set(t, [th[t] EXCEPT !.pc = "unlink", !.cur = c, !.prev = p])
    BY <1>3, <2>1 DEF Find
  <2>3. th'[t] = [th[t] EXCEPT !.pc = "unlink", !.cur = c, !.prev = p]
    BY <1>i, <2>2, SetIs
  <2>4. th'[t].pc = "unlink" /\ Same(t) /\ th'[t].cur = c /\ th'[t].done = th[t].done
    BY <1>i, <2>3 DEF Context, Same
  <2> QED BY <1>i, <1>1, <1>3, <2>1, <2>4 DEF Find
<1> QED BY <1>2, <1>3

LEMMA UnlinkFields ==
  ASSUME TypeInv, HashInv, NEW t \in Threads, Unlink(t)
  PROVE  /\ th[t].pc = "unlink" /\ InCall(t) /\ Same(t) /\ th'[t].pc \in {"record", "free"}
         /\ th'[t].cur = th[t].cur /\ th'[t].done = th[t].done
         /\ cell[th[t].cur].type = "MODIFIED" => th'[t].pc = "record"
         /\ UNCHANGED <<settings, file, live, first, record, dirty, excused>>
<1>i. ThreadType /\ th[t].pc = "unlink" /\ th[t] \in Context
  BY DEF TypeInv, Unlink, ThreadType
<1>1. InCall(t)
  BY <1>i DEF ThreadType, Sound, InCall, ClearLabels
<1>2. th[t].cur \in live
  BY <1>i, InHand
<1>3. PICK l : l = IF th[t].cur \in live /\ (cell[th[t].cur].type = "MODIFIED" \/ Node[cell[th[t].cur].name] = "auto")
                   THEN "record" ELSE "free"
  OBVIOUS
<1>4. Set(t, [th[t] EXCEPT !.prev = Nil, !.pc = l])
  BY <1>3 DEF Unlink
<1>5. th'[t] = [th[t] EXCEPT !.prev = Nil, !.pc = l]
  BY <1>i, <1>4, SetIs
<1>6. th'[t].pc = l /\ Same(t) /\ th'[t].cur = th[t].cur /\ th'[t].done = th[t].done
  BY <1>i, <1>5 DEF Context, Same
<1> QED BY <1>i, <1>1, <1>2, <1>3, <1>6 DEF Unlink

\* What a thread has taken out is put into a record that says MODIFIED if it does.
LEMMA RecordFields ==
  ASSUME TypeInv, NEW t \in Threads, AddConvertRecord(t), ~corrupt'
  PROVE  /\ th[t].pc = "record" /\ InCall(t) /\ Same(t) /\ th'[t].pc \in {"append", "free"}
         /\ th'[t].cur = th[t].cur /\ th'[t].done = th[t].done
         /\ UNCHANGED <<settings, file, head, cell, first, dirty>>
         /\ excused \subseteq excused' /\ live \subseteq live'
         /\ live' \subseteq live \cup Records
         /\ \A r \in Records \cap live : /\ record'[r].name = record[r].name
                                         /\ record[r].type = "MODIFIED" => record'[r].type = "MODIFIED"
         /\ \/ cell[th[t].cur].name \in excused'
            \/ \E r \in Records \cap live' : /\ record'[r].name = cell[th[t].cur].name
                                             /\ cell[th[t].cur].type = "MODIFIED" => record'[r].type = "MODIFIED"

<1>i. ThreadType /\ ListType /\ th[t].pc = "record" /\ th[t] \in Context
  BY DEF TypeInv, AddConvertRecord, ThreadType
<1>u. UNCHANGED <<settings, file, head, cell, first, dirty>>
  BY Zenon DEF AddConvertRecord
<1>0. InCall(t)
  BY <1>i DEF ThreadType, Sound, InCall, ClearLabels
<1>1. PICK n, i :
           /\ n = cell[th[t].cur].name
           /\ RecordOf(n) # {} => i \in RecordOf(n)
           /\ \/ Excuse({n}) /\ Goto(t, "free") /\ UNCHANGED <<corrupt, live, record>>
              \/ NoRecord(t, n, i) \/ OldRecord(t, n, i)
              \/ \E r \in Records \ live : NewRecord(t, n, i, r)
  BY RecordCases
<1>2. PICK type : type = cell[th[t].cur].type
  OBVIOUS
<1>3. CASE Excuse({n}) /\ Goto(t, "free") /\ UNCHANGED <<corrupt, live, record>>
  <2>1. excused' = excused \cup {n} /\ UNCHANGED <<live, record>>
    BY <1>3 DEF Excuse
  <2>2. Same(t) /\ th'[t].pc = "free" /\ th'[t].done = th[t].done /\ th'[t].cur = th[t].cur
    BY <1>i, <1>3, SameCall
  <2> QED BY <1>i, <1>u, <1>0, <1>1, <2>1, <2>2
<1>4. CASE NoRecord(t, n, i)
  BY <1>4 DEF NoRecord
<1>5. CASE OldRecord(t, n, i)
  <2>1. PICK x : x = Queue[i]
    OBVIOUS
  <2>2. x \in Records /\ x \in live /\ UNCHANGED <<live, excused>>
    BY <1>i, <1>1, <1>5, <2>1, RecordOfType DEF OldRecord
  <2>3. record[x].name = n
    <3>1. i \in RecordOf(n) /\ x # Nil
      BY <1>1, <1>5, <2>1 DEF OldRecord
    <3> QED BY <2>1, <2>2, <3>1 DEF RecordOf, Stops
  <2>4. record' = IF type = "MODIFIED" THEN [record EXCEPT ![x].type = "MODIFIED"] ELSE record
    BY <1>2, <1>5, <2>1 DEF OldRecord, Merge
  <2>5. /\ \A r \in Records : /\ record'[r].name = record[r].name
                              /\ record[r].type = "MODIFIED" => record'[r].type = "MODIFIED"
        /\ type = "MODIFIED" => record'[x].type = "MODIFIED"
    BY <1>i, <2>2, <2>4 DEF ListType
  <2>6. Same(t) /\ th'[t].pc = "free" /\ th'[t].done = th[t].done /\ th'[t].cur = th[t].cur
    BY <1>i, <1>5, SameCall DEF OldRecord
  <2> QED BY <1>i, <1>u, <1>0, <1>1, <1>2, <2>2, <2>3, <2>5, <2>6
<1>6. ASSUME NEW r \in Records \ live, NewRecord(t, n, i, r)
      PROVE  /\ Same(t) /\ th'[t].pc = "append" /\ th'[t].done = th[t].done /\ th'[t].cur = th[t].cur
             /\ live' = live \cup {r} /\ excused' = excused
             /\ record'[r].name = n /\ record'[r].type = type
             /\ \A x \in Records \cap live : record'[x] = record[x]
  <2>1. PICK p : p = IF i = 0 THEN Nil ELSE Queue[i-1]
    OBVIOUS
  <2>2. Set(t, [th[t] EXCEPT !.pc = "append", !.new = r, !.prev = p])
    BY <1>6, <2>1 DEF NewRecord
  <2>3. th'[t] = [th[t] EXCEPT !.pc = "append", !.new = r, !.prev = p]
    BY <1>i, <2>2, SetIs
  <2>4. Same(t) /\ th'[t].pc = "append" /\ th'[t].done = th[t].done /\ th'[t].cur = th[t].cur
    BY <1>i, <2>3 DEF Context, Same
  <2>5. record' = [record EXCEPT ![r] = [next |-> Nil, name |-> n, type |-> type]]
    BY <1>2, <1>6 DEF NewRecord
  <2>6. record'[r].name = n /\ record'[r].type = type /\ \A x \in Records \cap live : record'[x] = record[x]
    BY <1>i, <1>6, <2>5 DEF ListType
  <2> QED BY <1>6, <2>4, <2>6 DEF NewRecord
<1>7. ASSUME NEW r \in Records \ live, NewRecord(t, n, i, r)
      PROVE  /\ Same(t) /\ th'[t].pc \in {"append", "free"}
             /\ th'[t].cur = th[t].cur /\ th'[t].done = th[t].done
             /\ excused \subseteq excused' /\ live \subseteq live'
             /\ live' \subseteq live \cup Records
             /\ \A x \in Records \cap live : /\ record'[x].name = record[x].name
                                             /\ record[x].type = "MODIFIED" => record'[x].type = "MODIFIED"
             /\ \E x \in Records \cap live' : /\ record'[x].name = n
                                              /\ type = "MODIFIED" => record'[x].type = "MODIFIED"
  <2>1. /\ Same(t) /\ th'[t].pc = "append" /\ th'[t].done = th[t].done /\ th'[t].cur = th[t].cur
        /\ live' = live \cup {r} /\ excused' = excused
        /\ record'[r].name = n /\ record'[r].type = type
        /\ \A x \in Records \cap live : record'[x] = record[x]
    BY <1>6, <1>7
  <2> QED BY <2>1
<1> QED BY <1>i, <1>u, <1>0, <1>1, <1>2, <1>3, <1>4, <1>5, <1>7

LEMMA AppendFields ==
  ASSUME TypeInv, NEW t \in Threads, Append(t)
  PROVE  /\ th[t].pc = "append" /\ InCall(t) /\ Same(t) /\ th'[t].pc = "free"
         /\ th'[t].cur = th[t].cur /\ th'[t].done = th[t].done
         /\ UNCHANGED <<settings, file, head, cell, live, dirty, excused>>
         /\ \A r \in Records : record'[r].name = record[r].name /\ record'[r].type = record[r].type
<1>i. ThreadType /\ ListType /\ th[t].pc = "append" /\ th[t] \in Context /\ Sound(th[t])
  BY DEF TypeInv, Append, ThreadType
<1>1. InCall(t) /\ th[t].prev \in Records \cup {Nil}
  BY <1>i DEF Sound, InCall, ClearLabels
<1>2. Set(t, [th[t] EXCEPT !.pc = "free", !.new = Nil, !.prev = Nil])
  BY DEF Append
<1>3. th'[t] = [th[t] EXCEPT !.pc = "free", !.new = Nil, !.prev = Nil]
  BY <1>i, <1>2, SetIs
<1>4. Same(t) /\ th'[t].pc = "free" /\ th'[t].done = th[t].done /\ th'[t].cur = th[t].cur
  BY <1>i, <1>3 DEF Context, Same
<1>5. \A r \in Records : record'[r].name = record[r].name /\ record'[r].type = record[r].type
  <2>1. CASE th[t].prev = Nil
    BY <2>1 DEF Append
  <2>2. CASE th[t].prev # Nil
    <3>1. record' = [record EXCEPT ![th[t].prev].next = th[t].new] /\ th[t].prev \in Records
      BY <1>1, <2>2 DEF Append
    <3> QED BY <1>i, <3>1 DEF ListType
  <2> QED BY <2>1, <2>2
<1> QED BY <1>i, <1>1, <1>4, <1>5 DEF Append

\* What a call does once the entry is freed, or was not there.
Freed(t) == IF th[t].done THEN th'[t].pc = "idle"
            ELSE Same(t) /\ th'[t].pc = "lower" /\ th'[t].seen = th[t].seen

LEMMA FreeFields ==
  ASSUME TypeInv, NEW t \in Threads, Free(t)
  PROVE  /\ th[t].pc = "free" /\ InCall(t) /\ Freed(t) /\ th[t].cur \in Cells
         /\ live' = live \ {th[t].cur} /\ cell' = [cell EXCEPT ![th[t].cur] = FreeCell]
         /\ UNCHANGED <<settings, head, first, record, dirty, excused>>
<1>i. ThreadType /\ th[t].pc = "free" /\ Sound(th[t])
  BY DEF TypeInv, Free, ThreadType
<1>1. InCall(t) /\ th[t].cur \in Cells
  BY <1>i DEF Sound, InCall, ClearLabels, CellLabels
<1>2. AfterFree(t)
  BY DEF Free
<1>3. Freed(t)
  BY <1>i, <1>2, SameCall DEF Freed
<1> QED BY <1>i, <1>1, <1>3 DEF Free

\* The thread goes on when the file system below is done, to free its entry.
Done(t) == Same(t) /\ th'[t].pc = "find" /\ th'[t].done = TRUE

LEMMA DoneIs ==
  ASSUME ThreadType, NEW t \in Threads, Set(t, [th[t] EXCEPT !.pc = "find", !.done = TRUE])
  PROVE  Done(t)
<1>1. th'[t] = [th[t] EXCEPT !.pc = "find", !.done = TRUE]
  BY SetIs
<1> QED BY <1>1 DEF ThreadType, Context, Same, Done

LEMMA LowerCreateFields ==
  ASSUME TypeInv, NEW t \in Threads, LowerCreate(t)
  PROVE  /\ th[t].pc = "lower" /\ InCall(t) /\ th[t].call = "create"
         /\ th'[t].pc = "idle" \/ Done(t)
         /\ UNCHANGED <<settings, lists, dirty, excused>>
         /\ \A o \in Objects : file'[o].opened = file[o].opened
<1>i. ThreadType /\ FileType /\ th[t].pc = "lower" /\ th[t].call = "create"
  BY DEF TypeInv, LowerCreate, FileInv
<1>1. InCall(t)
  BY <1>i DEF InCall
<1>2. th'[t].pc = "idle" \/ Done(t)
  BY <1>i, SetPlain, DoneIs DEF LowerCreate
<1>3. \A o \in Objects : file'[o].opened = file[o].opened
  BY <1>i DEF LowerCreate, FileType
<1> QED BY <1>i, <1>1, <1>2, <1>3 DEF LowerCreate

LEMMA LowerRenameFields ==
  ASSUME TypeInv, HashInv, NEW t \in Threads, LowerRename(t)
  PROVE  /\ th[t].pc = "lower" /\ InCall(t) /\ th[t].call = "rename" /\ Done(t)
         /\ UNCHANGED <<settings, head, live, first, record>> /\ excused \subseteq excused'
         /\ \A o \in Objects : file'[o].opened = file[o].opened
         /\ \/ /\ FlagSet(th[t].obj, "RENAME")
               /\ \A n \in dirty' \ dirty : n \in excused' \/ (n = th[t].to /\ th[t].seen)
            \/ UNCHANGED <<cell, dirty>>
<1>i. ThreadType /\ ListType /\ FileType /\ th[t].pc = "lower" /\ th[t].call = "rename"
  BY DEF TypeInv, LowerRename, FileInv
<1>1. InCall(t)
  BY <1>i DEF InCall
<1>2. Done(t)
  BY <1>i, DoneIs DEF LowerRename
<1>3. \A o \in Objects : file'[o].opened = file[o].opened
  <2>1. PICK n, to : n = file[th[t].obj].name /\ to = th[t].to
    OBVIOUS
  <2>2. \/ UNCHANGED file
        \/ file' = [p \in Objects |-> IF file[p].name = n THEN [file[p] EXCEPT !.name = to] ELSE file[p]]
    BY <2>1 DEF LowerRename
  <2> QED BY <1>i, <2>2 DEF FileType
<1>4. /\ excused \subseteq excused'
      /\ \/ /\ FlagSet(th[t].obj, "RENAME")
            /\ \A n \in dirty' \ dirty : n \in excused' \/ (n = th[t].to /\ th[t].seen)
         \/ UNCHANGED <<cell, dirty>>
  <2>1. CASE UNCHANGED <<cell, dirty, excused>>
    BY <2>1
  <2>2. ASSUME NEW n, NEW unseen, SetWriteFlag(t, "RENAME"), excused' = excused \cup unseen,
               dirty' = (dirty \ {n}) \cup unseen \cup (IF th[t].seen THEN {th[t].to} ELSE {})
        PROVE  /\ FlagSet(th[t].obj, "RENAME") /\ excused \subseteq excused'
               /\ \A x \in dirty' \ dirty : x \in excused' \/ (x = th[t].to /\ th[t].seen)
    <3>1. FlagSet(th[t].obj, "RENAME")
      BY <1>i, <2>2, FlagIs
    <3> QED BY <2>2, <3>1
  <2> QED BY <2>1, <2>2 DEF LowerRename, Excuse
<1> QED BY <1>i, <1>1, <1>2, <1>3, <1>4 DEF LowerRename

LEMMA LowerOtherFields ==
  ASSUME TypeInv, NEW t \in Threads, LowerOther(t)
  PROVE  /\ th[t].pc = "lower" /\ InCall(t) /\ th[t].call \in {"write", "cleanup", "close"} /\ th'[t].pc = "idle"
         /\ UNCHANGED <<settings, lists>> /\ excused \subseteq excused'
         /\ \A o \in Objects : file'[o].opened = file[o].opened \/ file'[o].state = "free"
         /\ \A n \in dirty' \ dirty : /\ th[t].call = "write" /\ th[t].seen
                                      /\ n = file[th[t].obj].opened \/ n \in excused'
<1>i. ThreadType /\ FileType /\ th[t].pc = "lower" /\ th[t].call \in {"write", "cleanup", "close"}
  BY DEF TypeInv, LowerOther, FileInv
<1>1. InCall(t)
  BY <1>i DEF InCall
<1>2. th'[t].pc = "idle"
  BY <1>i, SetPlain DEF LowerOther
<1>3. \A o \in Objects : file'[o].opened = file[o].opened \/ file'[o].state = "free"
  BY <1>i DEF LowerOther, FileType, NoFile
<1>4. \A n \in dirty' \ dirty : /\ th[t].call = "write" /\ th[t].seen
                                /\ n = file[th[t].obj].opened \/ n \in excused'
  BY DEF LowerOther, Excuse
<1> QED BY <1>i, <1>1, <1>2, <1>3, <1>4 DEF LowerOther, Excuse

LEMMA ClearFields ==
  ASSUME TypeInv, NEW t \in Threads,
         \/ ClearState(t) \/ CleanupHash(t) \/ CleanupCell(t) \/ CleanupTable(t)
         \/ CleanupStore(t) \/ CleanupRecord(t)
  PROVE  /\ th[t].pc \in ClearLabels \/ (th[t].pc = "idle" /\ Names \subseteq excused')
         /\ th'[t].pc = "idle" \/ th'[t].pc \in ClearLabels
         /\ UNCHANGED <<file, dirty>> /\ excused \subseteq excused'
<1>i. ThreadType
  BY DEF TypeInv
<1>t. th[t] \in Context
  BY <1>i DEF ThreadType
<1>0. UNCHANGED <<file, dirty>> /\ excused \subseteq excused'
  BY DEF ClearState, CleanupHash, CleanupCell, CleanupTable, CleanupStore, CleanupRecord, Excuse
<1>1. CASE ClearState(t)
  <2>1. th'[t] = [Idle EXCEPT !.pc = "clear", !.call = "clear"]
    BY <1>i, <1>1, SetIs DEF ClearState
  <2> QED BY <1>0, <1>1, <2>1 DEF Idle, ClearState, Excuse, ClearLabels
<1>2. ASSUME NEW x, NEW l, Set(t, [th[t] EXCEPT !.cur = x, !.pc = l]) PROVE th'[t].pc = l
  <2>1. th'[t] = [th[t] EXCEPT !.cur = x, !.pc = l]
    BY <1>i, <1>2, SetIs
  <2> QED BY <1>t, <2>1 DEF Context
<1>3. CASE CleanupHash(t) \/ CleanupCell(t)
  <2>1. PICK x, l : Set(t, [th[t] EXCEPT !.cur = x, !.pc = l]) /\ l \in ClearLabels
    BY <1>3 DEF CleanupHash, CleanupCell, ClearLabels
  <2>2. th'[t].pc = l
    BY <1>2, <2>1
  <2> QED BY <1>0, <1>3, <2>1, <2>2 DEF CleanupHash, CleanupCell, ClearLabels
<1>4. CASE CleanupTable(t)
  <2>1. th'[t].pc = "clearstore"
    BY <1>i, <1>4, SetPlain DEF CleanupTable
  <2> QED BY <1>0, <1>4, <2>1 DEF CleanupTable, ClearLabels
<1>5. CASE CleanupStore(t) \/ CleanupRecord(t)
  <2>1. Set(t, Idle) \/ \E x, l : Set(t, [th[t] EXCEPT !.cur = x, !.pc = l]) /\ l \in ClearLabels
    BY <1>5 DEF CleanupStore, CleanupRecord, ClearLabels
  <2>2. th'[t].pc = "idle" \/ th'[t].pc \in ClearLabels
    BY <1>2, <1>i, <2>1, SetPlain
  <2> QED BY <1>0, <1>5, <2>2 DEF CleanupStore, CleanupRecord, ClearLabels
<1> QED BY <1>1, <1>3, <1>4, <1>5

\* A call has begun, or a fast write by a process that is not monitored is over.
Begun(t, call, o, to) ==
  /\ th[t].pc = "idle" /\ call \in AllCalls \ {"clear"}
  /\ \/ th'[t].pc = "idle"
     \/ /\ th'[t].call = call /\ th'[t].obj = o /\ th'[t].to = to
        /\ \/ th'[t].pc = "parse" /\ call = "rename"
           \/ th'[t].pc = "lookup" /\ call # "rename"
           \/ th'[t].pc = "find" /\ call \in {"create", "close"}
           \/ th'[t].pc = "lower" /\ call \in {"write", "cleanup"} /\ th'[t].seen = FALSE
  /\ UNCHANGED <<settings, lists>>
  /\ excused \subseteq excused' /\ Rivals(call, o, to) \subseteq excused'
  /\ \A p \in Objects : file'[p].opened = file[p].opened \/ file[p].state = "free"
  /\ \A n \in dirty' \ dirty : /\ call = "fastwrite" /\ th'[t].pc # "idle" /\ Monitored(n)
                               /\ n = file[o].opened \/ n \in excused'

LEMMA BeginFields ==
  ASSUME TypeInv, NEW t \in Threads, NEW call \in Calls, NEW o \in Objects,
         NEW to \in Names \cup {Nil}, NEW excl \in BOOLEAN, Begin(t, call, o, to, excl)
  PROVE  Begun(t, call, o, to)
<1>i. ThreadType /\ FileType /\ th[t].pc = "idle"
  BY DEF TypeInv, Begin, FileInv
<1>0. call \in AllCalls \ {"clear"}
  BY FSMonAssumption DEF Begin, May
<1>1. PICK l : l = IF call = "rename" THEN "parse" ELSE IF working /\ ~excl THEN "lookup" ELSE Unnamed(call)
  OBVIOUS
<1>f. ASSUME th'[t].pc = l /\ th'[t].call = call /\ th'[t].obj = o /\ th'[t].to = to,
             ~(working /\ ~excl) => th'[t].seen = FALSE
      PROVE  \/ th'[t].pc = "idle"
             \/ /\ th'[t].call = call /\ th'[t].obj = o /\ th'[t].to = to
                /\ \/ th'[t].pc = "parse" /\ call = "rename"
                   \/ th'[t].pc = "lookup" /\ call # "rename"
                   \/ th'[t].pc = "find" /\ call \in {"create", "close"}
                   \/ th'[t].pc = "lower" /\ call \in {"write", "cleanup"} /\ th'[t].seen = FALSE
  <2>1. CASE call = "rename"
    BY <1>1, <1>f, <2>1
  <2>2. CASE call # "rename" /\ working /\ ~excl
    BY <1>1, <1>f, <2>2
  <2>3. CASE call # "rename" /\ ~(working /\ ~excl)
    <3>1. l = Unnamed(call) /\ th'[t].seen = FALSE
      BY <1>1, <1>f, <2>3
    <3>2. call \in {"create", "close"} \/ call \in {"write", "cleanup"} \/ call = "fastwrite"
      BY <1>0, <2>3 DEF AllCalls
    <3> QED BY <1>f, <3>1, <3>2, CallNames
  <2> QED BY <2>1, <2>2, <2>3
<1>2. \/ th'[t].pc = "idle"
      \/ /\ th'[t].call = call /\ th'[t].obj = o /\ th'[t].to = to
         /\ \/ th'[t].pc = "parse" /\ call = "rename"
            \/ th'[t].pc = "lookup" /\ call # "rename"
            \/ th'[t].pc = "find" /\ call \in {"create", "close"}
            \/ th'[t].pc = "lower" /\ call \in {"write", "cleanup"} /\ th'[t].seen = FALSE
  <2>1. CASE Set(t, Idle)
    BY <1>i, <2>1, SetPlain
  <2>2. CASE ~Set(t, Idle)
    <3>1. PICK see : /\ Set(t, [pc |-> l, call |-> call, obj |-> o, to |-> to, seen |-> see,
                                cur |-> Nil, prev |-> Nil, new |-> Nil, done |-> FALSE])
                     /\ ~(working /\ ~excl) => see = FALSE
      BY <1>1, <2>2 DEF Begin
    <3>2. th'[t] = [pc |-> l, call |-> call, obj |-> o, to |-> to, seen |-> see,
                    cur |-> Nil, prev |-> Nil, new |-> Nil, done |-> FALSE]
      BY <1>i, <3>1, SetIs
    <3>3. th'[t].pc = l /\ th'[t].call = call /\ th'[t].obj = o /\ th'[t].to = to /\ th'[t].seen = see
      BY <3>2
    <3> QED BY <1>f, <3>1, <3>3
  <2> QED BY <2>1, <2>2
<1>3. \A p \in Objects : file'[p].opened = file[p].opened \/ file[p].state = "free"
  BY <1>i, <1>0 DEF Begin, May, FileType
<1>4. ASSUME NEW n \in dirty' \ dirty
      PROVE  /\ call = "fastwrite" /\ th'[t].pc # "idle" /\ Monitored(n)
             /\ n = file[o].opened \/ n \in excused'
  <2>1. n = file[o].name /\ Monitored(n) /\ call = "fastwrite" /\ working /\ ~excl
    BY <1>4 DEF Begin
  <2>2. n = file[o].opened \/ n \in excused'
    BY <2>1 DEF Begin, Excuse
  <2>3. th'[t].pc # "idle"
    <3>1. PICK see : Set(t, [pc |-> "lookup", call |-> call, obj |-> o, to |-> to, seen |-> see,
                             cur |-> Nil, prev |-> Nil, new |-> Nil, done |-> FALSE])
      BY <2>1 DEF Begin
    <3>2. th'[t] = [pc |-> "lookup", call |-> call, obj |-> o, to |-> to, seen |-> see,
                    cur |-> Nil, prev |-> Nil, new |-> Nil, done |-> FALSE]
      BY <1>i, <3>1, SetIs
    <3> QED BY <3>2
  <2> QED BY <2>1, <2>2, <2>3
<1> QED BY <1>i, <1>0, <1>2, <1>3, <1>4 DEF Begin, Excuse, Begun

Begins(t) == \E call \in Calls, o \in Objects, to \in Names \cup {Nil}, excl \in BOOLEAN :
               Begin(t, call, o, to, excl)
Clears(t) == \/ ClearState(t) \/ CleanupHash(t) \/ CleanupCell(t) \/ CleanupTable(t)
             \/ CleanupStore(t) \/ CleanupRecord(t)

\* What every step of a thread does: files are excused and not blamed again, an
\* object keeps the name it was opened by, and a call goes on or begins.
Common(t) ==
  /\ excused \subseteq excused'
  /\ Clears(t) \/ UNCHANGED settings
  /\ \A o \in Objects : \/ file'[o].opened = file[o].opened
                        \/ file[o].state = "free" \/ file'[o].state = "free"
  /\ th'[t].pc = "idle" \/ Clears(t) \/ Begins(t) \/ (InCall(t) /\ Same(t))

\* Where a thread comes from.
Comes(t) ==
  /\ th'[t].pc = "log" => GetFullPath(t) \/ ParseReName(t)
  /\ th'[t].pc = "push" => LogHash(t)
  /\ th'[t].pc = "setflag" => GetFullPath(t) \/ Push(t)
  /\ th'[t].pc = "lower" => \/ Begins(t) \/ GetFullPath(t) \/ ParseReName(t) \/ Push(t)
                            \/ MarkWritten(t) \/ Find(t) \/ Free(t)
  /\ th'[t].pc = "find" => Begins(t) \/ GetFullPath(t) \/ Push(t) \/ LowerCreate(t) \/ LowerRename(t)
  /\ th'[t].pc = "unlink" => Find(t)
  /\ th'[t].pc = "record" => Unlink(t)
  /\ th'[t].pc = "append" => AddConvertRecord(t)
  /\ th'[t].pc = "free" => Unlink(t) \/ AddConvertRecord(t) \/ Append(t)

\* The step of each part of a call.
Goes(t) ==
  /\ th[t].pc = "lookup" => GetFullPath(t)
  /\ th[t].pc = "log" => LogHash(t)
  /\ th[t].pc = "push" => Push(t)
  /\ th[t].pc = "setflag" => MarkWritten(t)
  /\ th[t].pc = "find" => Find(t)
  /\ th[t].pc = "unlink" => Unlink(t)
  /\ th[t].pc = "record" => AddConvertRecord(t)
  /\ th[t].pc = "append" => Append(t)
  /\ th[t].pc = "free" => Free(t)
  /\ th[t].pc = "lower" => LowerCreate(t) \/ LowerRename(t) \/ LowerOther(t)

LEMMA ThreadGoes ==
  ASSUME NEW t \in Threads, Thread(t)
  PROVE  Goes(t)
<1>g. /\ GetFullPath(t) => th[t].pc = "lookup"
      /\ ParseReName(t) => th[t].pc = "parse"
      /\ LogHash(t) => th[t].pc = "log"
      /\ Push(t) => th[t].pc = "push"
      /\ MarkWritten(t) => th[t].pc = "setflag"
      /\ Find(t) => th[t].pc = "find"
      /\ Unlink(t) => th[t].pc = "unlink"
      /\ Append(t) => th[t].pc = "append"
      /\ Free(t) => th[t].pc = "free"
  BY DEF GetFullPath, ParseReName, LogHash, Push, MarkWritten, Find, Unlink, Append, Free
<1>r. AddConvertRecord(t) => th[t].pc = "record"
  BY Zenon DEF AddConvertRecord
<1>l. LowerCreate(t) \/ LowerRename(t) \/ LowerOther(t) => th[t].pc = "lower"
  BY DEF LowerCreate, LowerRename, LowerOther
<1>b. Begins(t) => th[t].pc = "idle"
  BY DEF Begins, Begin
<1>c. Clears(t) => th[t].pc = "idle" \/ th[t].pc \in ClearLabels
  BY DEF Clears, ClearLabels, ClearState, CleanupHash, CleanupCell, CleanupTable, CleanupStore, CleanupRecord
<1>1. \/ Begins(t) \/ Clears(t) \/ GetFullPath(t) \/ ParseReName(t) \/ LogHash(t) \/ Push(t) \/ MarkWritten(t)
      \/ Find(t) \/ Unlink(t) \/ AddConvertRecord(t) \/ Append(t) \/ Free(t)
      \/ LowerCreate(t) \/ LowerRename(t) \/ LowerOther(t)
  BY Zenon DEF Thread, Begins, Clears
<1> QED BY <1>1, <1>g, <1>r, <1>l, <1>b, <1>c DEF Goes, ClearLabels

LEMMA FreedFile ==
  ASSUME FileType, NEW t, AfterFree(t) \/ UNCHANGED file
  PROVE  \A o \in Objects : file'[o].opened = file[o].opened \/ file'[o].state = "free"
BY DEF FileType, AfterFree, NoFile

LEMMA NamedIs == \A call \in {"create", "write", "fastwrite", "cleanup", "close"} : Named(call) \in {"setflag", "find", "lower"}
BY CallNames

LEMMA UnnamedIs == \A call \in {"create", "write", "fastwrite", "cleanup", "close"} : Unnamed(call) \in {"idle", "find", "lower"}
BY CallNames

LEMMA ThreadCommon ==
  ASSUME TypeInv, HashInv, NEW t \in Threads, Thread(t), ~corrupt'
  PROVE  Common(t) /\ Comes(t)
<1>i. FileType
  BY DEF TypeInv, FileInv
<1>1. CASE Begins(t)
  <2>1. PICK call \in Calls, o \in Objects, to \in Names \cup {Nil}, excl \in BOOLEAN :
               Begin(t, call, o, to, excl)
    BY <1>1 DEF Begins
  <2>2. th'[t].pc \in {"idle", "parse", "lookup", "find", "lower"}
    BY <2>1, BeginPc DEF TypeInv
  <2>3. Begun(t, call, o, to)
    BY <2>1, BeginFields
  <2> QED BY <1>1, <2>2, <2>3 DEF Common, Comes, Begun
<1>2. CASE GetFullPath(t)
  <2>0. th[t].call \in {"create", "write", "fastwrite", "cleanup", "close"} /\ UNCHANGED <<file, settings>> /\ InCall(t)
    BY <1>2, LookupFields
  <2>1. /\ excused \subseteq excused'
        /\ th'[t].pc = "idle" \/ Same(t)
        /\ th'[t].pc \in {Named(th[t].call), Unnamed(th[t].call), "log"}
    BY <1>2, LookupFields
  <2>2. th'[t].pc \in {"setflag", "find", "lower", "idle", "log"}
    BY <2>0, <2>1, NamedIs, UnnamedIs
  <2> QED BY <1>2, <2>0, <2>1, <2>2 DEF Common, Comes
<1>3. CASE ParseReName(t)
  <2>1. /\ excused \subseteq excused' /\ UNCHANGED <<file, settings>> /\ InCall(t) /\ Same(t)
        /\ th'[t].pc \in {"lower", "log"}
    BY <1>3, ParseFields
  <2> QED BY <1>3, <2>1 DEF Common, Comes
<1>4. CASE LogHash(t)
  BY <1>4, LinkFields DEF Common, Comes
<1>5. CASE Push(t)
  <2>1. /\ UNCHANGED <<file, settings, excused>> /\ InCall(t) /\ Same(t)
        /\ th[t].call \in {"create", "write", "fastwrite", "cleanup", "close", "rename"}
        /\ th'[t].pc = IF th[t].call = "rename" THEN "lower" ELSE Named(th[t].call)
    BY <1>5, PushFields
  <2>2. th'[t].pc \in {"setflag", "find", "lower"}
    BY <2>1, NamedIs
  <2> QED BY <1>5, <2>1, <2>2 DEF Common, Comes
<1>6. CASE MarkWritten(t)
  BY <1>6, MarkFields DEF Common, Comes
<1>7. CASE Find(t)
  <2>1. /\ UNCHANGED <<settings, excused>> /\ InCall(t)
        /\ th'[t].pc = "idle" \/ Same(t)
        /\ th'[t].pc \in {"idle", "unlink", "lower"}
    BY <1>7, FindFields
  <2>2. AfterFree(t) \/ UNCHANGED file
    BY <1>7 DEF Find
  <2> QED BY <1>i, <1>7, <2>1, <2>2, FreedFile DEF Common, Comes
<1>8. CASE Unlink(t)
  BY <1>8, UnlinkFields DEF Common, Comes
<1>9. CASE AddConvertRecord(t)
  <2>1. /\ UNCHANGED <<settings, file>> /\ InCall(t) /\ excused \subseteq excused' /\ Same(t)
        /\ th'[t].pc \in {"append", "free"}
    BY <1>9, RecordFields
  <2> QED BY <1>9, <2>1 DEF Common, Comes
<1>10. CASE Append(t)
  BY <1>10, AppendFields DEF Common, Comes
<1>11. CASE Free(t)
  <2>1. /\ UNCHANGED <<settings, excused>> /\ InCall(t)
        /\ th'[t].pc = "idle" \/ Same(t)
        /\ th'[t].pc \in {"idle", "lower"}
    BY <1>11, FreeFields DEF Freed
  <2>2. AfterFree(t)
    BY <1>11 DEF Free
  <2> QED BY <1>i, <1>11, <2>1, <2>2, FreedFile DEF Common, Comes
<1>12. CASE LowerCreate(t)
  BY <1>12, LowerCreateFields DEF Common, Comes, Done
<1>13. CASE LowerRename(t)
  BY <1>13, LowerRenameFields DEF Common, Comes, Done
<1>14. CASE LowerOther(t)
  BY <1>14, LowerOtherFields DEF Common, Comes
<1>15. CASE Clears(t)
  <2>1. /\ th'[t].pc = "idle" \/ th'[t].pc \in ClearLabels
        /\ UNCHANGED file /\ excused \subseteq excused'
    BY <1>15, ClearFields DEF Clears
  <2> QED BY <1>15, <2>1 DEF Common, Comes, ClearLabels
<1> QED BY <1>1, <1>2, <1>3, <1>4, <1>5, <1>6, <1>7, <1>8, <1>9, <1>10, <1>11, <1>12, <1>13, <1>14, <1>15
     DEF Thread, Begins, Clears

-----------------------------------------------------------------------------
(* What becomes of entries and records.                                    *)

\* What the table finds of an object is an entry of it.
LEMMA LookupIn ==
  ASSUME ListType, HashInv, NEW o
  PROVE  Lookup(o).cur = Nil \/ (Lookup(o).cur \in InChain /\ Lookup(o).cur \in Entries(o))
<1>1. PICK n, s : Place(n, s)
  BY DEF HashInv
<1>2. Found(n, s, o)
  BY <1>1, LookupList DEF Place, ListType
<1>3. InChain = {s[i] : i \in 1..n}
  BY <1>1, ChainIs DEF Place
<1> QED BY <1>2, <1>3 DEF Found, Entries

\* The thread marks the first entry of its object.
Marks(t, c) ==
  /\ c = Lookup(th[t].obj).cur /\ c \in Entries(th[t].obj)
  /\ th[t].pc = "setflag" \/ (th[t].pc = "lower" /\ th[t].call = "rename")

\* An entry keeps its name, and its type if it is not marked.
SameCells(t) ==
  \A c \in Cells \cap live \cap live' :
    /\ cell'[c].name = cell[c].name /\ cell'[c].obj = cell[c].obj
    /\ cell'[c].type = cell[c].type \/ (cell'[c].type = "MODIFIED" /\ Marks(t, c))

\* A record keeps its name, and goes on saying MODIFIED.
SameRecords ==
  \A r \in Records \cap live :
    /\ r \in live' /\ record'[r].name = record[r].name
    /\ record[r].type = "MODIFIED" => record'[r].type = "MODIFIED"

StaysLive(t) == \A c \in Cells \cap live : c \in live' \/ (th[t].pc = "free" /\ c = th[t].cur)

LEMMA FlagNodes ==
  ASSUME TypeInv, HashInv, NEW t \in Threads, NEW from, FlagSet(th[t].obj, from),
         UNCHANGED <<live, record>>,
         th[t].pc = "setflag" \/ (th[t].pc = "lower" /\ th[t].call = "rename")
  PROVE  SameCells(t) /\ SameRecords /\ StaysLive(t)
<1>1. ListType
  BY DEF TypeInv
<1>2. SameRecords /\ StaysLive(t)
  BY DEF SameRecords, StaysLive
<1>3. PICK c, o : c = Lookup(o).cur /\ o = th[t].obj
  OBVIOUS
<1>4. c = Nil \/ c \in Entries(o)
  BY <1>1, <1>3, LookupIn
<1>5. cell' = IF c # Nil /\ cell[c].type = from THEN [cell EXCEPT ![c].type = "MODIFIED"] ELSE cell
  BY <1>3 DEF FlagSet
<1>6. CASE cell' = cell
  BY <1>2, <1>6 DEF SameCells
<1>7. CASE c # Nil /\ cell' = [cell EXCEPT ![c].type = "MODIFIED"]
  <2>1. Marks(t, c)
    BY <1>3, <1>4, <1>7 DEF Marks
  <2>2. \A d \in Cells : /\ cell'[d].name = cell[d].name /\ cell'[d].obj = cell[d].obj
                         /\ d # c => cell'[d].type = cell[d].type
                         /\ d = c => cell'[d].type = "MODIFIED"
    BY <1>1, <1>7 DEF ListType
  <2> QED BY <1>2, <2>1, <2>2 DEF SameCells
<1> QED BY <1>5, <1>6, <1>7

LEMMA LogNodes ==
  ASSUME TypeInv, NEW t \in Threads, NEW c \in Cells \ live, live' = live \cup {c}, UNCHANGED record,
         NEW x, cell' = [cell EXCEPT ![c] = x]
  PROVE  SameCells(t) /\ SameRecords /\ StaysLive(t)
BY DEF TypeInv, ListType, SameCells, SameRecords, StaysLive

LEMMA SameNodes ==
  ASSUME NEW t, UNCHANGED <<cell, live, record>>
  PROVE  SameCells(t) /\ SameRecords /\ StaysLive(t)
BY DEF SameCells, SameRecords, StaysLive

LEMMA LinkNodes ==
  ASSUME TypeInv, NEW t \in Threads, NEW x \in Cells, NEW y, cell' = [cell EXCEPT ![x].next = y], UNCHANGED <<live, record>>
  PROVE  SameCells(t) /\ SameRecords /\ StaysLive(t)
BY DEF TypeInv, ListType, SameCells, SameRecords, StaysLive

LEMMA NodesStep ==
  ASSUME TypeInv, HashInv, NEW t \in Threads, Thread(t), ~corrupt', ~Clears(t)
  PROVE  SameCells(t) /\ SameRecords /\ StaysLive(t)
<1>i. ThreadType /\ ListType
  BY DEF TypeInv
<1>1. CASE Begins(t)
  <2>1. UNCHANGED lists
    BY <1>1 DEF Begins, Begin
  <2> QED BY <2>1, SameNodes DEF lists
<1>2. CASE GetFullPath(t)
  <2>1. PICK x : x = [next |-> Nil, obj |-> th[t].obj, name |-> file[th[t].obj].opened, type |-> "NORMAL"]
    OBVIOUS
  <2>2. \/ UNCHANGED lists
        \/ \E c \in Cells \ live : /\ live' = live \cup {c} /\ UNCHANGED <<head, first, record>>
                                   /\ cell' = [cell EXCEPT ![c] = x]
    BY <1>2, <2>1, LookupFields
  <2>3. UNCHANGED <<cell, live, record>>
        \/ \E c \in Cells \ live : /\ live' = live \cup {c} /\ UNCHANGED record
                                   /\ cell' = [cell EXCEPT ![c] = x]
    BY <2>2 DEF lists
  <2> QED BY <2>3, SameNodes, LogNodes
<1>3. CASE ParseReName(t)
  <2>1. PICK x : x = [next |-> Nil, obj |-> th[t].obj, name |-> th[t].to, type |-> "RENAME"]
    OBVIOUS
  <2>2. \/ UNCHANGED lists
        \/ \E c \in Cells \ live : /\ live' = live \cup {c} /\ UNCHANGED <<head, first, record>>
                                   /\ cell' = [cell EXCEPT ![c] = x]
    BY <1>3, <2>1, ParseFields
  <2>3. UNCHANGED <<cell, live, record>>
        \/ \E c \in Cells \ live : /\ live' = live \cup {c} /\ UNCHANGED record
                                   /\ cell' = [cell EXCEPT ![c] = x]
    BY <2>2 DEF lists
  <2> QED BY <2>3, SameNodes, LogNodes
<1>4. CASE LogHash(t)
  <2>1. /\ th[t].cur \in Cells /\ cell' = [cell EXCEPT ![th[t].cur].next = head]
        /\ UNCHANGED <<live, record>>
    BY <1>4, LinkFields
  <2> QED BY <2>1, LinkNodes
<1>5. CASE Push(t)
  BY <1>5, SameNodes DEF Push
<1>6. CASE MarkWritten(t)
  <2>1. FlagSet(th[t].obj, "NORMAL") /\ th[t].pc = "setflag" /\ UNCHANGED <<live, record>>
    BY <1>6, MarkFields
  <2> QED BY <2>1, FlagNodes
<1>7. CASE Find(t)
  BY <1>7, SameNodes DEF Find, lists
<1>8. CASE Unlink(t)
  <2>1. th[t].prev \in Cells \cup {Nil} /\ UNCHANGED <<live, record>>
    BY <1>i, <1>8 DEF Unlink, ThreadType, Sound
  <2>2. CASE UNCHANGED cell
    BY <2>1, <2>2, SameNodes
  <2>3. CASE th[t].prev \in Cells /\ \E y : cell' = [cell EXCEPT ![th[t].prev].next = y]
    BY <2>1, <2>3, LinkNodes
  <2> QED BY <1>8, <2>1, <2>2, <2>3 DEF Unlink
<1>9. CASE AddConvertRecord(t)
  <2>1. /\ UNCHANGED cell /\ live \subseteq live'
        /\ \A r \in Records \cap live : /\ record'[r].name = record[r].name
                                        /\ record[r].type = "MODIFIED" => record'[r].type = "MODIFIED"
    BY <1>9, RecordFields
  <2> QED BY <2>1 DEF SameCells, SameRecords, StaysLive
<1>10. CASE Append(t)
  <2>1. /\ UNCHANGED <<cell, live>>
        /\ \A r \in Records : record'[r].name = record[r].name /\ record'[r].type = record[r].type
    BY <1>10, AppendFields
  <2> QED BY <2>1 DEF SameCells, SameRecords, StaysLive
<1>11. CASE Free(t)
  <2>1. /\ th[t].pc = "free" /\ th[t].cur \in Cells
        /\ live' = live \ {th[t].cur} /\ cell' = [cell EXCEPT ![th[t].cur] = FreeCell]
        /\ UNCHANGED record
    BY <1>11, FreeFields
  <2>2. \A c \in Cells \cap live' : cell'[c] = cell[c]
    BY <1>i, <2>1 DEF ListType
  <2> QED BY <2>1, <2>2, FSMonAssumption DEF SameCells, SameRecords, StaysLive
<1>12. CASE LowerCreate(t) \/ LowerOther(t)
  BY <1>12, SameNodes DEF LowerCreate, LowerOther, lists
<1>13. CASE LowerRename(t)
  <2>1. /\ th[t].pc = "lower" /\ th[t].call = "rename" /\ UNCHANGED <<live, record>>
        /\ FlagSet(th[t].obj, "RENAME") \/ UNCHANGED cell
    BY <1>13, LowerRenameFields
  <2> QED BY <2>1, SameNodes, FlagNodes
<1> QED BY <1>1, <1>2, <1>3, <1>4, <1>5, <1>6, <1>7, <1>8, <1>9, <1>10, <1>11, <1>12, <1>13
     DEF Thread, Begins, Clears

-----------------------------------------------------------------------------
(* Modified files are tracked.                                             *)

\* The monitor makes a file's name of an object, and its modification is not excused.
Known(o) == file[o].opened \in Names \ excused

\* A cleanup or a rename excuses the files of the other calls on its object.
Lone ==
  \A t, u \in Threads :
    t # u /\ InCall(t) /\ InCall(u) /\ th[t].obj = th[u].obj /\ th[t].call \in {"cleanup", "rename"}
      => {file[th[t].obj].opened, th[t].to, th[u].to} \subseteq excused

\* Only these calls take entries out, a rename when it has been done.
Takes(t) ==
  th[t].pc \in {"find", "unlink", "record", "append", "free"} =>
    /\ th[t].call \in {"create", "cleanup", "close", "rename"}
    /\ th[t].call = "rename" => th[t].done

\* What a new entry says.
Made(t) ==
  th[t].pc \in {"log", "push"} =>
    IF th[t].call = "rename"
    THEN cell[th[t].cur].name = th[t].to /\ cell[th[t].cur].type = "RENAME"
    ELSE cell[th[t].cur].name = file[th[t].obj].opened /\ cell[th[t].cur].type = "NORMAL"

\* An entry says what its object was opened by, or is the first one of a rename.
Normal(c) == cell[c].name = file[cell[c].obj].opened /\ cell[c].type # "RENAME"
Renames(t, c) ==
  /\ th[t].call = "rename" /\ th[t].obj = cell[c].obj /\ th[t].pc \in {"lower", "find", "unlink"}
  /\ Lookup(th[t].obj).cur = c
  /\ th[t].pc = "unlink" => th[t].cur = c
Says(c) == Known(cell[c].obj) => Normal(c) \/ \E t \in Threads : Renames(t, c)

\* A write has an entry to mark, and has marked it when it goes down.
Written(t) ==
  th[t].call \in {"write", "fastwrite"} /\ Known(th[t].obj) =>
    /\ th[t].pc = "setflag" => Entries(th[t].obj) # {}
    /\ th[t].pc = "lower" /\ th[t].seen =>
         \E c \in Entries(th[t].obj) : cell[c].type = "MODIFIED" /\ cell[c].name = file[th[t].obj].opened

\* The entry of the target is the one that a rename marks.
Renamed(t) ==
  th[t].call = "rename" /\ th[t].pc = "lower" /\ th[t].seen /\ th[t].to \notin excused =>
    /\ Lookup(th[t].obj).cur \in Entries(th[t].obj)
    /\ cell[Lookup(th[t].obj).cur].type = "RENAME" /\ cell[Lookup(th[t].obj).cur].name = th[t].to

\* The encrypting program has fetched a record that says MODIFIED.
Fetched(n) == agent.pc = "encrypt" /\ agent.name = n /\ agent.type = "MODIFIED"

\* An entry that no thread has put into a record yet, a record, or a fast write
\* on its way to the entry.
Gone(c) == \E t \in Threads : th[t].pc \in {"append", "free"} /\ th[t].cur = c
Marked(n) ==
  \/ \E c \in Cells \cap live : cell[c].name = n /\ cell[c].type = "MODIFIED" /\ ~Gone(c)
  \/ \E r \in Records \cap live : record[r].name = n /\ record[r].type = "MODIFIED"
  \/ \E t \in Threads : InCall(t) /\ th[t].call = "fastwrite" /\ file[th[t].obj].opened = n /\ Monitored(n)
  \/ Fetched(n)

Cleared == \A t \in Threads : th[t].pc \in ClearLabels => Names \subseteq excused

Tracking ==
  /\ Cleared /\ Lone
  /\ \A t \in Threads : Takes(t) /\ Made(t) /\ Written(t) /\ Renamed(t)
  /\ \A c \in InChain : Says(c)
  /\ \A n \in dirty \ excused : Marked(n)

\* What is known of a step that keeps lists and objects in order.
Safely(t) ==
  /\ TypeInv /\ HashInv /\ ObjInv /\ TypeInv' /\ HashInv' /\ ObjInv'
  /\ Thread(t) /\ ~corrupt' /\ ~overlapped'
  /\ Common(t) /\ Comes(t)
  /\ \A u \in Threads \ {t} : th'[u] = th[u]

\* An object in use has a name, and keeps the one it was opened by.
LEMMA OpenedKept ==
  ASSUME NEW t \in Threads, Safely(t)
  PROVE  /\ \A u \in Threads : InCall(u) => th[u].obj \in Objects /\ file[th[u].obj].state # "free"
         /\ \A u \in Threads : InCall(u)' => /\ th'[u].obj \in Objects /\ file'[th'[u].obj].state # "free"
                                             /\ file'[th'[u].obj].opened \in Names \cup {Nil}
         /\ \A u \in Threads \ {t} : InCall(u) =>
              /\ InCall(u)' /\ file'[th[u].obj].opened = file[th[u].obj].opened
              /\ Known(th[u].obj)' => Known(th[u].obj)
         /\ InCall(t) /\ Same(t) /\ th'[t].pc # "idle" =>
              /\ InCall(t)' /\ file'[th[t].obj].opened = file[th[t].obj].opened
              /\ Known(th[t].obj)' => Known(th[t].obj)
         /\ \A c \in InChain \cap InChain' :
              /\ cell'[c].obj = cell[c].obj /\ file'[cell[c].obj].opened = file[cell[c].obj].opened
              /\ Known(cell[c].obj)' => Known(cell[c].obj)
         /\ \A c \in InChain' : cell'[c].obj \in Objects /\ file'[cell'[c].obj].opened \in Names \cup {Nil}
<1>1. \A u \in Threads : InCall(u) => th[u].obj \in Objects /\ file[th[u].obj].state # "free"
  <2> SUFFICES ASSUME NEW u \in Threads, InCall(u) PROVE th[u].obj \in Objects /\ file[th[u].obj].state # "free"
    OBVIOUS
  <2>1. th[u].obj \in Objects
    BY DEF Safely, TypeInv, ThreadType, Sound, InCall
  <2>2. file[th[u].obj].state \in States(th[u].call)
    BY DEF Safely, TypeInv, FileInv
  <2> QED BY <2>1, <2>2 DEF States
<1>2. \A u \in Threads : InCall(u)' => /\ th'[u].obj \in Objects /\ file'[th'[u].obj].state # "free"
                                       /\ file'[th'[u].obj].opened \in Names \cup {Nil}
  <2> SUFFICES ASSUME NEW u \in Threads, InCall(u)'
               PROVE  /\ th'[u].obj \in Objects /\ file'[th'[u].obj].state # "free"
                      /\ file'[th'[u].obj].opened \in Names \cup {Nil}
    OBVIOUS
  <2>1. th'[u].obj \in Objects
    BY DEF Safely, TypeInv, ThreadType, Sound, InCall
  <2>2. file'[th'[u].obj].state \in States(th'[u].call)
    BY DEF Safely, TypeInv, FileInv, States
  <2>3. file'[th'[u].obj].state # "free"
    BY <2>2 DEF States
  <2> QED BY <2>1, <2>3 DEF Safely, TypeInv, FileInv
<1>3. \A o \in Objects : file[o].state # "free" /\ file'[o].state # "free" =>
        file'[o].opened = file[o].opened /\ (Known(o)' => Known(o))
  BY DEF Safely, Common, Known
<1>4. \A u \in Threads \ {t} : InCall(u) => InCall(u)' /\ th'[u].obj = th[u].obj
  BY DEF Safely, InCall
<1>5. InCall(t) /\ Same(t) /\ th'[t].pc # "idle" => InCall(t)' /\ th'[t].obj = th[t].obj
  BY DEF InCall, Same
<1>6. \A c \in InChain : cell[c].obj \in Objects /\ file[cell[c].obj].state # "free" /\ c \in Cells /\ c \in live
  <2> SUFFICES ASSUME NEW c \in InChain
               PROVE  cell[c].obj \in Objects /\ file[cell[c].obj].state # "free" /\ c \in Cells /\ c \in live
    OBVIOUS
  <2>1. c \in Cells /\ c \in live /\ cell[c].obj \in Objects
    BY InHand DEF Safely, ObjInv, TypeInv
  <2>2. c \in Entries(cell[c].obj)
    BY DEF Entries
  <2> QED BY <2>1, <2>2 DEF Safely, ObjInv
<1>7. \A c \in InChain' : /\ cell'[c].obj \in Objects /\ file'[cell'[c].obj].state # "free" /\ c \in live'
                          /\ file'[cell'[c].obj].opened \in Names \cup {Nil}
  <2> SUFFICES ASSUME NEW c \in InChain'
               PROVE  /\ cell'[c].obj \in Objects /\ file'[cell'[c].obj].state # "free" /\ c \in live'
                      /\ file'[cell'[c].obj].opened \in Names \cup {Nil}
    OBVIOUS
  <2>1. c \in live' /\ cell'[c].obj \in Objects
    BY InHandNext DEF Safely, ObjInv
  <2>2. c \in Entries(cell[c].obj)'
    BY DEF Entries
  <2>3. \A o \in Objects : file'[o].state = "free" => Entries(o)' = {}
    BY DEF Safely, ObjInv
  <2>4. file'[cell'[c].obj].state # "free"
    <3>1. PICK o : o = cell'[c].obj
      OBVIOUS
    <3>2. c \in Entries(o)'
      BY <3>1 DEF Entries
    <3> QED BY <2>1, <2>3, <3>1, <3>2
  <2> QED BY <2>1, <2>4 DEF Safely, TypeInv, FileInv
<1>8. \A c \in InChain \cap InChain' : cell'[c].obj = cell[c].obj
  BY <1>6, <1>7, CellObj DEF SameObjects, Safely
<1>9. \A c \in InChain \cap InChain' :
              /\ file'[cell[c].obj].opened = file[cell[c].obj].opened
              /\ Known(cell[c].obj)' => Known(cell[c].obj)
  <2> SUFFICES ASSUME NEW c \in InChain \cap InChain'
               PROVE  /\ file'[cell[c].obj].opened = file[cell[c].obj].opened
                      /\ Known(cell[c].obj)' => Known(cell[c].obj)
    OBVIOUS
  <2>1. PICK o : o = cell[c].obj
    OBVIOUS
  <2>2. o \in Objects /\ file[o].state # "free" /\ file'[o].state # "free" /\ cell'[c].obj = o
    BY <1>6, <1>7, <1>8, <2>1
  <2>3. file'[o].opened = file[o].opened /\ (Known(o)' => Known(o))
    BY <1>3, <2>2
  <2> QED BY <2>1, <2>2, <2>3 DEF Known
<1>10. \A u \in Threads \ {t} : InCall(u) =>
              /\ InCall(u)' /\ file'[th[u].obj].opened = file[th[u].obj].opened
              /\ Known(th[u].obj)' => Known(th[u].obj)
  <2> SUFFICES ASSUME NEW u \in Threads \ {t}, InCall(u)
               PROVE  /\ InCall(u)' /\ file'[th[u].obj].opened = file[th[u].obj].opened
                      /\ Known(th[u].obj)' => Known(th[u].obj)
    OBVIOUS
  <2>1. PICK o : o = th[u].obj
    OBVIOUS
  <2>2. th'[u].obj = o /\ InCall(u)'
    BY <1>4, <2>1
  <2>3. file'[o].opened = file[o].opened /\ (Known(o)' => Known(o))
    BY <1>1, <1>2, <1>3, <2>1, <2>2
  <2> QED BY <2>1, <2>2, <2>3 DEF Known
<1>11. InCall(t) /\ Same(t) /\ th'[t].pc # "idle" =>
              /\ InCall(t)' /\ file'[th[t].obj].opened = file[th[t].obj].opened
              /\ Known(th[t].obj)' => Known(th[t].obj)
  <2> SUFFICES ASSUME InCall(t), Same(t), th'[t].pc # "idle"
               PROVE  /\ InCall(t)' /\ file'[th[t].obj].opened = file[th[t].obj].opened
                      /\ Known(th[t].obj)' => Known(th[t].obj)
    OBVIOUS
  <2>1. PICK o : o = th[t].obj
    OBVIOUS
  <2>2. th'[t].obj = o /\ InCall(t)'
    BY <1>5, <2>1
  <2>3. file'[o].opened = file[o].opened /\ (Known(o)' => Known(o))
    BY <1>1, <1>2, <1>3, <2>1, <2>2
  <2> QED BY <2>1, <2>2, <2>3 DEF Known
<1> QED BY <1>1, <1>2, <1>7, <1>8, <1>9, <1>10, <1>11

LEMMA RivalsIn ==
  ASSUME NEW call, NEW o, NEW to, NEW v \in Threads, th[v].pc # "idle", th[v].obj = o,
         call \in {"cleanup", "rename"} \/ th[v].call \in {"cleanup", "rename"}
  PROVE  {file[o].opened, to, th[v].to} \subseteq Rivals(call, o, to)
<1>1. PICK with : with = {t \in Busy(o) : {call, th[t].call} \cap {"cleanup", "rename"} # {}}
  OBVIOUS
<1>2. v \in with
  BY <1>1 DEF Busy
<1>3. Rivals(call, o, to) = {file[o].opened, to} \cup {th[t].to : t \in with}
  BY <1>1, <1>2 DEF Rivals
<1> QED BY <1>2, <1>3

\* Calls on one object have excused each other's files when the later one began.
LEMMA LoneStep ==
  ASSUME NEW t \in Threads, Safely(t), Lone
  PROVE  Lone'
<1> SUFFICES ASSUME NEW u \in Threads, NEW v \in Threads, u # v, InCall(u)', InCall(v)',
                    th'[u].obj = th'[v].obj, th'[u].call \in {"cleanup", "rename"}
             PROVE  {file'[th'[u].obj].opened, th'[u].to, th'[v].to} \subseteq excused'
  BY DEF Lone
<1>1. excused \subseteq excused'
  BY DEF Safely, Common
<1>2. ASSUME NEW w \in Threads, InCall(w)', ~(w = t /\ Begins(t))
      PROVE  /\ InCall(w) /\ th'[w].call = th[w].call /\ th'[w].obj = th[w].obj /\ th'[w].to = th[w].to
             /\ file'[th[w].obj].opened = file[th[w].obj].opened
  <2>1. CASE w # t
    <3>1. InCall(w) /\ th'[w] = th[w]
      BY <1>2, <2>1 DEF Safely, InCall
    <3> QED BY <2>1, <3>1, OpenedKept
  <2>2. CASE w = t
    <3>1. ~Clears(t)
      <4>1. CASE Clears(t)
        <5>1. th'[t].pc = "idle" \/ th'[t].pc \in ClearLabels
          BY <4>1, ClearFields DEF Safely, Clears
        <5>2. th'[t].pc = "idle" \/ th'[t].call = "clear"
          BY <5>1 DEF Safely, TypeInv, ThreadType, Sound
        <5> QED BY <1>2, <2>2, <5>2 DEF InCall
      <4> QED BY <4>1
    <3>2. th'[t].pc # "idle"
      BY <1>2, <2>2 DEF InCall
    <3>3. InCall(t) /\ Same(t)
      BY <1>2, <2>2, <3>1, <3>2 DEF Safely, Common
    <3> QED BY <2>2, <3>2, <3>3, OpenedKept DEF Same
  <2> QED BY <2>1, <2>2
<1>3. ASSUME NEW call, NEW o, NEW to, Rivals(call, o, to) \subseteq excused',
             th'[t].call = call, th'[t].obj = o, th'[t].to = to,
             NEW w \in Threads, w # t, InCall(w)', th'[w].obj = o,
             call \in {"cleanup", "rename"} \/ th'[w].call \in {"cleanup", "rename"}
      PROVE  {file'[o].opened, to, th'[w].to} \subseteq excused'
  <2>1. /\ InCall(w) /\ th'[w].call = th[w].call /\ th[w].obj = o /\ th'[w].to = th[w].to
        /\ file'[o].opened = file[o].opened
    BY <1>2, <1>3
  <2>2. th[w].pc # "idle"
    BY <2>1 DEF InCall
  <2>3. {file[o].opened, to, th[w].to} \subseteq Rivals(call, o, to)
    BY <1>3, <2>1, <2>2, RivalsIn
  <2> QED BY <1>3, <2>1, <2>3
<1>4. CASE Begins(t) /\ t \in {u, v}
  <2>1. PICK call \in Calls, o \in Objects, to \in Names \cup {Nil}, excl \in BOOLEAN :
               Begin(t, call, o, to, excl)
    BY <1>4 DEF Begins
  <2>2. th'[t].pc # "idle"
    BY <1>4 DEF InCall
  <2>0. TypeInv
    BY DEF Safely
  <2>3. Begun(t, call, o, to)
    BY <2>0, <2>1, BeginFields
  <2>4. /\ th'[t].call = call /\ th'[t].obj = o /\ th'[t].to = to
        /\ Rivals(call, o, to) \subseteq excused'
    BY <2>2, <2>3 DEF Begun
  <2>5. CASE u = t
    BY <1>3, <2>4, <2>5
  <2>6. CASE v = t
    BY <1>3, <2>4, <2>6
  <2> QED BY <1>4, <2>5, <2>6
<1>5. CASE ~(Begins(t) /\ t \in {u, v})
  <2>1. /\ InCall(u) /\ th'[u].call = th[u].call /\ th'[u].obj = th[u].obj /\ th'[u].to = th[u].to
        /\ file'[th[u].obj].opened = file[th[u].obj].opened
    BY <1>2, <1>5
  <2>2. InCall(v) /\ th'[v].obj = th[v].obj /\ th'[v].to = th[v].to
    BY <1>2, <1>5
  <2>3. {file[th[u].obj].opened, th[u].to, th[v].to} \subseteq excused
    BY <2>1, <2>2 DEF Lone
  <2> QED BY <1>1, <2>1, <2>2, <2>3
<1> QED BY <1>4, <1>5

LEMMA ClearedStep ==
  ASSUME NEW t \in Threads, Safely(t), Cleared
  PROVE  Cleared' /\ (Clears(t) => Names \subseteq excused')
<1>1. excused \subseteq excused'
  BY DEF Safely, Common
<1>2. Clears(t) => Names \subseteq excused'
  <2>1. Clears(t) => th[t].pc \in ClearLabels \/ Names \subseteq excused'
    BY ClearFields DEF Safely, Clears
  <2> QED BY <1>1, <2>1 DEF Cleared
<1>3. ASSUME NEW u \in Threads, th'[u].pc \in ClearLabels PROVE Names \subseteq excused'
  <2>1. CASE u # t
    <3>1. th'[u] = th[u]
      BY <2>1 DEF Safely
    <3> QED BY <1>1, <1>3, <3>1 DEF Cleared
  <2>2. CASE u = t
    <3>1. ~Begins(t)
      <4>1. CASE Begins(t)
        <5>1. th'[t].pc \in {"idle", "parse", "lookup", "find", "lower"}
          BY <4>1, BeginPc DEF Begins, Safely, TypeInv
        <5> QED BY <1>3, <2>2, <5>1 DEF ClearLabels
      <4> QED BY <4>1
    <3>2. ~(InCall(t) /\ Same(t))
      <4>1. th'[t].call = "clear"
        BY <1>3, <2>2 DEF Safely, TypeInv, ThreadType, Sound
      <4> QED BY <4>1 DEF InCall, Same
    <3>3. th'[t].pc # "idle"
      BY <1>3, <2>2 DEF ClearLabels
    <3> QED BY <1>2, <3>1, <3>2, <3>3 DEF Safely, Common
  <2> QED BY <2>1, <2>2
<1> QED BY <1>2, <1>3 DEF Cleared

LEMMA TakesStep ==
  ASSUME NEW t \in Threads, Safely(t), \A u \in Threads : Takes(u)
  PROVE  \A u \in Threads : Takes(u)'
<1>i. TypeInv /\ HashInv /\ ~corrupt' /\ Comes(t)
  BY DEF Safely
<1>1. \A u \in Threads \ {t} : Takes(u)'
  BY DEF Safely, Takes
<1>2. Takes(t)'
  <2>f. CASE th'[t].pc = "find"
    <3>1. CASE Begins(t)
      <4>1. PICK call \in Calls, o \in Objects, to \in Names \cup {Nil}, excl \in BOOLEAN :
                   Begin(t, call, o, to, excl)
        BY <3>1 DEF Begins
      <4>2. Begun(t, call, o, to)
        BY <1>i, <4>1, BeginFields
      <4> QED BY <2>f, <4>2 DEF Begun, Takes
    <3>2. CASE GetFullPath(t)
      <4>1. /\ th[t].call \in {"create", "write", "fastwrite", "cleanup", "close"}
            /\ th'[t].pc \in {Named(th[t].call), Unnamed(th[t].call), "log"}
            /\ th'[t].pc # "idle" => Same(t)
        BY <1>i, <3>2, LookupFields
      <4>2. th[t].call \in {"create", "cleanup", "close"}
        BY <2>f, <4>1, CallNames
      <4> QED BY <2>f, <4>1, <4>2 DEF Takes, Same
    <3>3. CASE Push(t)
      <4>1. /\ Same(t) /\ th[t].call \in {"create", "write", "fastwrite", "cleanup", "close", "rename"}
            /\ th'[t].pc = IF th[t].call = "rename" THEN "lower" ELSE Named(th[t].call)
        BY <1>i, <3>3, PushFields
      <4>2. th[t].call \in {"cleanup", "close"}
        BY <2>f, <4>1, CallNames
      <4> QED BY <4>1, <4>2 DEF Takes, Same
    <3>4. CASE LowerCreate(t)
      <4>1. th[t].call = "create" /\ (th'[t].pc = "idle" \/ Done(t))
        BY <1>i, <3>4, LowerCreateFields
      <4> QED BY <2>f, <4>1 DEF Takes, Done, Same
    <3>5. CASE LowerRename(t)
      <4>1. th[t].call = "rename" /\ Done(t)
        BY <1>i, <3>5, LowerRenameFields
      <4> QED BY <4>1 DEF Takes, Done, Same
    <3> QED BY <1>i, <2>f, <3>1, <3>2, <3>3, <3>4, <3>5 DEF Comes
  <2>g. ASSUME th[t].pc \in {"find", "unlink", "record", "append"}, Same(t), th'[t].done = th[t].done
        PROVE  Takes(t)'
    BY <2>g DEF Takes, Same
  <2>u. CASE th'[t].pc = "unlink"
    <3>1. Find(t)
      BY <1>i, <2>u DEF Comes
    <3>2. th[t].pc = "find" /\ Same(t) /\ th'[t].done = th[t].done
      BY <1>i, <2>u, <3>1, FindFields
    <3> QED BY <2>g, <3>2
  <2>r. CASE th'[t].pc \in {"record", "append", "free"}
    <3>1. Unlink(t) \/ AddConvertRecord(t) \/ Append(t)
      BY <1>i, <2>r DEF Comes
    <3>2. th[t].pc \in {"unlink", "record", "append"} /\ Same(t) /\ th'[t].done = th[t].done
      BY <1>i, <3>1, UnlinkFields, RecordFields, AppendFields
    <3> QED BY <2>g, <3>2
  <2> QED BY <2>f, <2>u, <2>r DEF Takes
<1> QED BY <1>1, <1>2

\* What a thread owns is not in the chain, and stays as it is in others' steps.
LEMMA HeldKept ==
  ASSUME NEW t \in Threads, Safely(t), NEW u \in Threads \ {t}, th[u].pc \in {"log", "push"}
  PROVE  cell'[th[u].cur].name = cell[th[u].cur].name /\ cell'[th[u].cur].type = cell[th[u].cur].type
<1>i. TypeInv /\ HashInv /\ ~corrupt' /\ Thread(t) /\ HashInv' /\ th'[u] = th[u] /\ ThreadType
  BY DEF Safely, TypeInv
<1>1. PICK n, s : Place(n, s)
  BY <1>i DEF HashInv
<1>2. PICK c : c = th[u].cur
  OBVIOUS
<1>3. c \in Cells /\ c \in live /\ c \in live'
  BY <1>i, <1>2, InHand, InHandNext
<1>4. c \notin InChain
  <2>1. InChain = {s[i] : i \in 1..n}
    BY <1>1, ChainIs DEF Place
  <2>2. \A i \in 1..n : s[i] # c
    BY <1>i, <1>1, <1>2, Entry DEF Holding
  <2> QED BY <2>1, <2>2
<1>5. CASE ~Clears(t)
  <2>1. SameCells(t)
    BY <1>5, <1>i, NodesStep
  <2>2. ~Marks(t, c)
    BY <1>4 DEF Marks, Entries
  <2> QED BY <1>2, <1>3, <2>1, <2>2 DEF SameCells
<1>6. CASE CleanupCell(t)
  <2>1. th[t].pc = "clearcell" /\ cell' = [cell EXCEPT ![th[t].cur] = FreeCell]
    BY <1>6 DEF CleanupCell
  <2>2. th[t].cur = s[1] /\ 1 \in 1..n
    <3>1. n > 0 /\ th[t].cur = s[1]
      BY <1>1, <2>1 DEF Place, Poised
    <3>2. n \in Nat
      BY <1>i, <1>1, Entry
    <3> QED BY <3>1, <3>2
  <2>3. th[t].cur # c
    BY <1>i, <1>1, <1>2, <2>2, Entry DEF Holding
  <2> QED BY <1>i, <1>2, <1>3, <2>1, <2>3 DEF TypeInv, ListType
<1>7. CASE Clears(t) /\ ~CleanupCell(t)
  <2>1. UNCHANGED cell
    BY <1>7 DEF Clears, ClearState, CleanupHash, CleanupTable, CleanupStore, CleanupRecord, lists
  <2> QED BY <2>1
<1> QED BY <1>5, <1>6, <1>7

LEMMA MadeStep ==
  ASSUME NEW t \in Threads, Safely(t), \A u \in Threads : Made(u)
  PROVE  \A u \in Threads : Made(u)'
<1>i. TypeInv /\ HashInv /\ Comes(t)
  BY DEF Safely
<1>1. ASSUME NEW u \in Threads \ {t}, th'[u].pc \in {"log", "push"} PROVE Made(u)'
  <2>1. th'[u] = th[u] /\ th[u].pc \in {"log", "push"}
    BY <1>1 DEF Safely
  <2>2. InCall(u)
    BY <1>i, <2>1, OnObject DEF TypeInv, ClearLabels
  <2>3. file'[th[u].obj].opened = file[th[u].obj].opened
    BY <2>2, OpenedKept
  <2>4. cell'[th[u].cur].name = cell[th[u].cur].name /\ cell'[th[u].cur].type = cell[th[u].cur].type
    BY <2>1, HeldKept
  <2> QED BY <2>1, <2>3, <2>4 DEF Made
<1>n. ASSUME NEW c \in Cells, NEW x, cell' = [cell EXCEPT ![c] = x] PROVE cell'[c] = x
  BY <1>i, <1>n DEF TypeInv, ListType
<1>2. ASSUME th'[t].pc = "log" PROVE Made(t)'
  <2>1. CASE GetFullPath(t)
    <3>1. /\ th[t].call \in {"create", "write", "fastwrite", "cleanup", "close"} /\ UNCHANGED file /\ Same(t)
          /\ \/ th'[t].pc \in {Named(th[t].call), Unnamed(th[t].call)}
             \/ \E c \in Cells :
                 /\ th'[t].cur = c
                 /\ cell' = [cell EXCEPT ![c] =
                      [next |-> Nil, obj |-> th[t].obj, name |-> file[th[t].obj].opened, type |-> "NORMAL"]]
      BY <1>i, <1>2, <2>1, LookupFields
    <3>2. th'[t].pc \notin {Named(th[t].call), Unnamed(th[t].call)}
      BY <1>2, <3>1, NamedIs, UnnamedIs
    <3>3. cell'[th'[t].cur] = [next |-> Nil, obj |-> th[t].obj, name |-> file[th[t].obj].opened, type |-> "NORMAL"]
      BY <1>n, <3>1, <3>2
    <3>4. cell'[th'[t].cur].name = file'[th'[t].obj].opened /\ cell'[th'[t].cur].type = "NORMAL" /\ th'[t].call # "rename"
      BY <3>1, <3>3 DEF Same
    <3> QED BY <3>4 DEF Made
  <2>2. CASE ParseReName(t)
    <3>1. /\ th[t].call = "rename" /\ Same(t)
          /\ \E c \in Cells :
                 /\ th'[t].cur = c
                 /\ cell' = [cell EXCEPT ![c] =
                      [next |-> Nil, obj |-> th[t].obj, name |-> th[t].to, type |-> "RENAME"]]
      BY <1>i, <1>2, <2>2, ParseFields
    <3>3. cell'[th'[t].cur] = [next |-> Nil, obj |-> th[t].obj, name |-> th[t].to, type |-> "RENAME"]
      BY <1>n, <3>1
    <3>4. cell'[th'[t].cur].name = th'[t].to /\ cell'[th'[t].cur].type = "RENAME" /\ th'[t].call = "rename"
      BY <3>1, <3>3 DEF Same
    <3> QED BY <3>4 DEF Made
  <2> QED BY <1>i, <1>2, <2>1, <2>2 DEF Comes
<1>3. ASSUME th'[t].pc = "push" PROVE Made(t)'
  <2>1. LogHash(t)
    BY <1>i, <1>3 DEF Comes
  <2>2. /\ th[t].pc = "log" /\ Same(t) /\ th[t].cur \in Cells /\ th'[t].cur = th[t].cur
        /\ cell' = [cell EXCEPT ![th[t].cur].next = head] /\ UNCHANGED file
    BY <1>i, <2>1, LinkFields
  <2>3. cell'[th[t].cur].name = cell[th[t].cur].name /\ cell'[th[t].cur].type = cell[th[t].cur].type
    BY <1>i, <2>2 DEF TypeInv, ListType
  <2>4. Made(t)
    OBVIOUS
  <2> QED BY <2>2, <2>3, <2>4 DEF Made, Same
<1>4. Made(t)'
  BY <1>2, <1>3 DEF Made
<1> QED BY <1>1, <1>4 DEF Made

\* The entries that stay in the chain, and what they say.
LEMMA ChainMoves ==
  ASSUME NEW t \in Threads, Safely(t), ~Clears(t)
  PROVE  /\ \A c \in InChain' : \/ c \in InChain /\ (Unlink(t) => c # th[t].cur)
                                \/ Push(t) /\ c = th[t].cur
         /\ \A c \in InChain \cap InChain' :
              /\ cell'[c].name = cell[c].name /\ cell'[c].obj = cell[c].obj
              /\ cell'[c].type = cell[c].type \/ (cell'[c].type = "MODIFIED" /\ Marks(t, c))
         /\ \A o : \A c \in Entries(o) : c \in Entries(o)' \/ (Unlink(t) /\ o = th[t].obj)
         /\ \A o : o # th[t].obj \/ (~Push(t) /\ ~Unlink(t)) => Lookup(o)'.cur = Lookup(o).cur
         /\ \A o : o = th[t].obj /\ Push(t) => Lookup(o)'.cur = th[t].cur
         /\ Push(t) => th[t].cur \in InChain'
<1>i. /\ TypeInv /\ HashInv /\ ObjInv /\ ~corrupt' /\ Thread(t) /\ HashInv' /\ ~overlapped'
      /\ ThreadType /\ ~CleanupCell(t)
  BY DEF Safely, TypeInv, Clears
<1>1. /\ Push(t) => InChain' = InChain \cup {th[t].cur}
      /\ Unlink(t) => InChain' = InChain \ {th[t].cur}
      /\ ~Push(t) /\ ~Unlink(t) => InChain' = InChain
      /\ \A o : o # th[t].obj \/ (~Push(t) /\ ~Unlink(t)) => Lookup(o)'.cur = Lookup(o).cur
      /\ \A o : o = th[t].obj /\ Push(t) => Lookup(o)'.cur = th[t].cur
  BY <1>i, ChainStep
<1>p. Push(t) => ~Unlink(t)
  BY DEF Push, Unlink
<1>2. \A c \in InChain' : \/ c \in InChain /\ (Unlink(t) => c # th[t].cur)
                          \/ Push(t) /\ c = th[t].cur
  BY <1>1, <1>p
<1>3. \A c \in InChain \cap InChain' : c \in Cells \cap live \cap live'
  BY <1>i, InHand, InHandNext
<1>4. SameCells(t)
  BY <1>i, NodesStep
<1>5. \A c \in InChain \cap InChain' :
              /\ cell'[c].name = cell[c].name /\ cell'[c].obj = cell[c].obj
              /\ cell'[c].type = cell[c].type \/ (cell'[c].type = "MODIFIED" /\ Marks(t, c))
  BY <1>3, <1>4 DEF SameCells
<1>6. ASSUME NEW o, NEW c \in Entries(o) PROVE c \in Entries(o)' \/ (Unlink(t) /\ o = th[t].obj)
  <2>0. c \in InChain /\ cell[c].obj = o
    BY <1>6 DEF Entries
  <2>1. CASE c \in InChain'
    BY <1>5, <2>0, <2>1 DEF Entries
  <2>2. CASE c \notin InChain'
    <3>1. Unlink(t) /\ c = th[t].cur
      BY <1>1, <2>0, <2>2
    <3>2. Brings(t) /\ th[t].pc = "unlink"
      BY <1>i, <3>1 DEF ObjInv, Unlink
    <3> QED BY <2>0, <3>1, <3>2 DEF Brings
  <2> QED BY <2>1, <2>2
<1> QED BY <1>1, <1>2, <1>5, <1>6

\* Whoever takes an entry out is alone at its object, or has excused its file.
LEMMA TakerAlone ==
  ASSUME NEW t \in Threads, Safely(t), Lone, Takes(t), Unlink(t),
         NEW u \in Threads \ {t}, InCall(u), th[u].obj = th[t].obj
  PROVE  ~Known(th[u].obj)
<1>1. th[t].pc = "unlink" /\ InCall(t)
  BY UnlinkFields DEF Safely
<1>2. th[t].call \in {"create", "cleanup", "close", "rename"}
  BY <1>1 DEF Takes
<1>3. th[t].call \notin {"create", "close"}
  BY <1>1 DEF Safely, TypeInv, FileInv
<1>4. {file[th[t].obj].opened, th[t].to, th[u].to} \subseteq excused
  BY <1>1, <1>2, <1>3 DEF Lone
<1> QED BY <1>4 DEF Known

\* Entries go on saying what they should.
LEMMA SaysStep ==
  ASSUME NEW t \in Threads, Safely(t), ~Clears(t), Lone,
         \A u \in Threads : Takes(u) /\ Made(u), \A c \in InChain : Says(c)
  PROVE  \A c \in InChain' : Says(c)'
<1> SUFFICES ASSUME NEW c \in InChain', Known(cell[c].obj)'
             PROVE  Normal(c)' \/ \E u \in Threads : Renames(u, c)'
  BY DEF Says
<1>i. /\ TypeInv /\ HashInv /\ ObjInv /\ ~corrupt' /\ Thread(t) /\ Comes(t)
      /\ ThreadType /\ \A u \in Threads \ {t} : th'[u] = th[u]
  BY DEF Safely, TypeInv
<1>1. CASE Push(t) /\ c = th[t].cur
  <2>1. /\ th[t].pc = "push" /\ InCall(t) /\ Same(t) /\ UNCHANGED <<cell, file>>
        /\ th'[t].pc = IF th[t].call = "rename" THEN "lower" ELSE Named(th[t].call)
    BY <1>i, <1>1, PushFields
  <2>2. cell[c].obj = th[t].obj
    BY <1>i, <1>1, <2>1 DEF ObjInv, Brings
  <2>3. Made(t)
    OBVIOUS
  <2>4. CASE th[t].call = "rename"
    <3>1. \A o : o = th[t].obj => Lookup(o)'.cur = c
      BY <1>1, ChainMoves
    <3>2. PICK o : o = th[t].obj
      OBVIOUS
    <3>3. Lookup(o)'.cur = c
      BY <3>1, <3>2
    <3>4. th'[t].obj = o /\ cell'[c].obj = o /\ th'[t].call = "rename" /\ th'[t].pc = "lower"
      BY <2>1, <2>2, <2>4, <3>2 DEF Same
    <3>5. Lookup(th[t].obj)'.cur = c
      BY <3>3, <3>4 DEF Lookup, Stops
    <3>6. Renames(t, c)'
      BY <3>4, <3>5 DEF Renames
    <3> QED BY <3>6
  <2>5. CASE th[t].call # "rename"
    <3>1. cell[c].name = file[th[t].obj].opened /\ cell[c].type = "NORMAL"
      BY <1>1, <2>1, <2>3, <2>5 DEF Made
    <3> QED BY <2>1, <2>2, <3>1 DEF Normal
  <2> QED BY <2>4, <2>5
<1>2. CASE c \in InChain /\ (Unlink(t) => c # th[t].cur)
  <2>1. /\ cell'[c].name = cell[c].name /\ cell'[c].obj = cell[c].obj
        /\ cell'[c].type = cell[c].type \/ (cell'[c].type = "MODIFIED" /\ Marks(t, c))
    BY <1>2, ChainMoves
  <2>2. file'[cell[c].obj].opened = file[cell[c].obj].opened /\ Known(cell[c].obj)
    BY <1>2, OpenedKept
  <2>3. CASE Normal(c)
    BY <2>1, <2>2, <2>3 DEF Normal
  <2>4. ASSUME NEW u \in Threads, Renames(u, c) PROVE Renames(u, c)'
    <3>1. PICK o : o = th[u].obj
      OBVIOUS
    <3>2. /\ th[u].call = "rename" /\ cell[c].obj = o /\ cell'[c].obj = o /\ Lookup(o).cur = c
          /\ th[u].pc \in {"lower", "find", "unlink"} /\ (th[u].pc = "unlink" => th[u].cur = c)
      BY <2>1, <2>4, <3>1 DEF Renames
    <3>3. InCall(u) /\ Known(o)
      BY <2>2, <3>2 DEF InCall
    <3>4. CASE u # t
      <4>1. o # th[t].obj \/ (~Push(t) /\ ~Unlink(t))
        <5> SUFFICES ASSUME o = th[t].obj, Push(t) \/ Unlink(t) PROVE FALSE
          OBVIOUS
        <5>1. InCall(t)
          BY <1>i, PushFields, UnlinkFields
        <5>2. {file[o].opened, th[u].to, th[t].to} \subseteq excused
          BY <3>1, <3>2, <3>3, <3>4, <5>1 DEF Lone
        <5> QED BY <3>3, <5>2 DEF Known
      <4>2. Lookup(o)'.cur = c
        BY <3>2, <4>1, ChainMoves
      <4>3. th'[u] = th[u]
        BY <1>i, <3>4
      <4> QED BY <3>1, <3>2, <4>2, <4>3 DEF Renames, Lookup, Stops
    <3>5. CASE u = t
      <4>1. ~Push(t) /\ ~Unlink(t)
        BY <1>2, <3>2, <3>5 DEF Push, Unlink
      <4>2. Lookup(o)'.cur = c
        BY <3>2, <4>1, ChainMoves
      <4>3. c # Nil
        BY <1>i, <1>2, InHand, FSMonAssumption
      <4>4. CASE th[t].pc = "lower"
        <5>1. LowerRename(t)
          BY <1>i, <3>2, <3>5, <4>4, ThreadGoes DEF Goes, LowerCreate, LowerOther
        <5>2. th'[t].pc = "find" /\ th'[t].call = "rename" /\ th'[t].obj = o
          BY <1>i, <3>1, <3>2, <3>5, <5>1, LowerRenameFields DEF Done, Same
        <5> QED BY <3>2, <3>5, <4>2, <5>2 DEF Renames, Lookup, Stops
      <4>5. CASE th[t].pc = "find"
        <5>1. Find(t)
          BY <1>i, <4>5, ThreadGoes DEF Goes
        <5>2. th'[t].pc = "unlink" /\ Same(t) /\ th'[t].cur = c
          BY <1>i, <3>1, <3>2, <3>5, <4>3, <5>1, FindFields
        <5>3. th'[t].call = "rename" /\ th'[t].obj = o
          BY <3>1, <3>2, <3>5, <5>2 DEF Same
        <5> QED BY <3>2, <3>5, <4>2, <5>2, <5>3 DEF Renames, Lookup, Stops
      <4>6. CASE th[t].pc = "unlink"
        BY <1>i, <4>1, <4>6, ThreadGoes DEF Goes
      <4> QED BY <3>2, <3>5, <4>4, <4>5, <4>6
    <3> QED BY <3>4, <3>5
  <2> QED BY <1>2, <2>2, <2>3, <2>4 DEF Says
<1> QED BY <1>1, <1>2, ChainMoves

\* A write marks an entry of its file.
LEMMA MarkGives ==
  ASSUME NEW t \in Threads, Safely(t), Lone, \A c \in InChain : Says(c), Written(t), MarkWritten(t),
         Known(th[t].obj)
  PROVE  \E c \in Entries(th[t].obj) : cell'[c].name = file[th[t].obj].opened /\ cell'[c].type = "MODIFIED"
<1>i. TypeInv /\ HashInv /\ ListType /\ ThreadType
  BY DEF Safely, TypeInv
<1>1. PICK o, c : o = th[t].obj /\ c = Lookup(o).cur
  OBVIOUS
<1>2. th[t].pc = "setflag" /\ InCall(t) /\ th[t].call \in {"write", "fastwrite"} /\ FlagSet(o, "NORMAL")
  BY <1>i, <1>1, MarkFields
<1>3. Entries(o) # {}
  BY <1>1, <1>2 DEF Written
<1>4. c # Nil /\ c \in Entries(o) /\ c \in InChain
  BY <1>i, <1>1, <1>3, NoneFound, LookupIn
<1>5. cell[c].obj = o /\ Known(cell[c].obj)
  BY <1>1, <1>4 DEF Entries
<1>6. ASSUME NEW u \in Threads, Renames(u, c) PROVE FALSE
  <2>1. th[u].call = "rename" /\ th[u].obj = o /\ InCall(u) /\ u # t
    BY <1>2, <1>5, <1>6 DEF Renames, InCall
  <2>2. {file[o].opened, th[u].to, th[t].to} \subseteq excused
    BY <1>1, <1>2, <2>1 DEF Lone
  <2> QED BY <1>1, <2>2 DEF Known
<1>7. Normal(c)
  BY <1>4, <1>5, <1>6 DEF Says
<1>8. c \in Cells /\ cell[c].type \in Types
  BY <1>i, <1>4, InHand DEF ListType
<1>9. cell[c].name = file[o].opened /\ cell[c].type \in {"NORMAL", "MODIFIED"}
  BY <1>5, <1>7, <1>8 DEF Normal, Types
<1>10. cell' = IF cell[c].type = "NORMAL" THEN [cell EXCEPT ![c].type = "MODIFIED"] ELSE cell
  BY <1>1, <1>2, <1>4 DEF FlagSet
<1>11. cell'[c].name = cell[c].name /\ cell'[c].type = "MODIFIED"
  BY <1>i, <1>8, <1>9, <1>10 DEF ListType
<1> QED BY <1>1, <1>4, <1>9, <1>11

LEMMA WrittenStep ==
  ASSUME NEW t \in Threads, Safely(t), ~Clears(t), Lone, \A u \in Threads : Takes(u) /\ Written(u),
         \A c \in InChain : Says(c)
  PROVE  \A u \in Threads : Written(u)'
<1>i. /\ TypeInv /\ HashInv /\ ListType /\ ThreadType /\ ~corrupt' /\ Thread(t) /\ Comes(t)
      /\ \A u \in Threads \ {t} : th'[u] = th[u]
  BY DEF Safely, TypeInv
<1>e. ASSUME NEW u \in Threads, NEW o, o = th[u].obj, Known(o), InCall(u), u # t \/ ~Unlink(t)
      PROVE  \A c \in Entries(o) : /\ c \in Entries(o)' /\ cell'[c].name = cell[c].name
                                   /\ cell[c].type = "MODIFIED" => cell'[c].type = "MODIFIED"
  <2>1. ~(Unlink(t) /\ o = th[t].obj)
    <3>1. Takes(t)
      OBVIOUS
    <3> QED BY <1>e, <3>1, TakerAlone
  <2>2. \A c \in Entries(o) : c \in Entries(o)' /\ c \in InChain /\ c \in InChain'
    BY <2>1, ChainMoves DEF Entries
  <2> QED BY <2>2, ChainMoves
<1>1. ASSUME NEW u \in Threads \ {t} PROVE Written(u)'
  <2> SUFFICES ASSUME th'[u].call \in {"write", "fastwrite"}, Known(th[u].obj)',
                      th'[u].pc = "setflag" \/ (th'[u].pc = "lower" /\ th'[u].seen)
               PROVE  /\ th'[u].pc = "setflag" => Entries(th[u].obj)' # {}
                      /\ th'[u].pc = "lower" /\ th'[u].seen =>
                           \E c \in Entries(th[u].obj)' :
                             cell'[c].type = "MODIFIED" /\ cell'[c].name = file'[th'[u].obj].opened
    BY DEF Written
  <2>1. PICK o : o = th[u].obj
    OBVIOUS
  <2>2. th'[u] = th[u] /\ InCall(u)
    BY <1>i DEF InCall
  <2>3. Known(o) /\ file'[o].opened = file[o].opened
    BY <2>1, <2>2, OpenedKept DEF Known
  <2>4. \A c \in Entries(o) : /\ c \in Entries(o)' /\ cell'[c].name = cell[c].name
                              /\ cell[c].type = "MODIFIED" => cell'[c].type = "MODIFIED"
    BY <1>e, <2>1, <2>2, <2>3
  <2>5. Entries(th[u].obj)' = Entries(o)'
    BY <2>1, <2>2 DEF Entries
  <2>6. Written(u)
    OBVIOUS
  <2>7. th[u].call \in {"write", "fastwrite"} /\ th[u].obj = o
    BY <2>1, <2>2
  <2>8. CASE th[u].pc = "setflag"
    <3>1. Entries(o) # {}
      BY <2>3, <2>6, <2>7, <2>8 DEF Written
    <3> QED BY <2>2, <2>4, <2>5, <2>8, <3>1
  <2>9. CASE th[u].pc = "lower" /\ th[u].seen
    <3>1. PICK c \in Entries(o) : cell[c].type = "MODIFIED" /\ cell[c].name = file[o].opened
      BY <2>3, <2>6, <2>7, <2>9 DEF Written
    <3>2. c \in Entries(o)' /\ cell'[c].name = file'[th'[u].obj].opened /\ cell'[c].type = "MODIFIED"
      BY <2>1, <2>2, <2>3, <2>4, <3>1
    <3> QED BY <2>2, <2>5, <2>9, <3>2
  <2> QED BY <2>2, <2>8, <2>9
<1>2. ASSUME th'[t].pc = "setflag" PROVE Entries(th[t].obj)' # {}
  <2>1. PICK o : o = th[t].obj
    OBVIOUS
  <2>2. CASE GetFullPath(t)
    <3>0. th[t].pc = "lookup" /\ th[t].call \in {"create", "write", "fastwrite", "cleanup", "close"}
      BY <1>i, <2>2, LookupFields
    <3>1. Lookup(o).cur # Nil /\ Same(t)
      <4>1. th'[t].pc # Unnamed(th[t].call)
        BY <1>2, <3>0, UnnamedIs
      <4> QED BY <1>i, <1>2, <2>1, <2>2, <4>1, LookupFields
    <3>2. Lookup(o).cur \in Entries(o)
      BY <1>i, <3>1, LookupIn
    <3>3. Lookup(o).cur \in Entries(o)'
      BY <3>0, <3>2, ChainMoves DEF Unlink
    <3>4. Entries(th[t].obj)' = Entries(o)'
      BY <2>1, <3>1 DEF Entries, Same
    <3> QED BY <3>3, <3>4
  <2>3. CASE Push(t)
    <3>1. Same(t) /\ UNCHANGED cell /\ th[t].pc = "push"
      BY <1>i, <2>3, PushFields
    <3>2. cell[th[t].cur].obj = o
      BY <2>1, <3>1 DEF Safely, ObjInv, Brings
    <3>3. PICK c : c = th[t].cur
      OBVIOUS
    <3>4. c \in InChain' /\ cell'[c].obj = th'[t].obj
      BY <2>1, <2>3, <3>1, <3>2, <3>3, ChainMoves DEF Same
    <3> QED BY <3>4 DEF Entries
  <2> QED BY <1>i, <1>2, <2>2, <2>3 DEF Comes
<1>3. ASSUME th'[t].call \in {"write", "fastwrite"}, Known(th[t].obj)', th'[t].pc = "lower", th'[t].seen
      PROVE  \E c \in Entries(th[t].obj)' :
               cell'[c].type = "MODIFIED" /\ cell'[c].name = file'[th'[t].obj].opened
  <2>1. CASE MarkWritten(t)
    <3>1. InCall(t) /\ th[t].pc = "setflag" /\ Same(t)
      BY <1>i, <1>3, <2>1, MarkFields
    <3>2. PICK o : o = th[t].obj
      OBVIOUS
    <3>3. Known(o) /\ file'[o].opened = file[o].opened /\ th'[t].obj = o
      BY <1>3, <3>1, <3>2, OpenedKept DEF Same, Known
    <3>4. Written(t)
      OBVIOUS
    <3>5. PICK c \in Entries(o) : cell'[c].name = file[o].opened /\ cell'[c].type = "MODIFIED"
      BY <2>1, <3>2, <3>3, <3>4, MarkGives
    <3>6. c \in Entries(o)'
      BY <3>1, <3>5, ChainMoves DEF Unlink
    <3>7. c \in Entries(th[t].obj)'
      BY <3>3, <3>6 DEF Entries
    <3> QED BY <3>3, <3>5, <3>7
  <2>2. ~Begins(t)
    <3> SUFFICES ASSUME Begins(t) PROVE FALSE
      OBVIOUS
    <3>1. PICK call \in Calls, o \in Objects, to \in Names \cup {Nil}, excl \in BOOLEAN :
                 Begin(t, call, o, to, excl)
      BY DEF Begins
    <3>2. Begun(t, call, o, to)
      BY <1>i, <3>1, BeginFields
    <3> QED BY <1>3, <3>2 DEF Begun
  <2>3. ~GetFullPath(t)
    <3> SUFFICES ASSUME GetFullPath(t) PROVE FALSE
      OBVIOUS
    <3>1. /\ th[t].call \in {"create", "write", "fastwrite", "cleanup", "close"}
          /\ Same(t) /\ (th'[t].pc = Named(th[t].call) \/ th'[t].seen = FALSE)
      BY <1>i, <1>3, LookupFields
    <3>2. th'[t].pc = Named(th[t].call)
      BY <1>3, <3>1
    <3>3. th[t].call \in {"write", "fastwrite"}
      BY <1>i, <1>3, LookupFields DEF Same
    <3> QED BY <1>3, <3>2, <3>3, CallNames
  <2>4. ~ParseReName(t)
    BY <1>i, <1>3, ParseFields
  <2>5. ~Push(t)
    <3> SUFFICES ASSUME Push(t) PROVE FALSE
      OBVIOUS
    <3>1. Same(t) /\ th'[t].pc = IF th[t].call = "rename" THEN "lower" ELSE Named(th[t].call)
      BY <1>i, PushFields
    <3>2. th[t].call \in {"write", "fastwrite"}
      BY <1>3, <3>1 DEF Same
    <3> QED BY <1>3, <3>1, <3>2, CallNames
  <2>6. ~Find(t) /\ ~Free(t)
    <3> SUFFICES ASSUME Find(t) \/ Free(t) PROVE FALSE
      OBVIOUS
    <3>1. Same(t) /\ th[t].pc \in {"find", "free"}
      BY <1>i, <1>3, FindFields, FreeFields DEF Freed
    <3>2. Takes(t)
      OBVIOUS
    <3> QED BY <1>3, <3>1, <3>2 DEF Takes, Same
  <2> QED BY <1>i, <1>3, <2>1, <2>2, <2>3, <2>4, <2>5, <2>6 DEF Comes
<1>4. Written(t)'
  BY <1>2, <1>3 DEF Written
<1> QED BY <1>1, <1>4

LEMMA RenamedStep ==
  ASSUME NEW t \in Threads, Safely(t), ~Clears(t), Lone, \A u \in Threads : Takes(u) /\ Made(u) /\ Renamed(u)
  PROVE  \A u \in Threads : Renamed(u)'
<1>i. /\ TypeInv /\ HashInv /\ ListType /\ ThreadType /\ ~corrupt' /\ Thread(t) /\ Comes(t)
      /\ excused \subseteq excused' /\ \A u \in Threads \ {t} : th'[u] = th[u]
  BY DEF Safely, TypeInv, Common
<1>1. ASSUME NEW u \in Threads \ {t} PROVE Renamed(u)'
  <2> SUFFICES ASSUME th'[u].call = "rename", th'[u].pc = "lower", th'[u].seen, th'[u].to \notin excused'
               PROVE  /\ Lookup(th[u].obj)'.cur \in Entries(th[u].obj)'
                      /\ cell'[Lookup(th[u].obj)'.cur].type = "RENAME"
                      /\ cell'[Lookup(th[u].obj)'.cur].name = th'[u].to
    BY DEF Renamed
  <2>1. PICK o, c : o = th[u].obj /\ c = Lookup(o).cur
    OBVIOUS
  <2>2. th'[u] = th[u] /\ InCall(u) /\ th[u].to \notin excused
    BY <1>i DEF InCall
  <2>3. Renamed(u)
    OBVIOUS
  <2>4. c \in Entries(o) /\ cell[c].type = "RENAME" /\ cell[c].name = th[u].to
    BY <2>1, <2>2, <2>3 DEF Renamed
  <2>5. ~(InCall(t) /\ o = th[t].obj)
    <3> SUFFICES ASSUME InCall(t), o = th[t].obj PROVE FALSE
      OBVIOUS
    <3>1. {file[o].opened, th[u].to, th[t].to} \subseteq excused
      BY <2>1, <2>2 DEF Lone
    <3> QED BY <2>2, <3>1
  <2>6. o # th[t].obj \/ (~Push(t) /\ ~Unlink(t))
    BY <1>i, <2>5, PushFields, UnlinkFields
  <2>7. Lookup(o)'.cur = c
    BY <2>1, <2>6, ChainMoves
  <2>8. c \in Entries(o)' /\ c \in InChain \cap InChain'
    BY <2>4, <2>6, ChainMoves DEF Entries
  <2>9. ~Marks(t, c)
    <3> SUFFICES ASSUME Marks(t, c) PROVE FALSE
      OBVIOUS
    <3>1. th[t].obj = o /\ th[t].pc \in {"setflag", "lower"}
      BY <2>4 DEF Marks, Entries
    <3>2. InCall(t)
      BY <1>i, <3>1, OnObject DEF ClearLabels
    <3> QED BY <2>5, <3>1, <3>2
  <2>10. cell'[c].type = "RENAME" /\ cell'[c].name = th[u].to
    BY <2>4, <2>8, <2>9, ChainMoves
  <2>11. Lookup(th[u].obj)'.cur = c /\ Entries(th[u].obj)' = Entries(o)'
    BY <2>1, <2>2, <2>7 DEF Lookup, Stops, Entries
  <2> QED BY <2>2, <2>8, <2>10, <2>11
<1>2. ASSUME th'[t].call = "rename", th'[t].pc = "lower", th'[t].seen, th'[t].to \notin excused'
      PROVE  /\ Lookup(th[t].obj)'.cur \in Entries(th[t].obj)'
             /\ cell'[Lookup(th[t].obj)'.cur].type = "RENAME"
             /\ cell'[Lookup(th[t].obj)'.cur].name = th'[t].to
  <2>1. CASE Push(t)
    <3>1. Same(t) /\ UNCHANGED cell /\ th[t].pc = "push"
      BY <1>i, <2>1, PushFields
    <3>2. PICK o, c : o = th[t].obj /\ c = th[t].cur
      OBVIOUS
    <3>3. Lookup(o)'.cur = c /\ c \in InChain'
      BY <2>1, <3>2, ChainMoves
    <3>4. cell'[c].obj = o /\ th'[t].obj = o /\ th[t].call = "rename" /\ th'[t].to = th[t].to
      <4>1. Brings(t)
        BY DEF Safely, ObjInv
      <4> QED BY <1>2, <3>1, <3>2, <4>1 DEF Brings, Same
    <3>5. Made(t)
      OBVIOUS
    <3>6. cell'[c].type = "RENAME" /\ cell'[c].name = th'[t].to
      BY <3>1, <3>2, <3>4, <3>5 DEF Made
    <3>7. Lookup(th[t].obj)'.cur = c /\ c \in Entries(th[t].obj)'
      BY <3>3, <3>4 DEF Lookup, Stops, Entries
    <3> QED BY <3>6, <3>7
  <2>2. ~Begins(t)
    <3> SUFFICES ASSUME Begins(t) PROVE FALSE
      OBVIOUS
    <3>1. PICK call \in Calls, o \in Objects, to \in Names \cup {Nil}, excl \in BOOLEAN :
                 Begin(t, call, o, to, excl)
      BY DEF Begins
    <3>2. Begun(t, call, o, to)
      BY <1>i, <3>1, BeginFields
    <3> QED BY <1>2, <3>2 DEF Begun
  <2>3. ~GetFullPath(t) /\ ~MarkWritten(t)
    <3>1. ~GetFullPath(t)
      BY <1>i, <1>2, LookupFields DEF Same
    <3>2. ~MarkWritten(t)
      BY <1>i, <1>2, MarkFields DEF Same
    <3> QED BY <3>1, <3>2
  <2>4. ~ParseReName(t)
    BY <1>i, <1>2, ParseFields
  <2>5. ~Find(t) /\ ~Free(t)
    <3> SUFFICES ASSUME Find(t) \/ Free(t) PROVE FALSE
      OBVIOUS
    <3>1. Same(t) /\ th[t].pc \in {"find", "free"} /\ ~th[t].done
      BY <1>i, <1>2, FindFields, FreeFields DEF Freed
    <3>2. Takes(t)
      OBVIOUS
    <3> QED BY <1>2, <3>1, <3>2 DEF Takes, Same
  <2> QED BY <1>i, <1>2, <2>1, <2>2, <2>3, <2>4, <2>5 DEF Comes
<1>3. Renamed(t)'
  BY <1>2 DEF Renamed
<1> QED BY <1>1, <1>3

\* An entry of the chain is with no thread that frees it.
LEMMA ChainOwn == ThreadType /\ HashInv => \A c \in InChain : ~Gone(c)
<1> SUFFICES ASSUME ThreadType, HashInv, NEW c \in InChain, NEW t \in Threads,
                    th[t].pc \in {"append", "free"}, th[t].cur = c
             PROVE  FALSE
  BY DEF Gone
<1>1. PICK n, s : Place(n, s)
  BY DEF HashInv
<1>2. InChain = {s[i] : i \in 1..n}
  BY <1>1, ChainIs DEF Place
<1>3. \A i \in 1..n : s[i] # th[t].cur
  BY <1>1, Entry DEF Holding
<1> QED BY <1>2, <1>3

LEMMA ChainOwnNext == (ThreadType /\ HashInv => \A c \in InChain : ~Gone(c))'
BY ChainOwn, PTL

\* A marked entry of the chain is a mark.
LEMMA ChainMark ==
  ASSUME NEW t \in Threads, Safely(t), NEW n, NEW c \in InChain', cell'[c].name = n, cell'[c].type = "MODIFIED"
  PROVE  Marked(n)'
<1>1. c \in Cells /\ c \in live'
  BY InHandNext DEF Safely
<1>2. ~Gone(c)'
  BY ChainOwnNext DEF Safely, TypeInv
<1> QED BY <1>1, <1>2 DEF Marked

\* A marked entry becomes a record before it is freed.
LEMMA CellMark ==
  ASSUME NEW t \in Threads, Safely(t), ~Clears(t), NEW n, n \notin excused',
         NEW c \in Cells \cap live, cell[c].name = n, cell[c].type = "MODIFIED", ~Gone(c)
  PROVE  Marked(n)'
<1>i. /\ TypeInv /\ HashInv /\ ~corrupt' /\ Thread(t) /\ Comes(t)
      /\ \A u \in Threads \ {t} : th'[u] = th[u]
  BY DEF Safely
<1>1. SameCells(t) /\ SameRecords /\ StaysLive(t)
  BY <1>i, NodesStep
<1>2. c \in live'
  BY <1>1 DEF StaysLive, Gone
<1>3. cell'[c].name = n /\ cell'[c].type = "MODIFIED"
  BY <1>1, <1>2 DEF SameCells
<1>4. CASE ~Gone(c)'
  BY <1>2, <1>3, <1>4 DEF Marked
<1>5. CASE Gone(c)'
  <2>1. th'[t].pc \in {"append", "free"} /\ th'[t].cur = c
    BY <1>i, <1>5 DEF Gone
  <2>2. ~Append(t)
    BY <1>i, <2>1, AppendFields DEF Gone
  <2>3. ~Unlink(t)
    BY <1>i, <2>1, UnlinkFields
  <2>4. AddConvertRecord(t)
    BY <1>i, <2>1, <2>2, <2>3 DEF Comes
  <2>5. th'[t].cur = th[t].cur
    BY <1>i, <2>4, RecordFields
  <2>6. \/ cell[th[t].cur].name \in excused'
        \/ \E r \in Records \cap live' : /\ record'[r].name = cell[th[t].cur].name
                                         /\ cell[th[t].cur].type = "MODIFIED" => record'[r].type = "MODIFIED"
    BY <1>i, <2>4, RecordFields
  <2>7. \E r \in Records \cap live' : record'[r].name = n /\ record'[r].type = "MODIFIED"
    BY <2>1, <2>5, <2>6
  <2> QED BY <2>7 DEF Marked
<1> QED BY <1>4, <1>5

\* A fast write marks its entry, or its file is not monitored.
LEMMA FastMark ==
  ASSUME NEW t \in Threads, Safely(t), ~Clears(t), Lone, \A u \in Threads : Takes(u) /\ Written(u),
         \A c \in InChain : Says(c), NEW n \in Names, n \notin excused',
         NEW u \in Threads, InCall(u), th[u].call = "fastwrite", file[th[u].obj].opened = n, Monitored(n)
  PROVE  Marked(n)'
<1>i. /\ TypeInv /\ HashInv /\ ThreadType /\ ~corrupt' /\ Thread(t) /\ Common(t) /\ excused \subseteq excused'
      /\ \A v \in Threads \ {t} : th'[v] = th[v]
  BY DEF Safely, TypeInv, Common
<1>1. Monitored(n)'
  BY <1>i DEF Common, settings, Monitored
<1>2. CASE u # t
  <2>1. th'[u] = th[u]
    BY <1>i, <1>2
  <2>2. InCall(u)' /\ file'[th[u].obj].opened = n
    BY <1>2, OpenedKept
  <2> QED BY <1>1, <2>1, <2>2 DEF Marked
<1>3. CASE u = t /\ th'[t].pc # "idle"
  <2>1. ~Begins(t)
    <3>1. Begins(t) => th[t].pc = "idle"
      BY DEF Begins, Begin
    <3>2. th[t].pc # "idle"
      BY <1>3 DEF InCall
    <3> QED BY <3>1, <3>2
  <2>2. Same(t)
    BY <1>i, <1>3, <2>1 DEF Common
  <2>3. InCall(t)' /\ file'[th[t].obj].opened = n
    BY <1>3, <2>2, OpenedKept
  <2> QED BY <1>1, <1>3, <2>2, <2>3 DEF Marked, Same
<1>4. CASE u = t /\ th'[t].pc = "idle"
  <2>1. th[t].pc \in {"lookup", "log", "push", "setflag", "lower"}
    <3>1. th[t] \in Context /\ Sound(th[t])
      BY <1>i DEF ThreadType
    <3>2. th[t].pc \notin {"find", "unlink", "record", "append", "free"}
      <4>1. Takes(t)
        OBVIOUS
      <4> QED BY <1>4, <4>1 DEF Takes
    <3> QED BY <1>4, <3>1, <3>2 DEF Context, Sound, InCall, Labels, CellLabels, ClearLabels
  <2>2. Goes(t)
    BY <1>i, ThreadGoes
  <2>3. th[t].pc # "lower"
    BY <1>4, <2>2 DEF Goes, LowerCreate, LowerRename, LowerOther
  <2>4. th[t].pc # "log"
    BY <1>i, <1>4, <2>2, LinkFields DEF Goes
  <2>5. th[t].pc # "push"
    <3> SUFFICES ASSUME th[t].pc = "push" PROVE FALSE
      OBVIOUS
    <3>1. th'[t].pc = IF th[t].call = "rename" THEN "lower" ELSE Named(th[t].call)
      BY <1>i, <2>2, PushFields DEF Goes
    <3> QED BY <1>4, <3>1, CallNames
  <2>6. th[t].pc # "lookup"
    <3> SUFFICES ASSUME th[t].pc = "lookup" PROVE FALSE
      OBVIOUS
    <3>1. GetFullPath(t)
      BY <2>2 DEF Goes
    <3>2. Named(th[t].call) # "idle"
      BY <1>4, CallNames
    <3>3. \/ excused' = excused \cup {file[th[t].obj].opened}
          \/ excused' = excused /\ ~Monitored(file[th[t].obj].opened)
      BY <1>i, <1>4, <3>1, <3>2, LookupFields
    <3> QED BY <1>4, <3>3
  <2>7. MarkWritten(t) /\ th[t].pc = "setflag"
    BY <2>1, <2>2, <2>3, <2>4, <2>5, <2>6 DEF Goes
  <2>8. Known(th[t].obj) /\ Written(t)
    BY <1>i, <1>4 DEF Known
  <2>9. PICK c \in Entries(th[t].obj) : cell'[c].name = n /\ cell'[c].type = "MODIFIED"
    BY <1>4, <2>7, <2>8, MarkGives
  <2>10. c \in InChain'
    <3>1. PICK o : o = th[t].obj
      OBVIOUS
    <3>2. c \in Entries(o)'
      BY <2>7, <2>9, <3>1, ChainMoves DEF Unlink
    <3> QED BY <3>2 DEF Entries
  <2> QED BY <2>9, <2>10, ChainMark
<1> QED BY <1>2, <1>3, <1>4

\* The files of a step that writes or renames.
LEMMA NewMark ==
  ASSUME NEW t \in Threads, Safely(t), ~Clears(t), Written(t), Renamed(t),
         NEW n \in dirty' \ dirty, n \notin excused'
  PROVE  Marked(n)'
<1>i. /\ TypeInv /\ HashInv /\ ThreadType /\ ListType /\ ~corrupt' /\ Thread(t) /\ Common(t) /\ excused \subseteq excused'
  BY DEF Safely, TypeInv, Common
<1>0. n \notin excused
  BY <1>i
<1>1. CASE Begins(t)
  <2>1. PICK call \in Calls, o \in Objects, to \in Names \cup {Nil}, excl \in BOOLEAN : Begin(t, call, o, to, excl)
    BY <1>1 DEF Begins
  <2>2. Begun(t, call, o, to)
    BY <1>i, <2>1, BeginFields
  <2>3. /\ call = "fastwrite" /\ th'[t].pc # "idle" /\ Monitored(n) /\ n = file[o].opened
        /\ UNCHANGED settings
    BY <2>2 DEF Begun
  <2>4. th'[t].call = "fastwrite" /\ th'[t].obj = o /\ th'[t].pc = "lookup"
    BY <2>2, <2>3 DEF Begun
  <2>5. file' = file
    BY <2>1, <2>3 DEF Begin
  <2>6. InCall(t)'
    BY <2>4 DEF InCall, ClearLabels
  <2>7. Monitored(n)'
    BY <2>3 DEF Monitored, settings
  <2> QED BY <2>3, <2>4, <2>5, <2>6, <2>7 DEF Marked
<1>2. CASE LowerRename(t)
  <2>1. /\ FlagSet(th[t].obj, "RENAME") /\ n = th[t].to /\ th[t].seen
        /\ th[t].pc = "lower" /\ th[t].call = "rename"
    BY <1>i, <1>2, LowerRenameFields
  <2>2. PICK c, o : c = Lookup(o).cur /\ o = th[t].obj
    OBVIOUS
  <2>3. c \in Entries(o) /\ cell[c].type = "RENAME" /\ cell[c].name = n
    BY <1>0, <2>1, <2>2 DEF Renamed
  <2>4. c \in Cells /\ c # Nil
    BY <1>i, <2>3, InHand, FSMonAssumption DEF Entries
  <2>5. cell' = [cell EXCEPT ![c].type = "MODIFIED"]
    BY <2>1, <2>2, <2>3, <2>4 DEF FlagSet
  <2>6. cell'[c].name = n /\ cell'[c].type = "MODIFIED"
    BY <1>i, <2>3, <2>4, <2>5 DEF ListType
  <2>7. ~Unlink(t)
    BY <2>1 DEF Unlink
  <2>8. c \in Entries(o)'
    BY <2>3, <2>7, ChainMoves
  <2>9. c \in InChain'
    BY <2>8 DEF Entries
  <2> QED BY <2>6, <2>9, ChainMark
<1>3. CASE LowerOther(t)
  <2>1. /\ th[t].call = "write" /\ th[t].seen /\ n = file[th[t].obj].opened
        /\ th[t].pc = "lower" /\ UNCHANGED cell
    BY <1>i, <1>3, LowerOtherFields DEF lists
  <2>2. PICK o : o = th[t].obj
    OBVIOUS
  <2>3. PICK c \in Entries(o) : cell[c].type = "MODIFIED" /\ cell[c].name = n
    <3>1. n \in Names
      BY <1>i DEF Safely, TypeInv
    <3> QED BY <1>0, <2>1, <2>2, <3>1 DEF Written, Known
  <2>4. ~Unlink(t)
    BY <2>1 DEF Unlink
  <2>5. c \in Entries(o)'
    BY <2>3, <2>4, ChainMoves
  <2>6. c \in InChain'
    BY <2>5 DEF Entries
  <2> QED BY <2>1, <2>3, <2>6, ChainMark
<1>4. CASE GetFullPath(t) \/ ParseReName(t) \/ LogHash(t) \/ Push(t) \/ MarkWritten(t)
           \/ Find(t) \/ Unlink(t) \/ Append(t) \/ Free(t) \/ LowerCreate(t)
  BY <1>4 DEF GetFullPath, ParseReName, LogHash, Push, MarkWritten, Find, Unlink, Append, Free, LowerCreate
<1>5. CASE AddConvertRecord(t)
  <2>1. UNCHANGED dirty
    BY <1>5, Zenon DEF AddConvertRecord
  <2> QED BY <2>1
<1> QED BY <1>i, <1>1, <1>2, <1>3, <1>4, <1>5 DEF Thread, Begins, Clears

\* The calls of the file system leave the encrypting program alone.
LEMMA ThreadAgent ==
  ASSUME NEW t \in Threads, Thread(t)
  PROVE  UNCHANGED agent
<1>1. ASSUME NEW call \in Calls, NEW o \in Objects, NEW to \in Names \cup {Nil}, NEW excl \in BOOLEAN,
             Begin(t, call, o, to, excl)
      PROVE  UNCHANGED agent
  BY <1>1 DEF Begin
<1>2. CASE GetFullPath(t) \/ ParseReName(t) \/ LogHash(t) \/ Push(t) \/ MarkWritten(t)
  BY <1>2 DEF GetFullPath, ParseReName, LogHash, Push, MarkWritten
<1>3. CASE AddConvertRecord(t)
  BY <1>3, Zenon DEF AddConvertRecord
<1>4. CASE Find(t) \/ Unlink(t) \/ Append(t) \/ Free(t)
  BY <1>4 DEF Find, Unlink, Append, Free
<1>5. CASE LowerCreate(t) \/ LowerRename(t) \/ LowerOther(t) \/ ClearState(t)
  BY <1>5 DEF LowerCreate, LowerRename, LowerOther, ClearState
<1>6. CASE CleanupHash(t) \/ CleanupCell(t) \/ CleanupTable(t) \/ CleanupStore(t) \/ CleanupRecord(t)
  BY <1>6 DEF CleanupHash, CleanupCell, CleanupTable, CleanupStore, CleanupRecord
<1> QED BY <1>1, <1>2, <1>3, <1>4, <1>5, <1>6 DEF Thread

LEMMA MarkedStep ==
  ASSUME NEW t \in Threads, Safely(t), ~Clears(t), Lone, \A u \in Threads : Takes(u) /\ Written(u) /\ Renamed(u),
         \A c \in InChain : Says(c), \A n \in dirty \ excused : Marked(n)
  PROVE  \A n \in dirty' \ excused' : Marked(n)'
<1> SUFFICES ASSUME NEW n \in dirty' \ excused' PROVE Marked(n)'
  OBVIOUS
<1>i. TypeInv /\ HashInv /\ ~corrupt' /\ Thread(t) /\ excused \subseteq excused'
  BY DEF Safely, Common
<1>1. CASE n \notin dirty
  <2>1. Written(t) /\ Renamed(t)
    OBVIOUS
  <2> QED BY <1>1, <2>1, NewMark
<1>2. CASE n \in dirty
  <2>1. Marked(n)
    BY <1>i, <1>2
  <2>2. CASE \E c \in Cells \cap live : cell[c].name = n /\ cell[c].type = "MODIFIED" /\ ~Gone(c)
    BY <2>2, CellMark
  <2>3. CASE \E r \in Records \cap live : record[r].name = n /\ record[r].type = "MODIFIED"
    <3>1. SameRecords
      BY <1>i, NodesStep
    <3>2. \E r \in Records \cap live' : record'[r].name = n /\ record'[r].type = "MODIFIED"
      BY <2>3, <3>1 DEF SameRecords
    <3> QED BY <3>2 DEF Marked
  <2>4. CASE \E u \in Threads : InCall(u) /\ th[u].call = "fastwrite" /\ file[th[u].obj].opened = n /\ Monitored(n)
    <3>1. \A u \in Threads : Takes(u) /\ Written(u)
      OBVIOUS
    <3>2. n \in Names
      BY DEF Safely, TypeInv
    <3> QED BY <2>4, <3>1, <3>2, FastMark
  <2>5. CASE Fetched(n)
    <3>1. UNCHANGED agent
      BY <1>i, ThreadAgent
    <3> QED BY <2>5, <3>1 DEF Marked, Fetched
  <2> QED BY <2>1, <2>2, <2>3, <2>4, <2>5 DEF Marked
<1> QED BY <1>1, <1>2

LEMMA ThreadSafely ==
  ASSUME TypeInv, HashInv, StoreInv, ObjInv, ~corrupt, NEW t \in Threads, Thread(t), ~overlapped', ~duplicated'
  PROVE  Safely(t)
<1>1. TypeInv' /\ \A u \in Threads \ {t} : th'[u] = th[u]
  BY ThreadStep, ThreadLists, ThreadFiles DEF TypeInv
<1>2. HashInv'
  BY ThreadHash
<1>3. ~corrupt'
  BY ThreadSafe
<1>4. ObjInv'
  BY ThreadObj
<1>5. Common(t) /\ Comes(t)
  BY <1>3, ThreadCommon
<1> QED BY <1>1, <1>2, <1>3, <1>4, <1>5 DEF Safely

\* To forget what was modified excuses every file.
LEMMA AllExcused ==
  ASSUME NEW t \in Threads, Safely(t), Names \subseteq excused'
  PROVE  /\ \A u \in Threads : Written(u)' /\ Renamed(u)'
         /\ \A c \in InChain' : Says(c)'
         /\ \A n \in dirty' \ excused' : Marked(n)'
<1>i. TypeInv' /\ ThreadType' /\ ObjInv'
  BY DEF Safely, TypeInv
<1>1. \A u \in Threads : Written(u)'
  <2> SUFFICES ASSUME NEW u \in Threads, InCall(u)' PROVE Known(th[u].obj)' => FALSE
    <3>1. ASSUME NEW u \in Threads, ~InCall(u)' PROVE Written(u)'
      BY <3>1 DEF InCall, Written
    <3>2. ASSUME NEW u \in Threads, ~Known(th[u].obj)' PROVE Written(u)'
      BY <3>2 DEF Written
    <3> QED BY <3>1, <3>2
  <2> QED BY DEF Known
<1>2. \A u \in Threads : Renamed(u)'
  <2> SUFFICES ASSUME NEW u \in Threads, th'[u].call = "rename", th'[u].pc = "lower"
               PROVE  th'[u].to \in excused'
    BY DEF Renamed
  <2>1. th'[u].to \in Names
    BY <1>i DEF ThreadType, Sound, InCall
  <2> QED BY <2>1
<1>3. \A c \in InChain' : Says(c)'
  <2> SUFFICES ASSUME NEW c \in InChain' PROVE Known(cell[c].obj)' => FALSE
    BY DEF Says
  <2> QED BY DEF Known
<1>4. \A n \in dirty' \ excused' : Marked(n)'
  <2>1. dirty' \subseteq Names
    BY <1>i DEF TypeInv
  <2> QED BY <2>1
<1> QED BY <1>1, <1>2, <1>3, <1>4

LEMMA ThreadTrack ==
  ASSUME NEW t \in Threads, Safely(t), Tracking
  PROVE  Tracking'
<1>i. /\ Cleared /\ Lone /\ \A u \in Threads : Takes(u) /\ Made(u) /\ Written(u) /\ Renamed(u)
      /\ \A c \in InChain : Says(c)
      /\ \A n \in dirty \ excused : Marked(n)
  BY DEF Tracking
<1>1. Cleared' /\ Lone' /\ (Clears(t) => Names \subseteq excused')
  BY <1>i, ClearedStep, LoneStep
<1>2. \A u \in Threads : Takes(u)' /\ Made(u)'
  BY <1>i, TakesStep, MadeStep
<1>3. /\ \A u \in Threads : Written(u)' /\ Renamed(u)'
      /\ \A c \in InChain' : Says(c)'
      /\ \A n \in dirty' \ excused' : Marked(n)'
  <2>1. CASE Clears(t)
    BY <1>1, <2>1, AllExcused
  <2>2. CASE ~Clears(t)
    <3>1. \A u \in Threads : Written(u)'
      BY <1>i, <2>2, WrittenStep
    <3>2. \A u \in Threads : Renamed(u)'
      BY <1>i, <2>2, RenamedStep
    <3>3. \A c \in InChain' : Says(c)'
      BY <1>i, <2>2, SaysStep
    <3>4. \A n \in dirty' \ excused' : Marked(n)'
      BY <1>i, <2>2, MarkedStep
    <3> QED BY <3>1, <3>2, <3>3, <3>4
  <2> QED BY <2>1, <2>2
<1> QED BY <1>1, <1>2, <1>3 DEF Tracking

\* What the other steps change.
LEMMA OtherFields ==
  ASSUME TypeInv, HashInv, Other \/ UNCHANGED vars
  PROVE  /\ UNCHANGED <<file, head, cell, th>> /\ excused \subseteq excused'
         /\ (listed => listed')
         /\ \A c \in Cells : c \in live => c \in live'
         /\ dirty' \subseteq dirty
         /\ \A n : Fetched(n) => Fetched(n)' \/ n \notin dirty' \ excused'
         /\ \A n : \A r \in Records : r \in live /\ record[r].name = n /\ record[r].type = "MODIFIED" =>
              Fetched(n)' \/ (r \in live' /\ record'[r] = record[r])
<1>1. CASE Fetch
  <2>1. agent.cur \in Records /\ agent.cur \notin Cells
    BY <1>1, FSMonAssumption DEF TypeInv, ListType, Fetch
  <2>2. PICK r : r = agent.cur
    OBVIOUS
  <2>3. /\ live' = live \ {r} /\ record' = [record EXCEPT ![r] = FreeRecord]
        /\ agent' = [pc |-> "encrypt", cur |-> Nil, name |-> record[r].name, type |-> record[r].type]
    BY <1>1, <2>2 DEF Fetch
  <2>4. \A x \in Records : x \in live /\ x # r => x \in live' /\ record'[x] = record[x]
    BY <2>3 DEF TypeInv, ListType
  <2>5. \A c \in Cells : c \in live => c \in live'
    BY <2>1, <2>2, <2>3
  <2>6. \A n : record[r].name = n /\ record[r].type = "MODIFIED" => Fetched(n)'
    BY <2>3 DEF Fetched
  <2>7. UNCHANGED <<file, head, cell, th, listed, dirty, excused>> /\ agent.pc # "encrypt"
    BY <1>1 DEF Fetch, settings
  <2>8. \A n : ~Fetched(n)
    BY <2>7 DEF Fetched
  <2> QED BY <2>4, <2>5, <2>6, <2>7, <2>8
<1>2. CASE Encrypt
  <2>1. /\ UNCHANGED <<file, head, cell, th, listed, live, record>>
        /\ \/ dirty' = dirty \ (IF agent.type = "MODIFIED" THEN {agent.name} ELSE {}) /\ UNCHANGED excused
           \/ excused' = excused \cup (IF agent.type = "MODIFIED" THEN {agent.name} ELSE {}) /\ UNCHANGED dirty
    BY <1>2 DEF Encrypt, Excuse, settings, lists
  <2>2. \A n : Fetched(n) => n \notin dirty' \ excused'
    BY <2>1 DEF Fetched
  <2>3. dirty' \subseteq dirty /\ excused \subseteq excused'
    BY <2>1
  <2> QED BY <2>1, <2>2, <2>3
<1>3. CASE UNCHANGED agent \/ agent.pc # "encrypt"
  <2>1. CASE StartOrStopWork \/ AddMonitorItem \/ GetOldestRecord \/ Pop
    BY <1>3, <2>1 DEF StartOrStopWork, AddMonitorItem, GetOldestRecord, Pop, lists, settings, Fetched
  <2>2. CASE UNCHANGED vars
    BY <2>2 DEF vars, lists, settings, Fetched
  <2> QED BY <1>1, <1>2, <2>1, <2>2 DEF Other
<1>4. CASE ~(UNCHANGED agent \/ agent.pc # "encrypt")
  BY <1>2, <1>4 DEF Other, StartOrStopWork, AddMonitorItem, GetOldestRecord, Pop, Fetch, vars
<1> QED BY <1>3, <1>4

LEMMA OtherLookup ==
  ASSUME TypeInv, TypeInv', HashInv, UNCHANGED <<head, cell, th>>, \A c \in Cells : c \in live => c \in live'
  PROVE  InChain' = InChain /\ \A o : Lookup(o)'.cur = Lookup(o).cur /\ Entries(o)' = Entries(o)
<1>1. PICK n, s : Place(n, s)
  BY DEF HashInv
<1>2. Place(n, s)'
  BY <1>1, HashSame DEF TypeInv
<1>3. InChain' = InChain
  BY DEF InChain, Chain
<1>4. \A o : Entries(o)' = Entries(o)
  BY <1>3 DEF Entries
<1>5. Of' = Of
  BY DEF Of
<1>6. ASSUME NEW o PROVE Lookup(o)'.cur = Lookup(o).cur
  <2>1. FirstOf(n, s, Of, o, Lookup(o).cur)
    BY <1>1, LookupFirst DEF Place, TypeInv, ListType
  <2>2. FirstOf(n, s, Of', o, Lookup(o)'.cur)
    BY <1>2, LookupNext DEF Place, TypeInv, ListType, FirstOf
  <2>3. n \in Nat /\ \A i \in 1..n : s[i] # Nil
    BY <1>1, FSMonAssumption DEF Place, Table, IsList
  <2>4. PICK c, d, obj : c = Lookup(o).cur /\ d = Lookup(o)'.cur /\ obj = Of
    OBVIOUS
  <2>5. FirstOf(n, s, obj, o, c) /\ FirstOf(n, s, obj, o, d)
    BY <1>5, <2>1, <2>2, <2>4
  <2> QED BY <2>3, <2>4, <2>5, FirstOnce
<1> QED BY <1>3, <1>4, <1>6

LEMMA OtherTrack ==
  ASSUME TypeInv, TypeInv', HashInv, Tracking, Other \/ UNCHANGED vars
  PROVE  Tracking'
<1>f. /\ UNCHANGED <<file, head, cell, th>> /\ excused \subseteq excused'
      /\ (listed => listed')
      /\ \A c \in Cells : c \in live => c \in live'
      /\ dirty' \subseteq dirty
      /\ \A n : Fetched(n) => Fetched(n)' \/ n \notin dirty' \ excused'
      /\ \A n : \A r \in Records : r \in live /\ record[r].name = n /\ record[r].type = "MODIFIED" =>
           Fetched(n)' \/ (r \in live' /\ record'[r] = record[r])
  BY OtherFields
<1>l. InChain' = InChain /\ \A o : Lookup(o)'.cur = Lookup(o).cur /\ Entries(o)' = Entries(o)
  BY <1>f, OtherLookup
<1>k. \A o : Known(o)' => Known(o)
  BY <1>f DEF Known
<1>i. /\ Cleared /\ Lone /\ \A u \in Threads : Takes(u) /\ Made(u) /\ Written(u) /\ Renamed(u)
      /\ \A c \in InChain : Says(c)
      /\ \A n \in dirty \ excused : Marked(n)
  BY DEF Tracking
<1>1. Cleared' /\ Lone'
  BY <1>i, <1>f DEF Cleared, Lone, InCall
<1>2. \A u \in Threads : Takes(u)' /\ Made(u)'
  BY <1>i, <1>f DEF Takes, Made
<1>3. ASSUME NEW u \in Threads PROVE Written(u)'
  <2>1. PICK o : o = th[u].obj
    OBVIOUS
  <2>2. Entries(o)' = Entries(o) /\ (Known(o)' => Known(o))
    BY <1>l, <1>k
  <2>3. Written(u)
    BY <1>i
  <2>4. Entries(th[u].obj)' = Entries(th[u].obj) /\ (Known(th[u].obj)' => Known(th[u].obj))
    BY <1>f, <2>1, <2>2 DEF Entries, Known
  <2> QED BY <1>f, <2>3, <2>4 DEF Written
<1>4. ASSUME NEW u \in Threads PROVE Lookup(th[u].obj)'.cur = Lookup(th[u].obj).cur
  <2>1. PICK o : o = th[u].obj
    OBVIOUS
  <2>2. Lookup(o)'.cur = Lookup(o).cur
    BY <1>l
  <2> QED BY <1>f, <2>1, <2>2 DEF Lookup, Stops
<1>5. ASSUME NEW u \in Threads PROVE Renamed(u)'
  <2>1. PICK o, c : o = th[u].obj /\ c = Lookup(th[u].obj).cur
    OBVIOUS
  <2>2. c = Lookup(th[u].obj)'.cur
    BY <1>4, <2>1
  <2>3. Entries(o)' = Entries(o)
    BY <1>l
  <2>4. c \in Entries(th[u].obj) => c \in Entries(th[u].obj)'
    BY <1>f, <2>1, <2>3 DEF Entries
  <2>5. Renamed(u)
    BY <1>i
  <2> QED BY <1>f, <2>1, <2>2, <2>4, <2>5 DEF Renamed
<1>6. ASSUME NEW c \in InChain' PROVE Says(c)'
  <2>1. Says(c) /\ (Known(cell[c].obj)' => Known(cell[c].obj))
    BY <1>i, <1>l, <1>f, <1>6 DEF Known
  <2>2. Normal(c) => Normal(c)'
    BY <1>f DEF Normal
  <2>3. \A u \in Threads : Renames(u, c) => Renames(u, c)'
    BY <1>f, <1>4 DEF Renames
  <2> QED BY <2>1, <2>2, <2>3 DEF Says
<1>7. ASSUME NEW n \in dirty' \ excused' PROVE Marked(n)'
  <2>1. Marked(n)
    BY <1>i, <1>f, <1>7
  <2>2. \A c : Gone(c)' => Gone(c)
    BY <1>f DEF Gone
  <2>3. CASE \E c \in Cells \cap live : cell[c].name = n /\ cell[c].type = "MODIFIED" /\ ~Gone(c)
    BY <1>f, <2>2, <2>3 DEF Marked
  <2>4. CASE \E r \in Records \cap live : record[r].name = n /\ record[r].type = "MODIFIED"
    <3>1. PICK r \in Records \cap live : record[r].name = n /\ record[r].type = "MODIFIED"
      BY <2>4
    <3>2. Fetched(n)' \/ (r \in live' /\ record'[r] = record[r])
      BY <1>f, <3>1
    <3> QED BY <3>1, <3>2 DEF Marked
  <2>6. CASE Fetched(n)
    BY <1>f, <1>7, <2>6 DEF Marked
  <2>5. CASE \E u \in Threads : InCall(u) /\ th[u].call = "fastwrite" /\ file[th[u].obj].opened = n /\ Monitored(n)
    BY <1>f, <2>5 DEF Marked, InCall, Monitored
  <2> QED BY <2>1, <2>3, <2>4, <2>5, <2>6 DEF Marked
<1> QED BY <1>1, <1>2, <1>3, <1>5, <1>6, <1>7 DEF Tracking

TrackInv == ~overlapped /\ ~duplicated => Tracking

LEMMA InitTrack == Init => TrackInv
<1> SUFFICES ASSUME Init PROVE Tracking
  BY DEF TrackInv
<1>1. \A t \in Threads : th[t].pc = "idle" /\ th[t].call = "none"
  BY DEF Init, Idle
<1>2. dirty = {}
  BY DEF Init
<1>3. InChain = {}
  <2>1. TypeInv /\ MemInv /\ ~overlapped
    BY InitType, InitMem DEF Init
  <2>2. PICK n, s : Place(n, s)
    BY <2>1 DEF MemInv, HashInv
  <2>3. n = 0
    <3>1. head = Nil
      BY DEF Init
    <3>2. n \in Nat /\ (n # 0 => head = s[1] /\ 1 \in 1..n) /\ \A i \in 1..n : s[i] # Nil
      BY <2>1, <2>2, Entry DEF TypeInv, IsList
    <3> QED BY <3>1, <3>2
  <2> QED BY <2>2, <2>3, ChainIs DEF Place
<1>4. Cleared /\ Lone
  BY <1>1 DEF Cleared, Lone, InCall, ClearLabels
<1>5. \A t \in Threads : Takes(t) /\ Made(t) /\ Written(t) /\ Renamed(t)
  BY <1>1 DEF Takes, Made, Written, Renamed
<1> QED BY <1>2, <1>3, <1>4, <1>5 DEF Tracking

LEMMA TrackStep == TypeInv /\ MemInv /\ TableInv /\ TrackInv /\ [Next]_vars => TrackInv'
<1> SUFFICES ASSUME TypeInv, MemInv, TableInv, TrackInv, [Next]_vars, ~overlapped', ~duplicated' PROVE Tracking'
  BY DEF TrackInv
<1>1. HashInv /\ StoreInv /\ ObjInv /\ ~corrupt /\ Tracking
  BY OverlapStays, DuplicateStays DEF MemInv, TableInv, TrackInv
<1>2. ASSUME NEW t \in Threads, Thread(t) PROVE Tracking'
  BY <1>1, <1>2, ThreadSafely, ThreadTrack
<1>3. CASE Other \/ UNCHANGED vars
  BY <1>1, <1>3, TypeStep, OtherTrack
<1> QED BY <1>2, <1>3 DEF Next, Other

\* Whatever the monitor saw written is in somebody's hands until it is encrypted,
\* races and the excused files apart: an entry of the table or a record of the
\* list says MODIFIED, a thread is about to make one say it, or the encrypting
\* program has fetched it.  For any numbers of threads, objects, files, cells and
\* records, any calls and any names that are made of objects.
THEOREM Tracks == Spec => []ModifiedIsTracked
<1>1. Init => TypeInv /\ MemInv /\ TableInv /\ TrackInv
  BY InitType, InitMem, InitTable, InitTrack
<1>2. TypeInv /\ MemInv /\ TableInv /\ TrackInv /\ [Next]_vars => (TypeInv /\ MemInv /\ TableInv /\ TrackInv)'
  BY TypeStep, MemStep, TableStep, TrackStep
<1>3. TrackInv => ModifiedIsTracked
  <2> SUFFICES ASSUME Tracking, NEW n \in dirty \ excused
               PROVE  \/ \E c \in Cells \cap live : cell[c].name = n /\ cell[c].type = "MODIFIED"
                      \/ \E r \in Records \cap live : record[r].name = n /\ record[r].type = "MODIFIED"
                      \/ Handled(n)
                      \/ Fetched(n)
    BY DEF TrackInv, ModifiedIsTracked, Fetched
  <2>1. Marked(n)
    BY DEF Tracking
  <2> QED BY <2>1 DEF Marked, Handled
<1> QED BY <1>1, <1>2, <1>3, PTL DEF Spec

=============================================================================
