------------------------- MODULE FileLocAddr_proofs -------------------------
(* Theorems about what programs learn and what reaches the disk in FileLoc, *)
(* for any number of programs and any files.                               *)
EXTENDS FileLoc_proofs, FiniteSetTheorems, WellFoundedInduction

-----------------------------------------------------------------------------
(* Numbers.                                                                *)

Less == {p \in Nat \X Nat : p[1] < p[2]}

\* A set of numbers has a least one.
LEMMA Smallest ==
  ASSUME NEW T, T \subseteq Nat, T # {}
  PROVE  \E x \in T : \A y \in T : x <= y
<1>1. IsWellFoundedOn(Less, Nat)
  BY NatLessThanWellFounded DEF OpToRel, Less, IsWellFoundedOn
<1>2. PICK x \in T : \A y \in T : ~(<<y, x>> \in Less)
  BY <1>1, WFMin
<1>3. x \in Nat /\ \A y \in Nat : y < x => <<y, x>> \in Less
  BY DEF Less
<1>4. ASSUME NEW y \in T PROVE x <= y
  <2>1. y \in Nat /\ ~(y < x)
    BY <1>2, <1>3
  <2> QED BY <1>3, <2>1
<1> QED BY <1>4

\* A set of numbers with a bound has a greatest one.
LEMMA Largest ==
  ASSUME NEW n \in Nat, NEW T, T \subseteq 0..n, T # {}
  PROVE  Max(T) \in T /\ \A y \in T : y <= Max(T)
<1> DEFINE U == {b \in Nat : \A y \in T : y <= b}
<1>1. n \in U /\ U \subseteq Nat
  OBVIOUS
<1>2. PICK b \in U : \A c \in U : b <= c
  BY <1>1, Smallest
<1>3. b \in T
  <2>1. SUFFICES ASSUME b \notin T PROVE FALSE
    OBVIOUS
  <2>2. \A y \in T : y \in Nat /\ y < b
    <3>1. ASSUME NEW y \in T PROVE y \in Nat /\ y < b
      <4>1. y \in Nat /\ b \in Nat /\ y <= b /\ y # b
        BY <1>2, <2>1
      <4> QED BY <4>1
    <3> QED BY <3>1
  <2>3. b > 0 /\ b \in Nat
    <3>1. PICK y \in T : TRUE
      OBVIOUS
    <3> QED BY <1>2, <2>2, <3>1
  <2>4. b - 1 \in U
    BY <1>2, <2>2, <2>3
  <2> QED BY <1>2, <2>4
<1>4. \A y \in T : b >= y
  BY <1>2
<1>5. Max(T) \in T /\ \A y \in T : Max(T) >= y
  BY <1>3, <1>4 DEF Max
<1> QED BY <1>5

-----------------------------------------------------------------------------
(* Files.                                                                  *)

\* What a write of a file is.
LEMMA WriteFacts ==
  ASSUME NEW c \in Clients, NEW r \in DOMAIN Runs[c]
  PROVE  /\ Runs[c][r].at \in Nat /\ Runs[c][r].entries \in Seq({Plain} \cup 0..Num-1)
         /\ Runs[c][r].at + Len(Runs[c][r].entries) <= Size
<1> DEFINE W == [at : Nat, entries : Seq({Plain} \cup 0..Num-1)]
<1>1. Runs[c] \in Seq(W)
  BY FileLocAssumption
<1>2. Runs[c][r] \in W
  <2> HIDE DEF W
  <2> QED BY <1>1
<1> QED BY <1>2, FileLocAssumption

\* There are as many marked sectors as the buffer has entries, or fewer.
LEMMA MarksFit ==
  ASSUME NEW c \in Clients
  PROVE  Cardinality(Marks(c)) \in Nat /\ Cardinality(Marks(c)) <= Num
<1>1. Cardinality(Marks(c)) \in Nat
  <2>1. Runs[c] \in Seq([at : Nat, entries : Seq({Plain} \cup 0..Num-1)])
    BY FileLocAssumption
  <2>2. DOMAIN Runs[c] = 1..Len(Runs[c]) /\ Len(Runs[c]) \in Nat
    BY <2>1
  <2>3. IsFiniteSet(1..Len(Runs[c])) /\ IsFiniteSet(1..Size)
    BY <2>2, FileLocAssumption, FS_Interval
  <2>4. IsFiniteSet((DOMAIN Runs[c]) \X (1..Size))
    BY <2>2, <2>3, FS_Product
  <2> QED BY <2>4, FS_Subset, FS_CardinalityType DEF Marks
<1>2. ASSUME Cardinality(Marks(c)) > Num PROVE FALSE
  <2>1. Num \in 0 .. Cardinality(Marks(c)) - 1
    BY <1>1, <1>2, FileLocAssumption
  <2>2. PICK m \in Marks(c) : Index(c, m) = Num
    BY <2>1, FileLocAssumption
  <2>3. m[1] \in DOMAIN Runs[c] /\ m[2] \in DOMAIN Runs[c][m[1]].entries
    BY DEF Marks
  <2>4. Index(c, m) \in {Plain} \cup 0..Num-1
    BY <2>3, WriteFacts DEF Index
  <2> QED BY <2>2, <2>4, FileLocAssumption DEF Plain
<1> QED BY <1>1, <1>2, FileLocAssumption

\* What a marked sector is.
LEMMA MarkFacts ==
  ASSUME NEW c \in Clients, NEW m \in Marks(c)
  PROVE  /\ m[1] \in DOMAIN Runs[c] /\ m[2] \in DOMAIN Runs[c][m[1]].entries /\ m[2] \in 1..Size
         /\ m = <<m[1], m[2]>>
         /\ Index(c, m) \in 0..Num-1 /\ Index(c, m) # Plain
         /\ Index(c, m) < Cardinality(Marks(c))
         /\ Sector(c, m) \in 0..Size-1
<1>1. /\ m[1] \in DOMAIN Runs[c] /\ m[2] \in 1..Size /\ m = <<m[1], m[2]>>
      /\ m[2] \in DOMAIN Runs[c][m[1]].entries /\ Index(c, m) # Plain
  BY DEF Marks, Index
<1>2. Index(c, m) \in 0..Num-1
  BY <1>1, WriteFacts DEF Index
<1>3. Index(c, m) \in 0 .. Cardinality(Marks(c)) - 1
  BY FileLocAssumption
<1>4. Cardinality(Marks(c)) \in Nat
  BY MarksFit
<1>5. Sector(c, m) \in 0..Size-1
  <2> DEFINE a == Runs[c][m[1]].at
             e == Runs[c][m[1]].entries
             i == m[2]
  <2>1. a \in Nat /\ e \in Seq({Plain} \cup 0..Num-1) /\ a + Len(e) <= Size
    BY <1>1, WriteFacts
  <2>2. i \in DOMAIN e /\ Sector(c, m) = a + i - 1
    BY <1>1 DEF Sector
  <2> HIDE DEF a, e, i
  <2> QED BY <2>1, <2>2, FileLocAssumption
<1> QED BY <1>1, <1>2, <1>3, <1>4, <1>5

\* A marked sector lies in the area of its write.
LEMMA MarkArea ==
  ASSUME NEW c \in Clients, NEW m \in Marks(c)
  PROVE  Sector(c, m) \in Area(c, m[1])
<1> DEFINE a == Runs[c][m[1]].at
           e == Runs[c][m[1]].entries
           i == m[2]
<1>1. a \in Nat /\ Len(e) \in Nat /\ i \in 1..Len(e)
  <2>1. m[1] \in DOMAIN Runs[c] /\ i \in DOMAIN e
    BY MarkFacts
  <2>2. e \in Seq({Plain} \cup 0..Num-1) /\ a \in Nat
    BY <2>1, WriteFacts
  <2> HIDE DEF e
  <2> QED BY <2>1, <2>2
<1>2. Sector(c, m) = a + i - 1 /\ Area(c, m[1]) = a .. a + Len(e) - 1
  BY DEF Sector, Area
<1> HIDE DEF a, e, i
<1> QED BY <1>1, <1>2

\* The sectors that are passed down are those that are not marked.
LEMMA KeptUnmarked ==
  ASSUME NEW e \in Seq({Plain} \cup 0..Num-1)
  PROVE  Kept(e) = DOMAIN e \ Stops(e)
<1> DEFINE n == Len(e)
           Prior(i) == {0} \cup {k \in Stops(e) : k < i}
<1>1. n \in Nat /\ DOMAIN e = 1..n /\ Stops(e) \subseteq 1..n
  BY DEF Stops
<1>2. \A i \in 1..n+1 : /\ Max(Prior(i)) \in Prior(i) /\ \A k \in Prior(i) : k <= Max(Prior(i))
                        /\ Begin(e, i) = 1 + Max(Prior(i))
  <2>1. ASSUME NEW i \in 1..n+1 PROVE /\ Max(Prior(i)) \in Prior(i)
                                      /\ \A k \in Prior(i) : k <= Max(Prior(i))
    <3>1. Prior(i) \subseteq 0..n /\ Prior(i) # {}
      BY <1>1
    <3> HIDE DEF Prior
    <3> QED BY <1>1, <3>1, Largest
  <2> QED BY <2>1 DEF Begin
<1>3. ASSUME NEW i \in Kept(e) PROVE i \in DOMAIN e \ Stops(e)
  <2>1. PICK k \in Stops(e) \cup {n + 1} : i \in Begin(e, k) .. k - 1
    BY <1>3 DEF Kept
  <2>2. k \in 1..n+1
    BY <1>1
  <2>3. Max(Prior(k)) \in 0..n
    BY <1>1, <1>2, <2>2
  <2>4. i \in 1..n /\ i < k /\ i > Max(Prior(k))
    BY <1>1, <1>2, <2>1, <2>2, <2>3
  <2>5. i \notin Stops(e)
    <3>1. i \in Stops(e) => i \in Prior(k)
      BY <2>4
    <3> QED BY <1>2, <2>2, <2>3, <2>4, <3>1
  <2> QED BY <1>1, <2>4, <2>5
<1>4. ASSUME NEW i \in DOMAIN e \ Stops(e) PROVE i \in Kept(e)
  <2> DEFINE T == {k \in Stops(e) \cup {n + 1} : k > i}
  <2>1. T \subseteq Nat /\ n + 1 \in T
    BY <1>1
  <2>2. PICK k \in T : \A l \in T : k <= l
    BY <2>1, Smallest
  <2>3. k \in 1..n+1 /\ k > i
    BY <1>1, <2>2
  <2>4. Max(Prior(k)) \in Prior(k) /\ Begin(e, k) = 1 + Max(Prior(k))
    BY <1>2, <2>3
  <2>5. \A l \in Prior(k) : l \in Nat /\ l < i
    <3>1. ASSUME NEW l \in Prior(k), l # 0 PROVE l \in Nat /\ l < i
      <4>1. l \in Stops(e) /\ l < k /\ l \in Nat /\ l # i
        BY <1>1, <3>1
      <4>2. l > i => l \in T
        BY <4>1
      <4> QED BY <1>1, <2>2, <2>3, <4>1, <4>2
    <3> QED BY <1>1, <3>1
  <2>6. i \in Begin(e, k) .. k - 1
    BY <1>1, <2>3, <2>4, <2>5
  <2> QED BY <2>6 DEF Kept
<1> QED BY <1>3, <1>4

-----------------------------------------------------------------------------
(* What the addresses rest on.                                             *)

\* IRP i carries the sign its program uses now, and asks for all its marks.
Fresh(i, s) ==
  /\ i.op = "WRITE" => i.sign = s[i.who]
  /\ i.op = "COPY" => i.count = Cardinality(Marks(i.who))

\* The device was opened for program c, which has not begun to close it.
Inside(c) == cpc[c] \in {"ready", "writing", "copying", "located"}

DataInv ==
  /\ base \in {0, Base} /\ addr \in [0..Num-1 -> Int]
  /\ got \in [Clients -> [0..Num-1 -> Int]]
  /\ disk \in [0..Size-1 -> {"old", "data", "mark"}]

MessageInv ==
  /\ \A n \in DOMAIN queue : Fresh(queue[n], dwLockSign)
  /\ tpc # "idle" => Fresh(cur, dwLockSign)
  /\ \A c \in Clients : cpc[c] = "copying" => \A r \in DOMAIN Runs[c] : run[c][r] \in {"ok", "fail"}

\* For a program that is alone the device has the right size, buffer or not.
SizeInv ==
  /\ \A c \in Clients : alone[c] /\ Inside(c) => num = Num /\ bInited
  /\ tpc \in {"alloc", "base"} /\ alone[cur.who] => num = Num

\* The marked sectors of c that have been written have been noted.
Noted(c) == \A m \in Marks(c) : run[c][m[1]] \in {"ok", "fail"} => addr[Index(c, m)] = Base + Sector(c, m)

AddrInv ==
  \A c \in Clients : alone[c] /\ ~noBuffer =>
    /\ Inside(c) => base = Base
    /\ cpc[c] \in {"writing", "copying"} => sign = dwLockSign[c] /\ Noted(c)

Addresses == DataInv /\ MessageInv /\ SizeInv /\ AddrInv /\ LocatedRight

LEMMA AddrInit == Init => Addresses
<1> SUFFICES ASSUME Init PROVE Addresses
  OBVIOUS
<1>1. DataInv
  BY FileLocAssumption DEF Init, DataInv, Junk
<1>2. DOMAIN queue = {} /\ tpc = "idle" /\ \A c \in Clients : cpc[c] = "off" /\ ~alone[c]
  BY DEF Init
<1> QED BY <1>1, <1>2 DEF Addresses, MessageInv, SizeInv, AddrInv, LocatedRight

\* IRPs stay fresh when their programs keep their signs.
LEMMA MessagesKept ==
  ASSUME FileInv, MessageInv, UNCHANGED <<tpc, cur>>,
         \A n \in DOMAIN queue : dwLockSign'[queue[n].who] = dwLockSign[queue[n].who],
         tpc # "idle" => dwLockSign'[cur.who] = dwLockSign[cur.who],
         \/ UNCHANGED queue
         \/ \E i \in Irps : Fresh(i, dwLockSign') /\ queue' = Append(queue, i)
  PROVE  /\ \A n \in DOMAIN queue' : Fresh(queue'[n], dwLockSign')
         /\ tpc' # "idle" => Fresh(cur', dwLockSign')
<1>1. \A n \in DOMAIN queue : Fresh(queue[n], dwLockSign')
  BY DEF MessageInv, Fresh
<1>2. tpc' # "idle" => Fresh(cur', dwLockSign')
  BY DEF MessageInv, Fresh
<1>3. CASE UNCHANGED queue
  BY <1>1, <1>2, <1>3 DEF Fresh
<1>4. ASSUME NEW i \in Irps, Fresh(i, dwLockSign'), queue' = Append(queue, i)
      PROVE  \A n \in DOMAIN queue' : Fresh(queue'[n], dwLockSign')
  <2>1. queue \in Seq(Irps)
    BY DEF FileInv, QueueInv
  <2>2. \A n \in DOMAIN queue' : (n \in DOMAIN queue /\ queue'[n] = queue[n])
                                   \/ (n = Len(queue) + 1 /\ queue'[n] = i)
    BY <1>4, <2>1, AppendItems
  <2> QED BY <1>1, <1>4, <2>2
<1> QED BY <1>2, <1>3, <1>4

-----------------------------------------------------------------------------
(* The programs.                                                           *)

LEMMA AddrInitFileLocater ==
  ASSUME FileInv, Addresses, NEW c \in Clients, Init_FileLocater(c)
  PROVE  Addresses'
<1> DEFINE i == [op |-> "OPEN", who |-> c]
<1>1. /\ cpc[c] = "off" /\ cpc' = [cpc EXCEPT ![c] = "opening"] /\ queue' = Append(queue, i)
      /\ alone' = [d \in Clients |-> d = c /\ \A e \in Clients \ {c} : cpc[e] = "off"]
      /\ dwLockSign' = [dwLockSign EXCEPT ![c] = 1]
      /\ UNCHANGED <<device, tpc, cur, disk, run, got, noBuffer>>
  BY DEF Init_FileLocater, At, Enqueue
<1>2. cpc'[c] = "opening" /\ \A d \in Clients : d # c => cpc'[d] = cpc[d] /\ dwLockSign'[d] = dwLockSign[d]
  BY <1>1 DEF FileInv, TypeInv
<1>3. \A n \in DOMAIN queue : queue[n].who # c /\ queue[n].who \in Clients
  BY <1>1, NothingSent DEF FileInv, QueueInv, Sent, SentAt
<1>4. tpc # "idle" => cur.who # c /\ cur.who \in Clients
  BY <1>1, NothingSent DEF FileInv, QueueInv, Sent, SentAt
<1>5. i \in Irps /\ Fresh(i, dwLockSign')
  BY DEF Irps, Fresh
<1> HIDE DEF i
<1>6. MessageInv'
  <2>1. /\ \A n \in DOMAIN queue' : Fresh(queue'[n], dwLockSign')
        /\ tpc' # "idle" => Fresh(cur', dwLockSign')
    BY <1>1, <1>2, <1>3, <1>4, <1>5, MessagesKept DEF Addresses
  <2> QED BY <1>1, <1>2, <2>1 DEF Addresses, MessageInv, Fresh
<1>7. DataInv'
  BY <1>1 DEF Addresses, DataInv, device
<1>8. \A d \in Clients : alone'[d] => cpc'[d] = "opening"
  BY <1>1, <1>2
<1>9. SizeInv'
  <2>1. tpc # "idle" => ~alone'[cur.who]
    BY <1>1, <1>4
  <2> QED BY <1>1, <1>8, <2>1 DEF SizeInv, Inside
<1>10. AddrInv' /\ LocatedRight'
  BY <1>8 DEF AddrInv, LocatedRight, Inside
<1> QED BY <1>6, <1>7, <1>9, <1>10 DEF Addresses

LEMMA AddrSetSign ==
  ASSUME FileInv, Addresses, NEW c \in Clients, SetSign(c)
  PROVE  Addresses'
<1>1. /\ cpc[c] \in {"ready", "located"} /\ cpc' = [cpc EXCEPT ![c] = "writing"]
      /\ run' = [run EXCEPT ![c] = [r \in DOMAIN Runs[c] |-> "todo"]]
      /\ sign' = dwLockSign[c] + 1
      /\ dwLockSign' = [dwLockSign EXCEPT ![c] = @ + 1]
      /\ got' = [got EXCEPT ![c] = [k \in 0..Num-1 |-> Junk]]
      /\ UNCHANGED <<bInited, buf, addr, num, base, queue, tpc, cur, disk, alone, noBuffer>>
  BY DEF SetSign, At, thread
<1>2. /\ cpc'[c] = "writing" /\ dwLockSign'[c] = sign'
      /\ \A d \in Clients : d # c => cpc'[d] = cpc[d] /\ run'[d] = run[d] /\ dwLockSign'[d] = dwLockSign[d]
      /\ \A r \in DOMAIN Runs[c] : run'[c][r] = "todo"
  BY <1>1 DEF FileInv, TypeInv
<1>3. \A n \in DOMAIN queue : queue[n].who # c /\ queue[n].who \in Clients
  BY <1>1, NothingSent DEF FileInv, QueueInv, Sent, SentAt
<1>4. tpc # "idle" => cur.who # c /\ cur.who \in Clients
  BY <1>1, NothingSent DEF FileInv, QueueInv, Sent, SentAt
<1>5. MessageInv'
  <2>1. /\ \A n \in DOMAIN queue' : Fresh(queue'[n], dwLockSign')
        /\ tpc' # "idle" => Fresh(cur', dwLockSign')
    BY <1>1, <1>2, <1>3, <1>4, MessagesKept DEF Addresses
  <2> QED BY <1>1, <1>2, <2>1 DEF Addresses, MessageInv, Fresh
<1>6. DataInv'
  BY <1>1 DEF Addresses, DataInv, Junk
<1>7. \A d \in Clients : alone[d] => d = c
  BY <1>1 DEF FileInv, AloneInv
<1>8. SizeInv'
  BY <1>1, <1>2, <1>7 DEF Addresses, SizeInv, Inside
<1>9. Noted(c)'
  BY <1>2, MarkFacts DEF Noted
<1>10. AddrInv' /\ LocatedRight'
  BY <1>1, <1>2, <1>7, <1>9 DEF Addresses, AddrInv, LocatedRight, Inside
<1> QED BY <1>5, <1>6, <1>8, <1>10 DEF Addresses

LEMMA AddrReadWrite ==
  ASSUME FileInv, Addresses, NEW c \in Clients, NEW r \in DOMAIN Runs[c], ReadWrite(c, r)
  PROVE  Addresses'
<1> DEFINE i == [op |-> "WRITE", who |-> c, run |-> r, sign |-> dwLockSign[c]]
<1>1. /\ cpc[c] = "writing" /\ run[c][r] = "todo"
      /\ UNCHANGED <<device, tpc, cur, cpc, dwLockSign, got, alone, noBuffer>>
      /\ \/ bInited /\ queue' = Append(queue, i) /\ run' = [run EXCEPT ![c][r] = "queued"] /\ UNCHANGED disk
         \/ ~bInited /\ UNCHANGED queue /\ \E s \in {"ok", "fail"} : run' = [run EXCEPT ![c][r] = s]
  BY DEF ReadWrite, Enqueue
<1>2. DataInv'
  <2>1. disk' \in [0..Size-1 -> {"old", "data", "mark"}]
    BY DEF ReadWrite, Addresses, DataInv
  <2> QED BY <1>1, <2>1 DEF Addresses, DataInv, device
<1>3. MessageInv'
  <2>1. i \in Irps /\ Fresh(i, dwLockSign')
    BY <1>1 DEF Irps, Fresh, FileInv, TypeInv
  <2> HIDE DEF i
  <2>2. /\ \A n \in DOMAIN queue' : Fresh(queue'[n], dwLockSign')
        /\ tpc' # "idle" => Fresh(cur', dwLockSign')
    BY <1>1, <2>1, MessagesKept DEF Addresses
  <2>3. \A d \in Clients : cpc'[d] = "copying" => d # c /\ cpc[d] = "copying"
    BY <1>1
  <2>4. \A d \in Clients : d # c => run'[d] = run[d]
    BY <1>1 DEF FileInv, TypeInv
  <2> QED BY <2>2, <2>3, <2>4 DEF Addresses, MessageInv, Fresh
<1>4. SizeInv'
  BY <1>1 DEF Addresses, SizeInv, Inside, device
<1>5. \A d \in Clients : alone[d] => d = c
  BY <1>1 DEF FileInv, AloneInv
<1>6. alone[c] => \A q \in DOMAIN Runs[c] : run'[c][q] \in {"ok", "fail"} => run'[c][q] = run[c][q]
  <2>1. alone[c] => bInited
    BY <1>1 DEF Addresses, SizeInv, Inside
  <2> QED BY <1>1, <2>1 DEF FileInv, TypeInv
<1>7. AddrInv'
  <2>1. Noted(c) /\ alone[c] => Noted(c)'
    BY <1>1, <1>6, MarkFacts DEF Noted, device
  <2> QED BY <1>1, <1>5, <2>1 DEF Addresses, AddrInv, Inside, device
<1>8. LocatedRight'
  BY <1>1, <1>5 DEF LocatedRight
<1> QED BY <1>2, <1>3, <1>4, <1>7, <1>8 DEF Addresses

LEMMA AddrCopyData ==
  ASSUME FileInv, Addresses, NEW c \in Clients, CopyData(c)
  PROVE  Addresses'
<1> DEFINE i == [op |-> "COPY", who |-> c, count |-> Cardinality(Marks(c))]
<1>1. /\ cpc[c] = "writing" /\ \A r \in DOMAIN Runs[c] : run[c][r] \in {"ok", "fail"}
      /\ \/ /\ buf = "null" \/ num = 0 \/ Cardinality(Marks(c)) > num
            /\ cpc' = [cpc EXCEPT ![c] = "located"] /\ UNCHANGED queue
         \/ cpc' = [cpc EXCEPT ![c] = "copying"] /\ queue' = Append(queue, i)
      /\ UNCHANGED <<device, tpc, cur, disk, dwLockSign, run, got, alone, noBuffer>>
  BY DEF CopyData, At, Enqueue
<1>2. cpc'[c] \in {"copying", "located"} /\ \A d \in Clients : d # c => cpc'[d] = cpc[d]
  BY <1>1 DEF FileInv, TypeInv
<1>3. DataInv'
  BY <1>1 DEF Addresses, DataInv, device
<1>4. MessageInv'
  <2>1. i \in Irps /\ Fresh(i, dwLockSign')
    BY DEF Irps, Fresh
  <2> HIDE DEF i
  <2>2. /\ \A n \in DOMAIN queue' : Fresh(queue'[n], dwLockSign')
        /\ tpc' # "idle" => Fresh(cur', dwLockSign')
    BY <1>1, <2>1, MessagesKept DEF Addresses
  <2> QED BY <1>1, <1>2, <2>2 DEF Addresses, MessageInv, Fresh
<1>5. \A d \in Clients : alone[d] => d = c
  BY <1>1 DEF FileInv, AloneInv
<1>6. SizeInv'
  BY <1>1, <1>2, <1>5 DEF Addresses, SizeInv, Inside, device
<1>7. Cardinality(Marks(c)) \in Nat /\ Cardinality(Marks(c)) <= Num
  BY MarksFit
<1>8. alone[c] /\ ~noBuffer => cpc'[c] = "copying"
  <2>1. alone[c] /\ ~noBuffer => buf = "live" /\ num = Num /\ Num # 0 /\ ~(Cardinality(Marks(c)) > num)
    BY <1>1, <1>7, FileLocAssumption DEF FileInv, AloneInv
  <2> QED BY <1>1, <2>1 DEF FileInv, TypeInv
<1>9. AddrInv' /\ LocatedRight'
  BY <1>1, <1>2, <1>5, <1>8 DEF Addresses, AddrInv, LocatedRight, Noted, Inside, device
<1> QED BY <1>3, <1>4, <1>6, <1>9 DEF Addresses

LEMMA AddrLeave ==
  ASSUME FileInv, Addresses, NEW c \in Clients,
         Free_FileLocater(c) \/ ClearBuffer(c) \/ ClearRest(c)
  PROVE  Addresses'
<1> DEFINE i == [op |-> "CLOSE", who |-> c]
<1>1. /\ cpc[c] \in {"ready", "located", "clearing", "cleared"}
      /\ \E l \in {"clearing", "closing", "cleared", "off"} : cpc' = [cpc EXCEPT ![c] = l]
      /\ UNCHANGED queue \/ queue' = Append(queue, i)
      /\ base' \in {base, 0}
      /\ UNCHANGED <<addr, sign, tpc, cur, disk, dwLockSign, run, got, alone, noBuffer>>
  BY DEF Free_FileLocater, ClearBuffer, ClearRest, At, Enqueue, device, thread
<1>2. /\ cpc'[c] \in {"clearing", "closing", "cleared", "off"}
      /\ \A d \in Clients : d # c => cpc'[d] = cpc[d]
  BY <1>1 DEF FileInv, TypeInv
<1>3. DataInv'
  BY <1>1 DEF Addresses, DataInv
<1>4. MessageInv'
  <2>1. i \in Irps /\ Fresh(i, dwLockSign')
    BY DEF Irps, Fresh
  <2> HIDE DEF i
  <2>2. /\ \A n \in DOMAIN queue' : Fresh(queue'[n], dwLockSign')
        /\ tpc' # "idle" => Fresh(cur', dwLockSign')
    BY <1>1, <2>1, MessagesKept DEF Addresses
  <2> QED BY <1>1, <1>2, <2>2 DEF Addresses, MessageInv, Fresh
<1>5. \A d \in Clients : alone[d] => d = c
  BY <1>1 DEF FileInv, AloneInv
<1>6. SizeInv'
  <2>1. tpc # "idle" => cur.who \in Clients /\ cur.who # c
    BY <1>1, NothingSent DEF FileInv, QueueInv, Sent, SentAt
  <2> QED BY <1>1, <1>2, <1>5, <2>1 DEF SizeInv, Inside
<1>7. AddrInv' /\ LocatedRight'
  BY <1>1, <1>2, <1>5 DEF AddrInv, LocatedRight, Inside
<1> QED BY <1>3, <1>4, <1>6, <1>7 DEF Addresses

-----------------------------------------------------------------------------
(* The thread.                                                             *)

LEMMA AddrTake == FileInv /\ Addresses /\ Take => Addresses'
<1> SUFFICES ASSUME FileInv, Addresses, Take PROVE Addresses'
  OBVIOUS
<1>1. /\ tpc = "idle" /\ queue # <<>> /\ cur' = Head(queue) /\ queue' = Tail(queue)
      /\ tpc' = Head(queue).op
      /\ UNCHANGED <<device, disk, client, noBuffer>>
  BY DEF Take
<1>2. queue \in Seq(Irps)
  BY DEF FileInv, QueueInv
<1>3. /\ cur' = queue[1] /\ 1 \in DOMAIN queue
      /\ \A n \in DOMAIN queue' : n + 1 \in DOMAIN queue /\ queue'[n] = queue[n + 1]
  BY <1>1, <1>2, TailItems
<1>4. tpc' \in Ops
  BY <1>1, <1>2, <1>3 DEF FileInv, QueueInv, Sent, SentAt
<1>5. MessageInv'
  BY <1>1, <1>3 DEF Addresses, MessageInv, Fresh, client
<1>6. SizeInv'
  BY <1>1, <1>4 DEF Addresses, SizeInv, Inside, client, device, Ops
<1>7. DataInv'
  BY <1>1 DEF Addresses, DataInv, client, device
<1>8. AddrInv'
  BY <1>1 DEF Addresses, AddrInv, Noted, Inside, client, device
<1>9. LocatedRight'
  BY <1>1 DEF Addresses, LocatedRight, client, device
<1> QED BY <1>5, <1>6, <1>7, <1>8, <1>9 DEF Addresses

LEMMA AddrCrash == Addresses /\ Crash => Addresses'
BY DEF Addresses, Crash, DataInv, MessageInv, Fresh, SizeInv, AddrInv, LocatedRight, Noted, Inside,
       device, client, thread

\* The address of a sector that is noted is a number.
LEMMA NotedNumber ==
  ASSUME NEW e \in Seq({Plain} \cup 0..Num-1), NEW T, T \subseteq DOMAIN e, T # {}
  PROVE  Max(T) \in T /\ Max(T) \in Nat
<1>1. Len(e) \in Nat /\ T \subseteq 0..Len(e)
  OBVIOUS
<1>2. Max(T) \in T
  BY <1>1, Largest
<1> QED BY <1>1, <1>2

LEMMA AddrServeUnmapped == FileInv /\ Addresses /\ ServeUnmapped => Addresses'
BY DEF ServeUnmapped, FileInv, TypeInv, Addresses, DataInv, MessageInv, Fresh, SizeInv, AddrInv, LocatedRight, Noted,
       Inside, device, client, thread

LEMMA AddrServeWrite == FileInv /\ Addresses /\ ServeWrite => Addresses'
<1> SUFFICES ASSUME FileInv, Addresses, ServeWrite PROVE Addresses'
  OBVIOUS
<1> DEFINE c  == cur.who
           r  == cur.run
           e  == Runs[c][r].entries
           at == Runs[c][r].at
           noted == {i \in DOMAIN e : Marked(e[i]) /\ cur.sign = sign}
           with(k) == {i \in noted : e[i] = k}
<1>1. /\ tpc = "WRITE" /\ cur.op = "WRITE" /\ c \in Clients /\ r \in DOMAIN Runs[c]
      /\ cpc[c] = "writing" /\ run[c][r] = "queued"
  <2>1. tpc = "WRITE"
    BY DEF ServeWrite
  <2>2. Sent(cur) /\ tpc \in Steps(cur.op)
    BY <2>1 DEF FileInv, QueueInv
  <2> QED BY <2>1, <2>2 DEF Sent, SentAt, Steps, Ops, Waits, Irps
<1>2. CASE Crash
  BY <1>2, AddrCrash
<1>3. CASE ~Crash
  <2>1. /\ addr' = [k \in DOMAIN addr |->
                      IF \E i \in noted : e[i] = k THEN base + at + Max(with(k)) - 1 ELSE addr[k]]
        /\ \E s \in {"ok", "fail"} : run' = [run EXCEPT ![c][r] = s]
        /\ tpc' = "idle"
        /\ UNCHANGED <<bInited, buf, num, base, sign, queue, cpc, dwLockSign, got, alone, noBuffer>>
    BY <1>3 DEF ServeWrite, Finish
  <2>2. at \in Nat /\ e \in Seq({Plain} \cup 0..Num-1)
    BY <1>1, WriteFacts
  <2>3. DataInv'
    <3>1. disk' \in [0..Size-1 -> {"old", "data", "mark"}]
      BY <1>3 DEF ServeWrite, Addresses, DataInv
    <3>2. ASSUME NEW k \in 0..Num-1 PROVE addr'[k] \in Int
      <4>1. CASE with(k) = {}
        BY <2>1, <4>1 DEF Addresses, DataInv
      <4>2. CASE with(k) # {}
        <5>1. with(k) \subseteq DOMAIN e
          OBVIOUS
        <5>2. Max(with(k)) \in Nat
          <6> HIDE DEF with, e
          <6> QED BY <2>2, <4>2, <5>1, NotedNumber
        <5>3. addr'[k] = base + at + Max(with(k)) - 1
          BY <2>1, <4>2 DEF Addresses, DataInv
        <5>4. base \in Int
          BY FileLocAssumption DEF Addresses, DataInv
        <5> HIDE DEF with, at
        <5> QED BY <2>2, <5>2, <5>3, <5>4
      <4> QED BY <4>1, <4>2
    <3>3. addr' \in [0..Num-1 -> Int]
      BY <2>1, <3>2 DEF Addresses, DataInv
    <3> QED BY <2>1, <3>1, <3>3 DEF Addresses, DataInv
  <2>4. /\ \A d \in Clients : d # c => run'[d] = run[d]
        /\ \A q \in DOMAIN Runs[c] : q # r => run'[c][q] = run[c][q]
    BY <1>1, <2>1 DEF FileInv, TypeInv
  <2>5. MessageInv'
    BY <1>1, <2>1, <2>4 DEF Addresses, MessageInv, Fresh
  <2>6. SizeInv'
    BY <2>1 DEF Addresses, SizeInv, Inside
  <2>7. \A d \in Clients : alone[d] => d = c
    BY <1>1 DEF FileInv, AloneInv
  <2>8. ASSUME alone[c], ~noBuffer, NEW m \in Marks(c), run'[c][m[1]] \in {"ok", "fail"}
        PROVE  addr'[Index(c, m)] = Base + Sector(c, m)
    <3>1. num = Num /\ base = Base /\ cur.sign = sign /\ Noted(c)
      BY <1>1, <2>8 DEF Addresses, SizeInv, AddrInv, MessageInv, Fresh, Inside
    <3>2. noted = {i \in DOMAIN e : e[i] # Plain}
      BY <2>2, <3>1, FileLocAssumption DEF Marked, Plain
    <3> DEFINE k == Index(c, m)
    <3>3. k \in DOMAIN addr /\ m = <<m[1], m[2]>> /\ m[1] \in DOMAIN Runs[c]
      BY <1>1, <2>8, MarkFacts DEF Addresses, DataInv
    <3>4. ASSUME NEW i \in with(k) PROVE m[1] = r /\ m[2] = i
      <4>1. <<r, i>> \in Marks(c) /\ Index(c, <<r, i>>) = k
        <5>1. i \in DOMAIN e /\ e[i] # Plain /\ e[i] = k
          BY <3>2
        <5>2. i \in 1..Size
          <6>1. Len(e) \in Nat /\ i \in 1..Len(e) /\ at + Len(e) <= Size
            BY <1>1, <2>2, <5>1, WriteFacts
          <6> HIDE DEF e, at
          <6> QED BY <2>2, <6>1, FileLocAssumption
        <5> QED BY <1>1, <5>1, <5>2 DEF Marks, Index
      <4>2. <<r, i>> = m
        BY <1>1, <4>1, FileLocAssumption
      <4> QED BY <4>2
    <3>5. CASE m[1] = r
      <4>1. m[2] \in DOMAIN e /\ e[m[2]] = k /\ k # Plain
        BY <3>5, MarkFacts, <1>1 DEF Index
      <4>2. m[2] \in with(k)
        BY <3>2, <4>1
      <4>3. with(k) = {m[2]}
        BY <3>4, <4>2
      <4>4. Max(with(k)) = m[2]
        <5>1. with(k) # {} /\ with(k) \subseteq DOMAIN e
          BY <4>2
        <5> HIDE DEF with, e
        <5> QED BY <2>2, <4>3, <5>1, NotedNumber
      <4>5. addr'[k] = base + at + m[2] - 1
        BY <2>1, <3>3, <4>2, <4>4
      <4>6. Sector(c, m) = at + m[2] - 1
        BY <3>5 DEF Sector
      <4>7. m[2] \in Nat
        BY <1>1, MarkFacts
      <4> HIDE DEF at, k
      <4> QED BY <2>2, <3>1, <4>5, <4>6, <4>7, FileLocAssumption DEF k
    <3>6. CASE m[1] # r
      <4>1. addr'[k] = addr[k]
        BY <2>1, <3>3, <3>4, <3>6
      <4>2. run'[c][m[1]] = run[c][m[1]]
        BY <2>4, <3>3, <3>6
      <4> QED BY <3>1, <2>8, <4>1, <4>2 DEF Noted
    <3> QED BY <3>5, <3>6
  <2>9. AddrInv'
    BY <1>1, <2>1, <2>7, <2>8 DEF Addresses, AddrInv, Noted, Inside
  <2>10. LocatedRight'
    BY <2>1 DEF Addresses, LocatedRight
  <2> QED BY <2>3, <2>5, <2>6, <2>9, <2>10 DEF Addresses
<1> QED BY <1>2, <1>3

LEMMA AddrOpen == FileInv /\ ~crash /\ Addresses /\ (OpenFree \/ OpenAlloc) => Addresses'
<1> SUFFICES ASSUME FileInv, Addresses, ~crash, OpenFree \/ OpenAlloc PROVE Addresses'
  OBVIOUS
<1>1. buf # "freed" \/ tpc = "alloc"
  BY DEF FileInv, AloneInv
<1>2. /\ tpc \in {"OPEN", "alloc"} /\ tpc' \in {"alloc", "base"} /\ cur' = cur
      /\ num' = IF tpc = "OPEN" THEN Num ELSE num
      /\ addr' = addr \/ addr' = [k \in DOMAIN addr |-> Junk]
      /\ noBuffer' = noBuffer \/ noBuffer'
      /\ UNCHANGED <<bInited, base, sign, queue, disk, client>>
  BY <1>1 DEF OpenFree, OpenAlloc
<1>3. Sent(cur) /\ cur.op = "OPEN"
  BY <1>2 DEF FileInv, QueueInv, Sent, SentAt, Steps, Ops
<1>4. \A c \in Clients : alone[c] => cpc[c] = "opening"
  BY <1>2, <1>3, ServesAlone DEF FileInv, Sent, SentAt, Waits
<1>5. DataInv'
  BY <1>2 DEF Addresses, DataInv, client, Junk
<1>6. MessageInv'
  BY <1>2, <1>3 DEF Addresses, MessageInv, Fresh, client
<1>7. SizeInv'
  BY <1>2, <1>4 DEF Addresses, SizeInv, Inside, client
<1>8. AddrInv' /\ LocatedRight'
  BY <1>2, <1>4 DEF AddrInv, LocatedRight, Inside, client
<1> QED BY <1>5, <1>6, <1>7, <1>8 DEF Addresses

LEMMA AddrOpenInit == FileInv /\ Addresses /\ OpenInit => Addresses'
<1> SUFFICES ASSUME FileInv, Addresses, OpenInit PROVE Addresses'
  OBVIOUS
<1>1. /\ tpc = "base" /\ tpc' = "idle" /\ bInited' = TRUE /\ base' = Base
      /\ cpc' = [cpc EXCEPT ![cur.who] = "ready"]
      /\ UNCHANGED <<buf, addr, num, sign, queue, disk, dwLockSign, run, got, alone, noBuffer>>
  BY DEF OpenInit, At, Finish
<1>2. Sent(cur) /\ cur.op = "OPEN" /\ cur.who \in Clients
  BY <1>1 DEF FileInv, QueueInv, Sent, SentAt, Steps, Ops
<1>3. cpc'[cur.who] = "ready" /\ \A d \in Clients : d # cur.who => cpc'[d] = cpc[d]
  BY <1>1, <1>2 DEF FileInv, TypeInv
<1>4. DataInv'
  BY <1>1 DEF Addresses, DataInv
<1>5. MessageInv'
  BY <1>1, <1>2, <1>3 DEF Addresses, MessageInv, Fresh
<1>6. \A c \in Clients : alone[c] => c = cur.who
  BY <1>1, ServesAlone DEF FileInv
<1>7. SizeInv'
  BY <1>1, <1>6 DEF Addresses, SizeInv
<1>8. AddrInv' /\ LocatedRight'
  BY <1>1, <1>2, <1>3, <1>6 DEF AddrInv, LocatedRight, Inside
<1> QED BY <1>4, <1>5, <1>7, <1>8 DEF Addresses

LEMMA AddrServeClose == FileInv /\ Addresses /\ ServeClose => Addresses'
<1> SUFFICES ASSUME FileInv, Addresses, ServeClose PROVE Addresses'
  OBVIOUS
<1>1. CASE Crash
  BY <1>1, AddrCrash
<1>2. CASE ~Crash
  <2>1. /\ tpc = "CLOSE" /\ tpc' = "idle" /\ base' = 0
        /\ cpc' = [cpc EXCEPT ![cur.who] = "off"]
        /\ UNCHANGED <<addr, sign, queue, disk, dwLockSign, run, got, alone, noBuffer>>
    BY <1>2 DEF ServeClose, At, Finish
  <2>2. Sent(cur) /\ cur.op = "CLOSE" /\ cur.who \in Clients
    BY <2>1 DEF FileInv, QueueInv, Sent, SentAt, Steps, Ops
  <2>3. cpc'[cur.who] = "off" /\ \A d \in Clients : d # cur.who => cpc'[d] = cpc[d]
    BY <2>1, <2>2 DEF FileInv, TypeInv
  <2>4. DataInv'
    BY <2>1 DEF Addresses, DataInv
  <2>5. MessageInv'
    BY <2>1, <2>2, <2>3 DEF Addresses, MessageInv, Fresh
  <2>6. \A c \in Clients : alone[c] => c = cur.who
    BY <2>1, ServesAlone DEF FileInv
  <2>7. SizeInv'
    BY <2>1, <2>3, <2>6 DEF SizeInv, Inside
  <2>8. AddrInv' /\ LocatedRight'
    BY <2>1, <2>3, <2>6 DEF AddrInv, LocatedRight, Inside
  <2> QED BY <2>4, <2>5, <2>7, <2>8 DEF Addresses
<1> QED BY <1>1, <1>2

LEMMA AddrServeCopy == FileInv /\ Addresses /\ ServeCopy => Addresses'
<1> SUFFICES ASSUME FileInv, Addresses, ServeCopy PROVE Addresses'
  OBVIOUS
<1>1. CASE Crash
  BY <1>1, AddrCrash
<1>2. CASE ~Crash
  <2> DEFINE c == cur.who
  <2>1. /\ tpc = "COPY" /\ tpc' = "idle"
        /\ got' = [got EXCEPT ![c] = [k \in DOMAIN addr |-> IF k < cur.count THEN addr[k] ELSE @[k]]]
        /\ cpc' = [cpc EXCEPT ![c] = "located"]
        /\ UNCHANGED <<device, queue, disk, dwLockSign, run, alone, noBuffer>>
    BY <1>2 DEF ServeCopy, At, Finish
  <2>2. Sent(cur) /\ cur.op = "COPY" /\ c \in Clients /\ cpc[c] = "copying"
    BY <2>1 DEF FileInv, QueueInv, Sent, SentAt, Steps, Ops, Waits
  <2>3. cpc'[c] = "located" /\ \A d \in Clients : d # c => cpc'[d] = cpc[d]
    BY <2>1, <2>2 DEF FileInv, TypeInv
  <2>4. DataInv'
    BY <2>1, <2>2 DEF Addresses, DataInv, device
  <2>5. MessageInv'
    BY <2>1, <2>2, <2>3 DEF Addresses, MessageInv, Fresh
  <2>6. \A d \in Clients : alone[d] => d = c
    BY <2>1, ServesAlone DEF FileInv
  <2>7. SizeInv'
    BY <2>1, <2>2, <2>6 DEF Addresses, SizeInv, Inside, device
  <2>8. AddrInv'
    BY <2>1, <2>2, <2>3, <2>6 DEF Addresses, AddrInv, Inside, device
  <2>9. LocatedRight'
    <3>1. ASSUME alone[c], ~noBuffer, NEW m \in Marks(c) PROVE got'[c][Index(c, m)] = Base + Sector(c, m)
      <4>1. Noted(c) /\ run[c][m[1]] \in {"ok", "fail"}
        BY <2>2, <3>1, MarkFacts DEF Addresses, AddrInv, MessageInv
      <4>2. addr[Index(c, m)] = Base + Sector(c, m)
        BY <4>1 DEF Noted
      <4>3. Index(c, m) < cur.count /\ Index(c, m) \in DOMAIN addr
        BY <2>1, <2>2, MarkFacts DEF Addresses, MessageInv, Fresh, DataInv
      <4> QED BY <2>1, <2>2, <4>2, <4>3 DEF Addresses, DataInv
    <3> QED BY <2>1, <2>6, <3>1 DEF LocatedRight
  <2> QED BY <2>4, <2>5, <2>7, <2>8, <2>9 DEF Addresses
<1> QED BY <1>1, <1>2

LEMMA AddrNext == FileInv /\ Addresses /\ [Next]_vars => Addresses'
<1> SUFFICES ASSUME FileInv, Addresses, [Next]_vars PROVE Addresses'
  OBVIOUS
<1>1. CASE UNCHANGED vars
  BY <1>1 DEF vars, Addresses, DataInv, MessageInv, Fresh, SizeInv, AddrInv, LocatedRight, Noted, Inside,
              device, client, thread
<1>2. CASE ~crash /\ Thread
  BY <1>2, AddrTake, AddrServeUnmapped, AddrServeWrite, AddrOpen, AddrOpenInit, AddrServeClose, AddrServeCopy DEF Thread
<1>3. ASSUME NEW c \in Clients, Client(c) PROVE Addresses'
  BY <1>3, AddrInitFileLocater, AddrSetSign, AddrReadWrite, AddrCopyData, AddrLeave DEF Client
<1> QED BY <1>1, <1>2, <1>3 DEF Next

THEOREM AddressesCorrect == Spec => []Addresses
BY AddrInit, AddrNext, InvInit, InvNext, Correct, PTL DEF Spec

\* A program that has the volume to itself is given the places its file's
\* sectors are at, whatever its file is and whatever writes fail.
THEOREM LocatesRight == Spec => []LocatedRight
<1>1. Addresses => LocatedRight
  BY DEF Addresses
<1> QED BY <1>1, AddressesCorrect, PTL

-----------------------------------------------------------------------------
(* What reaches the disk.                                                  *)

\* The thread passes down what is not marked; a sector of the last run of
\* them that is not written is a failure that is reported.
LEMMA DiskServeWrite ==
  ASSUME FileInv, Addresses, ServeWrite, ~Crash
  PROVE  LET c  == cur.who
             r  == cur.run
             e  == Runs[c][r].entries
             at == Runs[c][r].at
         IN /\ c \in Clients /\ r \in DOMAIN Runs[c] /\ cpc[c] = "writing" /\ cpc' = cpc
            /\ \E s \in {"ok", "fail"} : run' = [run EXCEPT ![c][r] = s]
            /\ \A x \in 0..Size-1 : x \notin Area(c, r) => disk'[x] = disk[x]
            /\ \A i \in DOMAIN e : disk'[at + i - 1] = "mark" =>
                 (e[i] # Plain /\ ~(e[i] < num)) \/ disk[at + i - 1] = "mark"
            /\ run'[c][r] = "ok" => \A i \in DOMAIN e :
                 (\A j \in i..Len(e) : e[j] = Plain) => disk'[at + i - 1] = "data"
<1> DEFINE c  == cur.who
           r  == cur.run
           e  == Runs[c][r].entries
           at == Runs[c][r].at
<1>1. /\ tpc = "WRITE" /\ c \in Clients /\ r \in DOMAIN Runs[c] /\ cpc[c] = "writing"
  <2>1. tpc = "WRITE"
    BY DEF ServeWrite
  <2>2. Sent(cur) /\ tpc \in Steps(cur.op)
    BY <2>1 DEF FileInv, QueueInv
  <2> QED BY <2>1, <2>2 DEF Sent, SentAt, Steps, Ops, Waits
<1>2. at \in Nat /\ e \in Seq({Plain} \cup 0..Num-1) /\ at + Len(e) <= Size
  BY <1>1, WriteFacts
<1>3. Len(e) \in Nat /\ DOMAIN e = 1..Len(e)
  <2> HIDE DEF e
  <2> QED BY <1>2
<1>4. PICK lost \in SUBSET Parts(e) :
        /\ disk' = [x \in DOMAIN disk |->
             IF x - at + 1 \notin Kept(e) \/ (\E s \in lost : x - at + 1 \in s) THEN disk[x]
             ELSE IF e[x - at + 1] = Plain THEN "data" ELSE "mark"]
        /\ run' = [run EXCEPT ![c][r] = IF \E s \in lost : Max(Kept(e)) \in s THEN "fail" ELSE "ok"]
        /\ cpc' = cpc
  BY DEF ServeWrite
<1>5. Kept(e) = DOMAIN e \ Stops(e)
  BY <1>2, KeptUnmarked
<1>6. DOMAIN disk = 0..Size-1
  BY DEF Addresses, DataInv
<1>7. ASSUME NEW x \in 0..Size-1, x \notin Area(c, r) PROVE disk'[x] = disk[x]
  <2>1. Area(c, r) = at .. at + Len(e) - 1
    BY DEF Area
  <2>2. x - at + 1 \notin DOMAIN e
    <3>1. x \in Int
      BY FileLocAssumption
    <3>2. x \notin at .. at + Len(e) - 1
      BY <1>7, <2>1
    <3> HIDE DEF at, e
    <3> QED BY <1>2, <1>3, <3>1, <3>2
  <2> QED BY <1>4, <1>5, <1>6, <2>2
<1>8. ASSUME NEW i \in DOMAIN e
      PROVE  /\ i \in 1..Len(e) /\ i \in Nat /\ at + i - 1 \in DOMAIN disk
             /\ disk'[at + i - 1] = IF i \notin Kept(e) \/ (\E s \in lost : i \in s) THEN disk[at + i - 1]
                                    ELSE IF e[i] = Plain THEN "data" ELSE "mark"
  <2>1. i \in 1..Len(e) /\ i \in Nat /\ at + i - 1 \in 0..Size-1 /\ (at + i - 1) - at + 1 = i
    <3>1. Len(e) \in Nat /\ i \in 1..Len(e)
      BY <1>3
    <3> HIDE DEF at, e
    <3> QED BY <1>2, <3>1, FileLocAssumption
  <2>2. at + i - 1 \in DOMAIN disk
    BY <1>6, <2>1
  <2>3. disk'[at + i - 1] = IF (at + i - 1) - at + 1 \notin Kept(e) \/ (\E s \in lost : (at + i - 1) - at + 1 \in s)
                           THEN disk[at + i - 1]
                           ELSE IF e[(at + i - 1) - at + 1] = Plain THEN "data" ELSE "mark"
    <3> HIDE DEF at
    <3> QED BY <1>4, <2>2
  <2> QED BY <2>1, <2>2, <2>3
<1>9. ASSUME NEW i \in DOMAIN e, disk'[at + i - 1] = "mark"
      PROVE  (e[i] # Plain /\ ~(e[i] < num)) \/ disk[at + i - 1] = "mark"
  BY <1>5, <1>8, <1>9 DEF Stops, Marked
<1>10. ASSUME run'[c][r] = "ok", NEW i \in DOMAIN e, \A j \in i..Len(e) : e[j] = Plain
      PROVE  disk'[at + i - 1] = "data"
  <2> DEFINE n == Len(e)
  <2>1. n \in Nat /\ DOMAIN e = 1..n /\ i \in 1..n
    BY <1>2
  <2>2. \A j \in i..n : j \in Kept(e)
    BY <1>5, <1>10, <2>1 DEF Stops, Marked
  <2>3. Max(Kept(e)) = n
    <3>1. Kept(e) \subseteq 0..n /\ n \in Kept(e)
      <4>1. n \in i..n
        <5> HIDE DEF n
        <5> QED BY <2>1
      <4>2. Kept(e) \subseteq 1..n
        BY <1>5, <2>1
      <4> HIDE DEF n
      <4> QED BY <2>1, <2>2, <4>1, <4>2
    <3>2. Max(Kept(e)) \in Kept(e) /\ n <= Max(Kept(e))
      BY <2>1, <3>1, Largest
    <3>3. Max(Kept(e)) \in 0..n
      BY <3>1, <3>2
    <3> HIDE DEF n
    <3> QED BY <2>1, <3>2, <3>3
  <2>4. \A s \in lost : n \notin s
    <3>1. ~(\E s \in lost : Max(Kept(e)) \in s)
      BY <1>1, <1>4, <1>10 DEF FileInv, TypeInv
    <3> QED BY <2>3, <3>1
  <2>5. ASSUME NEW s \in lost PROVE i \notin s
    <3>1. PICK a \in Kept(e), b \in Kept(e) : s = a..b /\ b + 1 \notin Kept(e)
      BY DEF Parts
    <3>2. a \in 1..n /\ b \in 1..n
      BY <1>5, <2>1
    <3>3. b + 1 \notin i..n
      BY <2>2, <3>1
    <3>4. n \notin a..b
      BY <2>4, <3>1
    <3> HIDE DEF n
    <3> QED BY <2>1, <3>1, <3>2, <3>3, <3>4
  <2>6. i \in Kept(e) /\ e[i] = Plain
    BY <1>10, <2>1, <2>2
  <2> QED BY <1>8, <2>5, <2>6
<1> QED BY <1>1, <1>4, <1>6, <1>7, <1>9, <1>10

\* The marked sectors of a program that has the volume to itself never reach
\* the disk: the thread finds the size of the buffer set, though there may be none.
LEMMA MarkStep == FileInv /\ Addresses /\ [Next]_vars =>
  \A c \in Clients : alone[c] =>
    \A m \in Marks(c) : disk'[Sector(c, m)] = "mark" => disk[Sector(c, m)] = "mark"
<1> SUFFICES ASSUME FileInv, Addresses, [Next]_vars, NEW c \in Clients, alone[c],
                    NEW m \in Marks(c), disk'[Sector(c, m)] = "mark"
             PROVE  disk[Sector(c, m)] = "mark"
  OBVIOUS
<1>1. CASE ServeWrite /\ ~Crash
  <2> DEFINE r == cur.run
             e == Runs[cur.who][r].entries
  <2>1. cur.who \in Clients /\ cpc[cur.who] = "writing" /\ r \in DOMAIN Runs[cur.who]
    BY <1>1, DiskServeWrite
  <2>2. cur.who = c
    BY <2>1 DEF FileInv, AloneInv
  <2>3. num = Num
    BY <2>1, <2>2 DEF Addresses, SizeInv, Inside
  <2>4. CASE m[1] = r
    <3>1. m[2] \in DOMAIN e /\ Sector(c, m) = Runs[c][r].at + m[2] - 1 /\ e[m[2]] \in 0..Num-1
      BY <2>2, <2>4, MarkFacts DEF Sector, Index
    <3>2. e[m[2]] < Num
      <4>1. e[m[2]] \in 0..Num-1
        BY <3>1
      <4> HIDE DEF e
      <4> QED BY <4>1, FileLocAssumption
    <3> QED BY <1>1, <2>2, <2>3, <3>1, <3>2, DiskServeWrite
  <2>5. CASE m[1] # r
    <3>1. Sector(c, m) \in Area(c, m[1]) /\ Sector(c, m) \in 0..Size-1 /\ m[1] \in DOMAIN Runs[c]
      BY MarkArea, MarkFacts
    <3>2. Sector(c, m) \notin Area(c, r)
      BY <2>1, <2>2, <2>5, <3>1, FileLocAssumption
    <3> QED BY <1>1, <2>2, <3>1, <3>2, DiskServeWrite
  <2> QED BY <2>4, <2>5
<1>2. ASSUME NEW d \in Clients, NEW r \in DOMAIN Runs[d], ReadWrite(d, r) PROVE UNCHANGED disk
  <2>1. d = c
    BY <1>2 DEF ReadWrite, FileInv, AloneInv
  <2>2. bInited
    BY <1>2, <2>1 DEF ReadWrite, Addresses, SizeInv, Inside
  <2> QED BY <1>2, <2>2 DEF ReadWrite
<1>3. CASE UNCHANGED disk
  BY <1>3
<1>4. CASE UNCHANGED vars
  BY <1>3, <1>4 DEF vars
<1>5. CASE Thread
  BY <1>1, <1>3, <1>5 DEF Thread, Take, ServeUnmapped, ServeWrite, Crash, OpenFree, OpenAlloc, OpenInit, ServeClose,
                              ServeCopy
<1>6. ASSUME NEW d \in Clients, Client(d) PROVE UNCHANGED disk
  BY <1>2, <1>6 DEF Client, Init_FileLocater, SetSign, CopyData, Free_FileLocater, ClearBuffer, ClearRest
<1> QED BY <1>3, <1>4, <1>5, <1>6 DEF Next

THEOREM MarksNeverWritten == Spec => MarksStayOff
<1>1. FileInv /\ Addresses /\ [Next]_vars =>
        [\A c \in Clients : alone[c] =>
           \A m \in Marks(c) : disk'[Sector(c, m)] = "mark" => disk[Sector(c, m)] = "mark"]_vars
  BY MarkStep
<1> QED BY <1>1, Correct, AddressesCorrect, PTL DEF Spec, MarksStayOff

-----------------------------------------------------------------------------
(* What a write that is reported as done has done.                         *)

\* The unmarked sectors behind the last marked one of write r are on the disk.
Done(c, r) ==
  LET e == Runs[c][r].entries
  IN \A i \in DOMAIN e : (\A j \in i..Len(e) : e[j] = Plain) => disk[Runs[c][r].at + i - 1] = "data"

Querying == {"writing", "copying", "located"}

WriteInv ==
  \A c \in Clients : cpc[c] \in Querying => \A r \in DOMAIN Runs[c] : run[c][r] = "ok" => Done(c, r)

\* A sector of a write lies on the volume, in the area of the write.
LEMMA EntryArea ==
  ASSUME NEW c \in Clients, NEW r \in DOMAIN Runs[c], NEW i \in DOMAIN Runs[c][r].entries
  PROVE  Runs[c][r].at + i - 1 \in Area(c, r) /\ Runs[c][r].at + i - 1 \in 0..Size-1
<1> DEFINE a == Runs[c][r].at
           e == Runs[c][r].entries
<1>1. e \in Seq({Plain} \cup 0..Num-1) /\ a \in Nat /\ a + Len(e) <= Size
  BY WriteFacts
<1>2. Len(e) \in Nat /\ i \in 1..Len(e)
  <2>1. i \in DOMAIN e
    OBVIOUS
  <2> HIDE DEF e
  <2> QED BY <1>1, <2>1
<1>3. Area(c, r) = a .. a + Len(e) - 1
  BY DEF Area
<1> HIDE DEF a, e
<1>4. a + i - 1 \in a .. a + Len(e) - 1
  BY <1>1, <1>2
<1>5. a + i - 1 \in 0..Size-1
  BY <1>1, <1>2, FileLocAssumption
<1> QED BY <1>3, <1>4, <1>5 DEF a

\* A write changes its own sectors only.
LEMMA WriteStep ==
  ASSUME FileInv, WriteInv, NEW c \in Clients, NEW r \in DOMAIN Runs[c], cpc' = cpc,
         NEW s, run' = [run EXCEPT ![c][r] = s], s = "ok" => Done(c, r)',
         \A x \in 0..Size-1 : x \notin Area(c, r) => disk'[x] = disk[x]
  PROVE  WriteInv'
<1> SUFFICES ASSUME NEW d \in Clients, cpc[d] \in Querying, NEW q \in DOMAIN Runs[d], run'[d][q] = "ok"
             PROVE  Done(d, q)'
  BY DEF WriteInv
<1>1. CASE d = c /\ q = r
  BY <1>1 DEF FileInv, TypeInv
<1>2. CASE ~(d = c /\ q = r)
  <2>1. Done(d, q)
    BY <1>2 DEF WriteInv, FileInv, TypeInv
  <2>2. Area(c, r) \cap Area(d, q) = {}
    BY <1>2, FileLocAssumption
  <2>3. \A i \in DOMAIN Runs[d][q].entries : disk'[Runs[d][q].at + i - 1] = disk[Runs[d][q].at + i - 1]
    BY <2>2, EntryArea
  <2> QED BY <2>1, <2>3 DEF Done
<1> QED BY <1>1, <1>2

\* A write that finds no buffer open is carried out by the caller.
LEMMA WriteReadWrite ==
  ASSUME FileInv, Addresses, WriteInv, NEW c \in Clients, NEW r \in DOMAIN Runs[c], ReadWrite(c, r)
  PROVE  WriteInv'
<1> DEFINE e  == Runs[c][r].entries
           at == Runs[c][r].at
<1>1. cpc' = cpc
  BY DEF ReadWrite
<1>2. e \in Seq({Plain} \cup 0..Num-1) /\ at \in Nat
  BY WriteFacts
<1>3. DOMAIN disk = 0..Size-1
  BY DEF Addresses, DataInv
<1>4. CASE UNCHANGED disk /\ \E s \in {"queued", "fail"} : run' = [run EXCEPT ![c][r] = s]
  BY <1>1, <1>4, WriteStep
<1>5. CASE /\ run' = [run EXCEPT ![c][r] = "ok"]
           /\ disk' = [x \in DOMAIN disk |->
                        IF x - at + 1 \notin DOMAIN e THEN disk[x]
                        ELSE IF e[x - at + 1] = Plain THEN "data" ELSE "mark"]
  <2>1. ASSUME NEW x \in 0..Size-1, x \notin Area(c, r) PROVE disk'[x] = disk[x]
    <3>1. Area(c, r) = at .. at + Len(e) - 1
      BY DEF Area
    <3>2. x - at + 1 \notin DOMAIN e
      <4>1. x \in Int /\ x \notin at .. at + Len(e) - 1
        BY <2>1, <3>1, FileLocAssumption
      <4> HIDE DEF at, e
      <4> QED BY <1>2, <4>1
    <3> QED BY <1>3, <1>5, <2>1, <3>2
  <2>2. ASSUME NEW i \in DOMAIN e, \A j \in i..Len(e) : e[j] = Plain PROVE disk'[at + i - 1] = "data"
    <3>1. i \in 1..Len(e) /\ Len(e) \in Nat
      <4> HIDE DEF e
      <4> QED BY <1>2, <2>2
    <3>2. e[i] = Plain
      <4>1. i \in i..Len(e)
        <5> HIDE DEF e
        <5> QED BY <3>1
      <4> QED BY <2>2, <4>1
    <3>3. at + i - 1 \in DOMAIN disk
      BY <1>3, <2>2, EntryArea
    <3>4. (at + i - 1) - at + 1 = i
      <4> HIDE DEF at
      <4> QED BY <1>2, <3>1
    <3>5. disk'[at + i - 1] = IF (at + i - 1) - at + 1 \notin DOMAIN e THEN disk[at + i - 1]
                             ELSE IF e[(at + i - 1) - at + 1] = Plain THEN "data" ELSE "mark"
      <4> HIDE DEF at
      <4> QED BY <1>5, <3>3
    <3> QED BY <2>2, <3>2, <3>4, <3>5
  <2>3. Done(c, r)'
    BY <2>2 DEF Done
  <2> QED BY <1>1, <1>5, <2>1, <2>3, WriteStep
<1> QED BY <1>4, <1>5 DEF ReadWrite

LEMMA WriteServe == FileInv /\ Addresses /\ WriteInv /\ ServeWrite => WriteInv'
<1> SUFFICES ASSUME FileInv, Addresses, WriteInv, ServeWrite PROVE WriteInv'
  OBVIOUS
<1>1. CASE Crash
  BY <1>1 DEF Crash, WriteInv, Done, client
<1>2. CASE ~Crash
  <2> DEFINE c == cur.who
             r == cur.run
  <2>1. /\ c \in Clients /\ r \in DOMAIN Runs[c] /\ cpc' = cpc
        /\ \A x \in 0..Size-1 : x \notin Area(c, r) => disk'[x] = disk[x]
        /\ \E s \in {"ok", "fail"} : run' = [run EXCEPT ![c][r] = s]
        /\ run'[c][r] = "ok" => \A i \in DOMAIN Runs[c][r].entries :
             (\A j \in i..Len(Runs[c][r].entries) : Runs[c][r].entries[j] = Plain) =>
               disk'[Runs[c][r].at + i - 1] = "data"
    BY <1>2, DiskServeWrite
  <2>2. PICK d \in Clients : d = c
    BY <2>1
  <2>3. PICK q \in DOMAIN Runs[d] : q = r
    BY <2>1, <2>2
  <2>4. run'[d][q] = "ok" => Done(d, q)'
    BY <2>1, <2>2, <2>3 DEF Done
  <2>5. PICK s \in {"ok", "fail"} : run' = [run EXCEPT ![d][q] = s]
    BY <2>1, <2>2, <2>3
  <2>6. run'[d][q] = s
    BY <2>5 DEF FileInv, TypeInv
  <2> QED BY <2>1, <2>2, <2>3, <2>4, <2>5, <2>6, WriteStep
<1> QED BY <1>1, <1>2

LEMMA WriteNext == FileInv /\ Addresses /\ WriteInv /\ [Next]_vars => WriteInv'
<1> SUFFICES ASSUME FileInv, Addresses, WriteInv, [Next]_vars PROVE WriteInv'
  OBVIOUS
<1>1. ASSUME UNCHANGED <<disk, run>>, \A d \in Clients : cpc'[d] \in Querying => cpc[d] \in Querying
      PROVE  WriteInv'
  BY <1>1 DEF WriteInv, Done
<1>2. CASE UNCHANGED vars
  BY <1>1, <1>2 DEF vars, client
<1>3. ASSUME NEW c \in Clients, SetSign(c) PROVE WriteInv'
  <2>1. run' = [run EXCEPT ![c] = [r \in DOMAIN Runs[c] |-> "todo"]] /\ cpc' = [cpc EXCEPT ![c] = "writing"]
        /\ UNCHANGED disk
    BY <1>3 DEF SetSign, At
  <2>2. /\ \A r \in DOMAIN Runs[c] : run'[c][r] = "todo"
        /\ \A d \in Clients : d # c => run'[d] = run[d] /\ cpc'[d] = cpc[d]
    BY <2>1 DEF FileInv, TypeInv
  <2> QED BY <2>1, <2>2 DEF WriteInv, Done
<1>4. ASSUME NEW c \in Clients, \/ Init_FileLocater(c) \/ CopyData(c) \/ Free_FileLocater(c)
                                \/ ClearBuffer(c) \/ ClearRest(c)
      PROVE  WriteInv'
  <2>1. /\ UNCHANGED <<disk, run>>
        /\ \E l : cpc' = [cpc EXCEPT ![c] = l] /\ (l \in Querying => cpc[c] \in Querying)
    BY <1>4 DEF Init_FileLocater, CopyData, Free_FileLocater, ClearBuffer, ClearRest, At, Querying
  <2> QED BY <1>1, <2>1 DEF FileInv, TypeInv
<1>5. CASE Take \/ ServeUnmapped \/ OpenFree \/ OpenAlloc
  BY <1>1, <1>5 DEF Take, ServeUnmapped, OpenFree, OpenAlloc, Crash, client
<1>6. CASE OpenInit \/ ServeClose
  <2>1. UNCHANGED <<disk, run>> /\ \E l \in {"ready", "off"} : cpc' = [cpc EXCEPT ![cur.who] = l] \/ cpc' = cpc
    BY <1>6 DEF OpenInit, ServeClose, Crash, client, At
  <2> QED BY <1>1, <2>1 DEF FileInv, TypeInv, Querying
<1>7. CASE ServeCopy
  <2>1. UNCHANGED <<disk, run>> /\ tpc = "COPY" /\ (cpc' = [cpc EXCEPT ![cur.who] = "located"] \/ cpc' = cpc)
    BY <1>7 DEF ServeCopy, Crash, client, At
  <2>2. Sent(cur) /\ cur.op = "COPY" /\ cpc[cur.who] = "copying"
    BY <2>1 DEF FileInv, QueueInv, Sent, SentAt, Steps, Ops, Waits
  <2> QED BY <1>1, <2>1, <2>2 DEF FileInv, TypeInv, Querying
<1> QED BY <1>2, <1>3, <1>4, <1>5, <1>6, <1>7, WriteReadWrite, WriteServe DEF Next, Thread, Client

\* What a program is told was written is on the disk behind its marked sectors,
\* however many programs there are and whatever fails.
THEOREM PlainReachesDisk == Spec => []PlainWritten
<1>1. Init => WriteInv
  BY DEF Init, WriteInv, Querying
<1>2. WriteInv => PlainWritten
  BY DEF WriteInv, PlainWritten, Done, Querying
<1> QED BY <1>1, <1>2, WriteNext, Correct, AddressesCorrect, PTL DEF Spec

-----------------------------------------------------------------------------
(* Types.                                                                  *)

Addrs == {Junk} \cup 0..Base+Size-1

\* What the types need beside the invariants above.
DeviceInv ==
  /\ buf \in {"null", "live", "freed"} /\ num \in {0, Num} /\ crash \in BOOLEAN
  /\ sign \in 0..MaxQueries+1 /\ \A c \in Clients : dwLockSign[c] \in 0..MaxQueries+1
  /\ addr \in [0..Num-1 -> Addrs]

LEMMA DeviceServeWrite == FileInv /\ Addresses /\ DeviceInv /\ ServeWrite => DeviceInv'
<1> SUFFICES ASSUME FileInv, Addresses, DeviceInv, ServeWrite PROVE DeviceInv'
  OBVIOUS
<1> DEFINE c  == cur.who
           r  == cur.run
           e  == Runs[c][r].entries
           at == Runs[c][r].at
           noted == {i \in DOMAIN e : Marked(e[i]) /\ cur.sign = sign}
           with(k) == {i \in noted : e[i] = k}
<1>1. CASE Crash
  BY <1>1 DEF Crash, DeviceInv, device, client
<1>2. CASE ~Crash
  <2>1. c \in Clients /\ r \in DOMAIN Runs[c]
    BY <1>2, DiskServeWrite
  <2>2. /\ addr' = [k \in DOMAIN addr |->
                      IF \E i \in noted : e[i] = k THEN base + at + Max(with(k)) - 1 ELSE addr[k]]
        /\ UNCHANGED <<buf, num, sign, dwLockSign>>
        /\ crash' = crash
    BY <1>2 DEF ServeWrite
  <2>3. at \in Nat /\ e \in Seq({Plain} \cup 0..Num-1) /\ at + Len(e) <= Size
    BY <2>1, WriteFacts
  <2>4. ASSUME NEW k \in 0..Num-1, with(k) # {} PROVE base + at + Max(with(k)) - 1 \in Addrs
    <3>1. Max(with(k)) \in with(k)
      <4>1. with(k) \subseteq DOMAIN e
        OBVIOUS
      <4> HIDE DEF with, e
      <4> QED BY <2>3, <2>4, <4>1, NotedNumber
    <3>2. Max(with(k)) \in 1..Len(e) /\ Len(e) \in Nat
      <4>1. Max(with(k)) \in DOMAIN e
        BY <3>1
      <4> HIDE DEF e, with
      <4> QED BY <2>3, <4>1
    <3>3. base \in {0, Base}
      BY DEF Addresses, DataInv
    <3> HIDE DEF at, e, with
    <3> QED BY <2>3, <3>2, <3>3, FileLocAssumption DEF Addrs
  <2>5. addr' \in [0..Num-1 -> Addrs]
    <3>1. ASSUME NEW k \in 0..Num-1 PROVE addr'[k] \in Addrs
      <4>1. CASE with(k) = {}
        BY <2>2, <4>1 DEF DeviceInv
      <4>2. CASE with(k) # {}
        BY <2>2, <2>4, <4>2 DEF DeviceInv
      <4> QED BY <4>1, <4>2
    <3> QED BY <2>2, <3>1 DEF DeviceInv
  <2> QED BY <2>2, <2>5 DEF DeviceInv
<1> QED BY <1>1, <1>2

LEMMA DeviceNext == FileInv /\ Addresses /\ DeviceInv /\ [Next]_vars => DeviceInv'
<1> SUFFICES ASSUME FileInv, Addresses, DeviceInv, [Next]_vars PROVE DeviceInv'
  OBVIOUS
<1>1. CASE UNCHANGED vars
  BY <1>1 DEF DeviceInv, vars, device, client
<1>2. ASSUME NEW c \in Clients, SetSign(c) PROVE DeviceInv'
  <2>1. /\ dwLockSign[c] <= MaxQueries /\ sign' = dwLockSign[c] + 1
        /\ dwLockSign' = [dwLockSign EXCEPT ![c] = @ + 1]
        /\ UNCHANGED <<buf, num, addr, crash>>
    BY <1>2 DEF SetSign
  <2>2. dwLockSign[c] + 1 \in 0..MaxQueries+1
    BY <2>1, FileLocAssumption DEF DeviceInv
  <2>3. /\ dwLockSign'[c] = dwLockSign[c] + 1
        /\ \A d \in Clients : d # c => dwLockSign'[d] = dwLockSign[d]
    BY <2>1 DEF FileInv, TypeInv
  <2> QED BY <2>1, <2>2, <2>3 DEF DeviceInv
<1>3. ASSUME NEW c \in Clients, Init_FileLocater(c) PROVE DeviceInv'
  <2>1. dwLockSign' = [dwLockSign EXCEPT ![c] = 1] /\ UNCHANGED <<buf, num, addr, sign, crash>>
    BY <1>3 DEF Init_FileLocater, device
  <2>2. 1 \in 0..MaxQueries+1
    BY FileLocAssumption
  <2>3. \A d \in Clients : dwLockSign'[d] \in {1, dwLockSign[d]}
    BY <2>1 DEF FileInv, TypeInv
  <2> QED BY <2>1, <2>2, <2>3 DEF DeviceInv
<1>4. ASSUME NEW c \in Clients, NEW r \in DOMAIN Runs[c], ReadWrite(c, r) PROVE DeviceInv'
  BY <1>4 DEF ReadWrite, DeviceInv, device
<1>5. ASSUME NEW c \in Clients, CopyData(c) \/ Free_FileLocater(c) \/ ClearBuffer(c) \/ ClearRest(c)
      PROVE  DeviceInv'
  BY <1>5 DEF CopyData, Free_FileLocater, ClearBuffer, ClearRest, DeviceInv, device
<1>6. CASE Take \/ ServeUnmapped \/ OpenFree \/ OpenInit \/ ServeClose \/ ServeCopy
  BY <1>6 DEF Take, ServeUnmapped, OpenFree, OpenInit, ServeClose, ServeCopy, Crash, DeviceInv, device, client
<1>7. CASE OpenAlloc
  <2>1. addr' = [k \in DOMAIN addr |-> Junk] /\ buf' \in {"live", "null"} /\ UNCHANGED <<num, sign, dwLockSign, crash>>
    BY <1>7 DEF OpenAlloc, client
  <2> QED BY <2>1 DEF DeviceInv, Addrs
<1> QED BY <1>1, <1>2, <1>3, <1>4, <1>5, <1>6, <1>7, DeviceServeWrite DEF Next, Thread, Client

\* The driver and the DLL stay in the states their types allow.
THEOREM TypeCorrect == Spec => []TypeOK
<1>1. Init => DeviceInv
  <2>1. 0 \in 0..MaxQueries+1
    BY FileLocAssumption
  <2>2. Init => addr \in [0..Num-1 -> Addrs]
    BY DEF Init, Addrs
  <2> QED BY <2>1, <2>2 DEF Init, DeviceInv
<1>2. FileInv /\ Addresses /\ DeviceInv => TypeOK
  <2> SUFFICES ASSUME FileInv, Addresses, DeviceInv PROVE TypeOK
    OBVIOUS
  <2>1. \A i \in DOMAIN queue : queue[i].op \in {"WRITE", "OPEN", "CLOSE", "COPY"} /\ queue[i].who \in Clients
    BY DEF FileInv, QueueInv, Sent, SentAt, Ops
  <2>2. tpc \in {"idle", "WRITE", "OPEN", "alloc", "base", "CLOSE", "COPY"}
    BY DEF FileInv, QueueInv, Sent, SentAt, Ops, Steps
  <2> QED BY <2>1, <2>2 DEF TypeOK, FileInv, TypeInv, Places, Addresses, DataInv, DeviceInv, Addrs
<1> QED BY <1>1, <1>2, DeviceNext, Correct, AddressesCorrect, PTL DEF Spec

=============================================================================
