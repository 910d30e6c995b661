---------------------------- MODULE VirtualDisk ----------------------------
(***************************************************************************)
(* What the block mover promises the programs above it: a disk on which    *)
(* every sector keeps what was last written to it, wherever its data is    *)
(* and whatever is being moved.  One kind of write is not promised to last: *)
(* that of a sector which is just being copied may come undone, and leaves *)
(* the sector with something that it held before.                          *)
(***************************************************************************)
EXTENDS Integers

CONSTANTS
  App,       \* the sectors that hold data of applications
  Contents,  \* what a sector may hold
  Requests   \* the requests [start, size]

VARIABLES
  content,   \* what the applications have stored
  copying,   \* the sectors that are being copied, chosen by the mover
  stale,     \* for every sector, what it may fall back to
  reply      \* the answer to the last request

Offsets(q) == 0 .. q.size - 1
Allowed(q) == \A i \in Offsets(q) : q.start + i \in App

Refused == [op |-> "refused"]
Written == [op |-> "written"]
Found(q, b) == [op |-> "read", start |-> q.start, buf |-> b]

Init ==
  /\ content \in [App -> Contents]
  /\ stale = [x \in App |-> {}]
  /\ reply = Refused

\* A read returns what its sectors hold.
Read(q) ==
  /\ Allowed(q)
  /\ reply' = Found(q, [i \in Offsets(q) |-> content[q.start + i]])
  /\ UNCHANGED <<content, stale>>

\* A write changes its sectors, to whatever it brings, and no other.  Of those
\* being copied, what they held before may come back; the others keep what is
\* written.
Write(q) ==
  /\ Allowed(q)
  /\ reply' = Written
  /\ stale' \in [App -> SUBSET Contents]
  /\ content' \in [App -> Contents]
  /\ \A x \in App :
       IF x - q.start \notin Offsets(q)
       THEN stale'[x] = stale[x] /\ content'[x] = content[x]
       ELSE stale'[x] \subseteq IF x \in copying THEN {content[x]} \cup stale[x] ELSE {}

\* A request that names a sector without data is refused and changes nothing.
Refuse(q) ==
  /\ ~Allowed(q)
  /\ reply' = Refused
  /\ UNCHANGED <<content, stale>>

\* The mover goes on.  Sectors may fall back, and nothing else changes.
Move ==
  /\ UNCHANGED <<stale, reply>>
  /\ content' \in [App -> Contents]
  /\ \A x \in App : content'[x] \in {content[x]} \cup stale[x]

Next == Move \/ \E q \in Requests : Read(q) \/ Write(q) \/ Refuse(q)

Spec == Init /\ [][Next]_<<content, stale, reply>>

=============================================================================
