--------------------------- MODULE MCBlkMoverData ---------------------------
(* Instances of BlkMoverData: the disks, plans and environments checked.    *)
EXTENDS BlkMoverData, TLC

Plan(s, n, f, t, o) == [s |-> s, size |-> n, front |-> f, t |-> t, orig |-> o]

\* No action tells one content of a sector from another.
ContentsSymmetry == Permutations(Contents)

NoSys      == <<>>
NoLeftover == [i \in 1..Slots |-> FreeSlot]

\* Every group on the disk that may be moved from its end and does not reuse
\* the place of a system group.
AllGroups ==
  {r \in [s : Disk, size : 1..2, front : {FALSE}, t : Disk, orig : App] :
     /\ r.s + r.size <= Size /\ r.t + r.size <= Size /\ r.s # r.t
     /\ \A k \in DOMAIN Sys : ~Meets(r.t, r.size, Sys[k].s, Sys[k].size)}

\* Disk of 7 sectors: 0 to 3 in use, 1 belongs to the system and goes to 6.
Free7 == {[start |-> 4, size |-> 3]}
Sys7  == <<[s |-> 1, size |-> 1, t |-> 6]>>

\* Disk of 6 sectors: 0 to 2 in use, 0 belongs to the system and goes to 5.
Free6 == {[start |-> 3, size |-> 3]}
Sys6  == <<[s |-> 0, size |-> 1, t |-> 5]>>

\* A group that overlaps its target, and the same group moved on.
TwiceMoved == {Plan(1, 2, FALSE, 2, 1), Plan(2, 2, FALSE, 3, 1)}

\* Both plans are among those the theorems are about.
ASSUME Groups \in {AllGroups, TwiceMoved} => Orderly

\* A group that goes down by one sector, onto itself, front first.
FreeFront   == {[start |-> 0, size |-> 1]}
FrontGroups == {Plan(1, 2, TRUE, 0, 1)}

\* A group that takes the place of the system group, which is at 5 by then.
FreeStray   == {[start |-> 3, size |-> 3]}
SysStray    == <<[s |-> 1, size |-> 1, t |-> 5]>>
StrayGroups == {Plan(2, 1, FALSE, 1, 2)}

=============================================================================
