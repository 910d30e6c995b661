----------------------------- MODULE MCRelocate -----------------------------
(* Instances of Relocate for TLC.                                           *)
EXTENDS Relocate

G(s, n, t) == [s |-> s, n |-> n, t |-> t]

\* Three regions of which two have room: a gap inside the first, a sector in
\* front of the range and one behind the last group.
MCGroups == <<G(1, 1, 7), G(3, 1, 8), G(4, 1, 9), G(5, 1, 10)>>
MCEnds == <<2, 3, 4>>

Req(op, s, n) == [op |-> op, start |-> s, n |-> n, val |-> IF op = "read" THEN "old" ELSE "new"]

\* Reads from in front of the range to the last group and in front of it, a write
\* from the gap across the regions, and one behind the last group.
MCRequests == {Req("read", 0, 1), Req("read", 1, 5), Req("write", 2, 4), Req("write", 6, 1)}

=============================================================================
