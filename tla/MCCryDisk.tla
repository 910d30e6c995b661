----------------------------- MODULE MCCryDisk -----------------------------
(* Instances of CryDisk for TLC.                                            *)
EXTENDS CryDisk

\* Two encrypted partitions on a hard disk of three sectors, one sector and two
\* sectors long; the longer one is also opened for another cipher.
Short1 == [start |-> 0, length |-> 1, key |-> "k1", type |-> 4, sign |-> "s1"]
Long2  == [start |-> 1, length |-> 2, key |-> "k2", type |-> 1, sign |-> "s2"]
Other2 == [Long2 EXCEPT !.type = 4]

\* The three highest bits; 0x55 has 2 there.
MCTypes == [s \in {"zero", "none", "55AA", "s1", "s2"} |->
  CASE s = "55AA" -> 2 [] s = "s1" -> 4 [] s = "s2" -> 1 [] OTHER -> 0]

MCFormatted == {Short1, Long2}
MCMedia     == {Short1, Long2, Other2}
MCBodies    == {"a", "b"}

ReadAt(s, n)  == [op |-> "read", start |-> s, size |-> n]
WriteAt(s, d) == [op |-> "write", start |-> s, size |-> Len(d), data |-> [i \in 0..Len(d)-1 |-> d[i+1]]]

\* Boot sectors, a first sector without the signature, and one that looks like
\* the disk's own.
MCRequests ==
  {[op |-> "open", medium |-> p] : p \in MCMedia}
    \cup {[op |-> "close"], [op |-> "flush"], ReadAt(0, 2),
          WriteAt(0, <<Plain("b", "55AA"), Plain("b", "zero")>>),
          WriteAt(0, <<Plain("a", "s2")>>)}

=============================================================================
