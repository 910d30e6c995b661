------------------------------- MODULE MCFSMon -------------------------------
(* Instances of FSMon for TLC.                                              *)
EXTENDS FSMon, TLC

CONSTANTS a, b

\* One file is in a monitored directory, the other is encrypted on its own.
MCNames == {a, b}
MCNode  == [n \in MCNames |-> IF n = a THEN "file" ELSE "auto"]

\* Opened by a relative name, a goes by the name of b, and of b no name is made.
MCPaths == [n \in MCNames |-> IF n = a THEN {a, b} ELSE {b, Nil}]

Symmetry == Permutations(Threads) \cup Permutations(Cells) \cup Permutations(Records)
              \cup Permutations(Objects)

\* Nothing is claimed of what follows a race: it is not explored further.
NotOverlapped == ~overlapped

\* Bound: the objects that are open when the driver is loaded go by their own names.
InstanceInit == Init /\ \A o \in Objects : file[o].opened = file[o].name
InstanceSpec == InstanceInit /\ [][Next]_vars

=============================================================================
