------------------------------ MODULE MCFileLoc ------------------------------
(* Two programs, each with a small file that is written in one piece.       *)
EXTENDS FileLoc

\* The first has plain sectors before and behind its marked one, the second has
\* marked ones only, in another order than their numbers'.
MCRuns == [c \in {"a", "b"} |->
  IF c = "a" THEN <<[at |-> 0, entries |-> <<Plain, 0, Plain>>]>>
  ELSE <<[at |-> 5, entries |-> <<1, 0>>]>>]
=============================================================================
