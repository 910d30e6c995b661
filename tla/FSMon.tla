------------------------------- MODULE FSMon -------------------------------
(***************************************************************************)
(* The file system monitor YGFSMon: a hash table that gives open file      *)
(* objects the name they were opened under and a modify type, a list of    *)
(* modified files that the encrypting program fetches, and the hooks that  *)
(* keep both.  All lists are changed by threads that hold their mutex with *)
(* ExAcquireResourceSharedLite, which keeps nobody out, so every section   *)
(* is split where it has read a pointer it writes through later.           *)
(*                                                                         *)
(* One chain of the hash table is modelled, which all objects share.  A    *)
(* walk along a list is one step.  The pools are as large as the sets of   *)
(* cells and records: an allocation fails when all are in use.  The lists  *)
(* of monitored paths are all filled or all empty; whether the calling     *)
(* process is excluded is chosen with each call.                           *)
(***************************************************************************)
EXTENDS Integers, FiniteSets

CONSTANTS
  Threads,   \* threads that call into the file system
  Objects,   \* addresses of file objects
  Names,     \* files
  Node,      \* per file: its match, "none", "file" (or directory) or "auto"
  Paths,     \* per file: the names that are made of its objects, Nil for none
  Cells,     \* pool of HASHOBJ
  Records,   \* pool of MODIFYFILELIST
  Nil,       \* NULL
  Calls,     \* the calls that are made
  MaxCalls   \* bound: calls that are made

AllCalls == {"create", "write", "fastwrite", "rename", "cleanup", "close", "clear"}

ASSUME FSMonAssumption ==
  /\ Node \in [Names -> {"none", "file", "auto"}]
  /\ Paths \in [Names -> SUBSET (Names \cup {Nil})]
  /\ Nil \notin Cells \cup Records \cup Names \cup Objects
  /\ IsFiniteSet(Threads) /\ IsFiniteSet(Cells) /\ IsFiniteSet(Records)
  /\ Cells \cap Records = {}
  /\ Calls \subseteq AllCalls /\ MaxCalls \in Nat

VARIABLES
  working,    \* bStartWork
  listed,     \* the lists of monitored paths and files are filled
  file,       \* per object: its state, its file's name, the name made of the object
  head,       \* HashTable[i]
  cell,       \* the HASHOBJs
  live,       \* cells and records that are allocated
  first,      \* ModifyFileList
  record,     \* the MODIFYFILELISTs
  th,         \* per thread: the call it is in
  agent,      \* the thread of the encrypting program
  dirty,      \* files whose encrypted copy is older than a write the monitor saw
  calls,      \* number of calls made
  corrupt,    \* freed memory has been used, or a list has become a ring
  overlapped, \* history: a list was written inside another thread's section
  duplicated, \* history: two threads have named the same object at once
  excused     \* history: files whose modification may be missed, see Excuse

lists    == <<head, cell, live, first, record>>
settings == <<working, listed>>
vars     == <<settings, file, lists, th, agent, dirty, calls,
           corrupt, overlapped, duplicated, excused>>

NoFile  == [state |-> "free", name |-> Nil, opened |-> Nil]
Idle    == [pc |-> "idle", call |-> "none", obj |-> Nil, to |-> Nil,
            seen |-> FALSE, cur |-> Nil, prev |-> Nil, new |-> Nil, done |-> FALSE]
Resting == [pc |-> "idle", cur |-> Nil, name |-> Nil, type |-> "NORMAL"]

FreeCell   == [next |-> Nil, obj |-> Nil, name |-> Nil, type |-> "NORMAL"]
FreeRecord == [next |-> Nil, name |-> Nil, type |-> "NORMAL"]

\* The driver is loaded while files are open, with empty tables; then it is told
\* what to monitor and started.  Nothing is claimed of Nil, which is no file.
Init ==
  /\ working \in BOOLEAN /\ listed = working
  /\ file \in [Objects -> {NoFile} \cup
        {f \in [state : {"open"}, name : Names, opened : Names \cup {Nil}] : f.opened \in Paths[f.name]}]
  /\ head = Nil /\ first = Nil /\ live = {}
  /\ cell = [c \in Cells |-> FreeCell] /\ record = [r \in Records |-> FreeRecord]
  /\ th = [t \in Threads |-> Idle] /\ agent = Resting
  /\ dirty = {} /\ calls = 0
  /\ corrupt = FALSE /\ overlapped = FALSE /\ duplicated = FALSE /\ excused = {Nil}

-----------------------------------------------------------------------------
(* Lists.                                                                  *)

\* The nodes of a list from its first, in order, then Nil: one place more than
\* there are nodes, so that only a ring fills them all.
Walk(from, nodes, next) ==
  LET at[i \in 0..Cardinality(nodes)] == IF i = 0 THEN from
                                         ELSE IF at[i-1] = Nil THEN Nil ELSE next[at[i-1]]
  IN at

\* Where a walk ends that looks for a node with P, if it ends.
Stops(at, P(_)) ==
  {i \in DOMAIN at : /\ at[i] = Nil \/ at[i] \notin live \/ P(at[i])
                     /\ \A j \in DOMAIN at : j < i =>
                          at[j] # Nil /\ at[j] \in live /\ ~P(at[j])}

Chain == Walk(head, Cells, [c \in Cells |-> cell[c].next])
Queue == Walk(first, Records, [r \in Records |-> record[r].next])

\* The entry of an object that the table finds, with the one before it.
Lookup(o) ==
  LET at == Chain
      stop == Stops(at, LAMBDA c : cell[c].obj = o)
  IN IF stop = {} THEN [bad |-> TRUE, cur |-> Nil, prev |-> Nil]
     ELSE LET i == CHOOSE i \in stop : TRUE
          IN [bad |-> at[i] # Nil /\ at[i] \notin live,
              cur |-> at[i], prev |-> IF i = 0 THEN Nil ELSE at[i-1]]

InChain == {Chain[i] : i \in DOMAIN Chain} \ {Nil}
InQueue == {Queue[i] : i \in DOMAIN Queue} \ {Nil}

\* Threads that have read a pointer of the list and will write through it.
InHash  == {t \in Threads : th[t].pc \in {"push", "unlink", "clearcell", "clearall"}}
InStore == {t \in Threads : th[t].pc \in {"append", "clearrecord"}}

\* The history of races: t writes a list while another is in the section.
Overlap(others) == overlapped' = (overlapped \/ others # {})

Monitored(n) == listed /\ n # Nil /\ Node[n] # "none"
Excuse(n)    == excused' = excused \cup n

-----------------------------------------------------------------------------
(* Calls of the file system.                                               *)

Busy(o) == {t \in Threads : th[t].pc # "idle" /\ th[t].obj = o}

May(call, o, to) ==
  CASE call = "create"  -> file[o].state = "free" /\ to \in Names
    [] call = "close"   -> file[o].state = "cleaned" /\ Busy(o) = {} /\ to = Nil
    [] call = "rename"  -> /\ file[o].state = "open" /\ to \in Names
                           /\ \A p \in Objects : to # file[p].name
    [] call = "clear"   -> FALSE
    [] OTHER            -> file[o].state = "open" /\ to = Nil

\* Files for which a call and another one on the same object get in each
\* other's way: a handle is cleaned up or renamed during the other call.  The
\* file is the one that the object was opened by, as its entry says: the file's
\* own name may change under both calls, away from that one and back to it.
Rivals(call, o, to) ==
  LET with == {t \in Busy(o) : {call, th[t].call} \cap {"cleanup", "rename"} # {}}
  IN IF with = {} THEN {} ELSE {file[o].opened, to} \cup {th[t].to : t \in with}

Set(t, r) == th' = [th EXCEPT ![t] = r]
Goto(t, l) == Set(t, [th[t] EXCEPT !.pc = l])
Leave(t, l) == IF l = "idle" THEN Set(t, Idle) ELSE Goto(t, l)
Pass(t, l)  == IF l = "idle" THEN Set(t, Idle) ELSE Set(t, [th[t] EXCEPT !.pc = l, !.seen = FALSE])

\* Where a call goes once its object has an entry, and where it goes when the
\* object has none or is not asked for one, "for the sake of keeping the hash
\* table current".
Named(call) ==
  CASE call \in {"write", "fastwrite"} -> "setflag"
    [] call \in {"cleanup", "close"}   -> "find"
    [] call = "create"                 -> "lower"
\* Mutant of Unnamed: a process that is not monitored keeps no table current.
UnnamedLeaves(call) == IF call = "fastwrite" THEN "idle" ELSE "lower"

Unnamed(call) ==
  CASE call \in {"create", "close"}    -> "find"
    [] call \in {"write", "cleanup"}   -> "lower"
    [] call = "fastwrite"              -> "idle"

\* YGFSMonHookRoutine and YGFSMonFastIoWrite up to and with YGFSMonGetProcess:
\* excl says that the calling process is on the exclude list.  A fast write
\* has reached the file by then.
Begin(t, call, o, to, excl) ==
  LET seen == working /\ ~excl
      fast == call = "fastwrite"
  IN /\ th[t].pc = "idle" /\ calls < MaxCalls /\ May(call, o, to)
     /\ calls' = calls + 1
     /\ Set(t, IF fast /\ ~seen THEN Idle
               ELSE [pc |-> IF call = "rename" THEN "parse"
                            ELSE IF seen THEN "lookup" ELSE Unnamed(call),
                     call |-> call, obj |-> o, to |-> to, seen |-> seen /\ call \in {"write", "rename"},
                     cur |-> Nil, prev |-> Nil, new |-> Nil, done |-> FALSE])
     /\ IF call = "create"
        THEN \E p \in Paths[to] : file' = [file EXCEPT ![o] = [state |-> "opening", name |-> to, opened |-> p]]
        ELSE file' = IF call = "cleanup" THEN [file EXCEPT ![o].state = "cleaned"] ELSE file
     /\ dirty' = dirty \cup
          IF fast /\ seen /\ Monitored(file[o].name) THEN {file[o].name} ELSE {}
     /\ Excuse(Rivals(call, o, to) \cup
          IF fast /\ file[o].opened # file[o].name THEN {file[o].name} ELSE {})
     /\ UNCHANGED <<settings, lists, agent, corrupt, overlapped, duplicated>>

\* The filter lets a name through and a HASHOBJ is allocated and filled.  Else the
\* call goes to l: that name is not monitored, or it has none now, because memory
\* is short or the file system has freed it.
Log(t, n, type, l) ==
  \/ Monitored(n) /\ Pass(t, l) /\ Excuse({n}) /\ UNCHANGED lists
  \/ ~Monitored(n) /\ Pass(t, l) /\ UNCHANGED <<lists, excused>>
  \/ /\ Monitored(n)
     /\ \E c \in Cells \ live :
          /\ live' = live \cup {c}
          /\ cell' = [cell EXCEPT ![c] =
               [next |-> Nil, obj |-> th[t].obj, name |-> n, type |-> type]]
          /\ Set(t, [th[t] EXCEPT !.pc = "log", !.cur = c])
     /\ UNCHANGED <<excused, head, first, record>>

\* YGFSMonGetFullPath: the name is looked up, or made from the file object.  For an
\* object opened by an absolute name it is the file's own.  For one opened by a
\* relative name it is that of the objects it is relative to, one after the other
\* from the nearest on, without the object's own: a directory's, another file's or
\* nobody's.  There is none if it gets too long or a name is missing.
GetFullPath(t) ==
  /\ th[t].pc = "lookup"
  /\ LET e == Lookup(th[t].obj)
     IN /\ corrupt' = e.bad
        /\ IF e.bad THEN UNCHANGED <<th, lists, excused>>
           ELSE IF e.cur # Nil
           THEN Goto(t, Named(th[t].call)) /\ UNCHANGED <<lists, excused>>
           ELSE Log(t, file[th[t].obj].opened, "NORMAL", Unnamed(th[t].call))
  /\ UNCHANGED <<settings, file, agent, dirty, calls, overlapped, duplicated>>

\* YGFSMonParseReName: the target's name, which is a full one, is put in front of
\* the object's own.
ParseReName(t) ==
  /\ th[t].pc = "parse"
  /\ IF th[t].seen THEN Log(t, th[t].to, "RENAME", "lower")
     ELSE Goto(t, "lower") /\ UNCHANGED <<lists, excused>>
  /\ UNCHANGED <<settings, file, agent, dirty, calls, corrupt, overlapped, duplicated>>

\* YGFSMonLogHash, in the section: the head is read ...
LogHash(t) ==
  /\ th[t].pc = "log"
  /\ cell' = [cell EXCEPT ![th[t].cur].next = head]
  /\ Goto(t, "push")
  /\ UNCHANGED <<settings, file, head, live, first, record, agent, dirty, calls,
                 corrupt, overlapped, duplicated, excused>>

\* ... and written.
Push(t) ==
  /\ th[t].pc = "push"
  /\ head' = th[t].cur
  /\ Overlap(InHash \ {t})
  /\ duplicated' = (duplicated \/ (th[t].call # "rename" /\ Lookup(th[t].obj).cur # Nil))
  /\ Set(t, [th[t] EXCEPT !.cur = Nil,
                          !.pc = IF th[t].call = "rename" THEN "lower" ELSE Named(th[t].call)])
  /\ UNCHANGED <<settings, file, cell, live, first, record, agent, dirty, calls,
                 corrupt, excused>>

\* YGFSMonSetWriteFlag: the object's first entry becomes MODIFIED, if it is
\* of the type that the caller changes.
SetWriteFlag(t, from) ==
  LET e == Lookup(th[t].obj)
  IN /\ corrupt' = e.bad
     /\ cell' = IF ~e.bad /\ e.cur # Nil /\ cell[e.cur].type = from
                THEN [cell EXCEPT ![e.cur].type = "MODIFIED"] ELSE cell

\* A write marks the entry that it has found or made, if it is still there.
MarkWritten(t) ==
  /\ th[t].pc = "setflag"
  /\ SetWriteFlag(t, "NORMAL")
  /\ Leave(t, IF th[t].call = "write" THEN "lower" ELSE "idle")
  /\ UNCHANGED <<settings, file, head, live, first, record, agent, dirty, calls,
                 overlapped, duplicated, excused>>

-----------------------------------------------------------------------------
(* YGFSMonFreeHashEntry and YGFSMonAddConvertRecord.                       *)

\* The entry is freed: the call goes down, or it has been and ends.  The address
\* of an object that was closed or never opened can be used again.
AfterFree(t) ==
  /\ Set(t, IF th[t].done THEN Idle ELSE [th[t] EXCEPT !.cur = Nil, !.prev = Nil, !.pc = "lower"])
  /\ file' = IF th[t].done /\ th[t].call = "create"
             THEN [file EXCEPT ![th[t].obj] = NoFile] ELSE file

\* The entry is looked up ...
Find(t) ==
  /\ th[t].pc = "find"
  /\ LET e == Lookup(th[t].obj)
     IN /\ corrupt' = e.bad
        /\ IF e.cur = Nil THEN AfterFree(t)
           ELSE /\ Set(t, [th[t] EXCEPT !.pc = "unlink", !.cur = e.cur, !.prev = e.prev])
                /\ UNCHANGED file
  /\ UNCHANGED <<settings, lists, agent, dirty, calls, overlapped, duplicated, excused>>

\* Mutant of Unlink: an entry behind another one stays in the chain.
UnlinkHead(t) ==
  LET c == th[t].cur
  IN /\ th[t].pc = "unlink"
     /\ corrupt' = (c \notin live)
     /\ Overlap(InHash \ {t})
     /\ head' = IF th[t].prev = Nil THEN cell[c].next ELSE head
     /\ Set(t, [th[t] EXCEPT !.prev = Nil,
                  !.pc = IF c \in live /\ (cell[c].type = "MODIFIED" \/ Node[cell[c].name] = "auto")
                         THEN "record" ELSE "free"])
     /\ UNCHANGED <<settings, file, cell, live, first, record, agent, dirty, calls,
                    duplicated, excused>>

\* ... taken out of the chain ...
Unlink(t) ==
  LET c == th[t].cur
      p == th[t].prev
  IN /\ th[t].pc = "unlink"
     /\ corrupt' = ~({c, p} \ {Nil} \subseteq live)
     /\ Overlap(InHash \ {t})
     /\ IF p = Nil
        THEN head' = cell[c].next /\ UNCHANGED cell
        ELSE cell' = [cell EXCEPT ![p].next = cell[c].next] /\ UNCHANGED head
     /\ Set(t, [th[t] EXCEPT !.prev = Nil,
                  !.pc = IF c \in live /\ (cell[c].type = "MODIFIED" \/ Node[cell[c].name] = "auto")
                         THEN "record" ELSE "free"])
     /\ UNCHANGED <<settings, file, live, first, record, agent, dirty, calls,
                    duplicated, excused>>

\* Mutant of RecordOf: the list is searched for its end only.
RecordOfEnd(n) == Stops(Queue, LAMBDA r : FALSE)

\* Where the search for the record of file n stops.
RecordOf(n) == Stops(Queue, LAMBDA r : record[r].name = n)

\* Mutant of Merge: the record takes the type of the entry.
MergeLast(r, type) == [record EXCEPT ![r].type = type]

\* A record that says MODIFIED goes on saying it.
Merge(r, type) ==
  IF type = "MODIFIED" THEN [record EXCEPT ![r].type = "MODIFIED"] ELSE record

\* ... its contents put into the record of its file, if there is one; else the
\* end of the list is found for a new record ...
AddConvertRecord(t) ==
  LET c    == cell[th[t].cur]
      at   == Queue
      stop == RecordOf(c.name)
      i    == CHOOSE i \in stop : TRUE
      free == Records \ live
  IN /\ th[t].pc = "record"
     /\ IF free = {}
        THEN /\ Excuse({c.name}) /\ Goto(t, "free") /\ UNCHANGED <<corrupt, live, record>>
        ELSE IF stop = {} \/ at[i] \notin live \cup {Nil} \/ th[t].cur \notin live
        THEN corrupt' = TRUE /\ UNCHANGED <<th, live, record, excused>>
        ELSE IF at[i] # Nil
        THEN /\ record' = Merge(at[i], c.type)
             /\ Goto(t, "free") /\ UNCHANGED <<corrupt, live, excused>>
        ELSE \E r \in free :
             /\ live' = live \cup {r}
             /\ record' = [record EXCEPT ![r] = [next |-> Nil, name |-> c.name, type |-> c.type]]
             /\ Set(t, [th[t] EXCEPT !.pc = "append", !.new = r,
                                     !.prev = IF i = 0 THEN Nil ELSE at[i-1]])
             /\ UNCHANGED <<corrupt, excused>>
     /\ UNCHANGED <<settings, file, head, cell, first, agent, dirty, calls,
                    overlapped, duplicated>>

\* Mutant of Append: an empty list gets the entry of the table.
AppendEntry(t) ==
  LET r == th[t].new
      p == th[t].prev
  IN /\ th[t].pc = "append"
     /\ corrupt' = (p \notin live \cup {Nil})
     /\ overlapped' = (overlapped \/ InStore # {t} \/ agent.pc = "pop")
     /\ IF p = Nil
        THEN first' = th[t].cur /\ UNCHANGED record
        ELSE record' = [record EXCEPT ![p].next = r] /\ UNCHANGED first
     /\ Set(t, [th[t] EXCEPT !.pc = "free", !.new = Nil, !.prev = Nil])
     /\ UNCHANGED <<settings, file, head, cell, live, agent, dirty, calls, duplicated, excused>>

\* ... which is put there ...
Append(t) ==
  LET r == th[t].new
      p == th[t].prev
  IN /\ th[t].pc = "append"
     /\ corrupt' = (p \notin live \cup {Nil})
     /\ overlapped' = (overlapped \/ InStore # {t} \/ agent.pc = "pop")
     /\ IF p = Nil
        THEN first' = r /\ UNCHANGED record
        ELSE record' = [record EXCEPT ![p].next = r] /\ UNCHANGED first
     /\ Set(t, [th[t] EXCEPT !.pc = "free", !.new = Nil, !.prev = Nil])
     /\ UNCHANGED <<settings, file, head, cell, live, agent, dirty, calls, duplicated, excused>>

\* ... and the entry is freed.
Free(t) ==
  /\ th[t].pc = "free"
  /\ corrupt' = (th[t].cur \notin live)
  /\ live' = live \ {th[t].cur}
  /\ cell' = [cell EXCEPT ![th[t].cur] = FreeCell]
  /\ AfterFree(t)
  /\ UNCHANGED <<settings, head, first, record, agent, dirty, calls,
                 overlapped, duplicated, excused>>

-----------------------------------------------------------------------------
(* The file system below, and YGFSMonHookDone, which runs when it is done. *)

\* A create; when it fails its entry is freed.
LowerCreate(t) ==
  /\ th[t].pc = "lower" /\ th[t].call = "create"
  /\ \/ Set(t, Idle) /\ file' = [file EXCEPT ![th[t].obj].state = "open"]
     \/ Set(t, [th[t] EXCEPT !.pc = "find", !.done = TRUE]) /\ UNCHANGED file
  /\ UNCHANGED <<settings, lists, agent, dirty, calls, corrupt, overlapped, duplicated, excused>>

\* A rename, for all handles of the file.  The entry of the target is marked
\* when it succeeds, and freed.  A modified file takes along what is not encrypted,
\* which nobody learns if the rename is not seen.
LowerRename(t) ==
  LET n == file[th[t].obj].name
      unseen == IF n \in dirty /\ ~th[t].seen THEN {th[t].to} ELSE {}
  IN /\ th[t].pc = "lower" /\ th[t].call = "rename"
     /\ Set(t, [th[t] EXCEPT !.pc = "find", !.done = TRUE])
     /\ \/ /\ file' = [p \in Objects |->
                  IF file[p].name = n THEN [file[p] EXCEPT !.name = th[t].to] ELSE file[p]]
           /\ dirty' = (dirty \ {n}) \cup unseen \cup (IF th[t].seen THEN {th[t].to} ELSE {})
           /\ Excuse(unseen)
           /\ SetWriteFlag(t, "RENAME")
        \/ UNCHANGED <<file, dirty, cell, corrupt, excused>>
     /\ UNCHANGED <<settings, head, live, first, record, agent, calls,
                    overlapped, duplicated>>

\* A write, a cleanup or a close.
LowerOther(t) ==
  LET o == th[t].obj
      n == file[o].name
      writes == th[t].call = "write" /\ th[t].seen
  IN /\ th[t].pc = "lower" /\ th[t].call \in {"write", "cleanup", "close"}
     /\ Set(t, Idle)
     /\ file' = IF th[t].call = "close" THEN [file EXCEPT ![o] = NoFile] ELSE file
     /\ dirty' = dirty \cup (IF writes THEN {n} ELSE {})
     /\ Excuse(IF writes /\ file[o].opened # n THEN {n} ELSE {})
     /\ UNCHANGED <<settings, lists, agent, calls, corrupt, overlapped, duplicated>>

-----------------------------------------------------------------------------
(* IOCTLs of the encrypting program.                                       *)

\* IOCTL_YGFSMON_START_WORK_NT and IOCTL_YGFSMON_STOP_WORK_NT
StartOrStopWork ==
  /\ calls < MaxCalls /\ calls' = calls + 1
  /\ working' = ~working
  /\ UNCHANGED <<listed, file, lists, th, agent, dirty, corrupt, overlapped, duplicated, excused>>

\* YGFSMonAddMonitorItem
AddMonitorItem ==
  /\ calls < MaxCalls /\ calls' = calls + 1
  /\ ~listed /\ listed' = TRUE
  /\ UNCHANGED <<working, file, lists, th, agent, dirty,
                 corrupt, overlapped, duplicated, excused>>

\* IOCTL_YGFSMON_CLEAR_STATE_NT forgets what was modified.
ClearState(t) ==
  /\ th[t].pc = "idle" /\ "clear" \in Calls
  /\ calls < MaxCalls /\ calls' = calls + 1
  /\ Set(t, [Idle EXCEPT !.pc = "clear", !.call = "clear"])
  /\ Excuse(Names)
  /\ UNCHANGED <<settings, file, lists, agent, dirty, corrupt, overlapped, duplicated>>

\* YGFSMonHashCleanup, the loop over the chain: the test ...
CleanupHash(t) ==
  /\ th[t].pc = "clear"
  /\ Set(t, [th[t] EXCEPT !.cur = head, !.pc = IF head = Nil THEN "clearall" ELSE "clearcell"])
  /\ UNCHANGED <<settings, file, lists, agent, dirty, calls,
                 corrupt, overlapped, duplicated, excused>>

\* ... the body ...
CleanupCell(t) ==
  /\ th[t].pc = "clearcell"
  /\ corrupt' = (th[t].cur \notin live)
  /\ Overlap(InHash \ {t})
  /\ head' = cell[th[t].cur].next
  /\ live' = live \ {th[t].cur}
  /\ cell' = [cell EXCEPT ![th[t].cur] = FreeCell]
  /\ Set(t, [th[t] EXCEPT !.cur = Nil, !.pc = "clear"])
  /\ UNCHANGED <<settings, file, first, record, agent, dirty, calls, duplicated, excused>>

\* ... and the memset behind it, and the lists of paths.
CleanupTable(t) ==
  /\ th[t].pc = "clearall"
  /\ Overlap(InHash \ {t})
  /\ head' = Nil
  /\ listed' = FALSE
  /\ Goto(t, "clearstore")
  /\ UNCHANGED <<working, file, cell, live, first, record, agent, dirty, calls,
                 corrupt, duplicated, excused>>

\* The loop over the list of modified files, under another mutex than its users'.
CleanupStore(t) ==
  /\ th[t].pc = "clearstore"
  /\ Set(t, IF first = Nil THEN Idle ELSE [th[t] EXCEPT !.cur = first, !.pc = "clearrecord"])
  /\ UNCHANGED <<settings, file, lists, agent, dirty, calls,
                 corrupt, overlapped, duplicated, excused>>

CleanupRecord(t) ==
  /\ th[t].pc = "clearrecord"
  /\ corrupt' = (th[t].cur \notin live)
  /\ overlapped' = (overlapped \/ InStore # {t} \/ agent.pc = "pop")
  /\ first' = record[th[t].cur].next
  /\ live' = live \ {th[t].cur}
  /\ record' = [record EXCEPT ![th[t].cur] = FreeRecord]
  /\ Set(t, [th[t] EXCEPT !.cur = Nil, !.pc = "clearstore"])
  /\ UNCHANGED <<settings, file, head, cell, agent, dirty, calls, duplicated, excused>>

\* YGFSMonGetOldestRecord: the head is read ...
GetOldestRecord ==
  /\ agent.pc = "idle" /\ first # Nil
  /\ agent' = [agent EXCEPT !.pc = "pop", !.cur = first]
  /\ UNCHANGED <<settings, file, lists, th, dirty, calls,
                 corrupt, overlapped, duplicated, excused>>

\* ... and written ...
Pop ==
  /\ agent.pc = "pop"
  /\ corrupt' = (agent.cur \notin live)
  /\ Overlap(InStore)
  /\ first' = record[agent.cur].next
  /\ agent' = [agent EXCEPT !.pc = "copy"]
  /\ UNCHANGED <<settings, file, head, cell, live, record, th, dirty, calls, duplicated, excused>>

\* ... and the record copied and freed.
Fetch ==
  LET r == agent.cur
  IN /\ agent.pc = "copy"
     /\ corrupt' = (r \notin live)
     /\ live' = live \ {r}
     /\ record' = [record EXCEPT ![r] = FreeRecord]
     /\ agent' = [pc |-> "encrypt", cur |-> Nil, name |-> record[r].name, type |-> record[r].type]
     /\ UNCHANGED <<settings, file, head, cell, first, th, dirty, calls,
                    overlapped, duplicated, excused>>

\* ThreadEncryptFile encrypts a file that was modified as it finds it: what is
\* written from here on is not in the copy.  If the file is gone or cannot be
\* encrypted, or its name ends in .chy or .ary, that is all: it does not try again.
Encrypt ==
  LET done == IF agent.type = "MODIFIED" THEN {agent.name} ELSE {}
  IN /\ agent.pc = "encrypt"
     /\ agent' = Resting
     /\ \/ dirty' = dirty \ done /\ UNCHANGED excused
        \/ Excuse(done) /\ UNCHANGED dirty
     /\ UNCHANGED <<settings, file, lists, th, calls, corrupt, overlapped, duplicated>>

Thread(t) ==
  \/ \E call \in Calls, o \in Objects, to \in Names \cup {Nil}, excl \in BOOLEAN :
       Begin(t, call, o, to, excl)
  \/ GetFullPath(t) \/ ParseReName(t) \/ LogHash(t) \/ Push(t) \/ MarkWritten(t)
  \/ Find(t) \/ Unlink(t) \/ AddConvertRecord(t) \/ Append(t) \/ Free(t)
  \/ LowerCreate(t) \/ LowerRename(t) \/ LowerOther(t)
  \/ ClearState(t) \/ CleanupHash(t) \/ CleanupCell(t) \/ CleanupTable(t)
  \/ CleanupStore(t) \/ CleanupRecord(t)

Next ==
  /\ ~corrupt   \* the machine does not survive it
  /\ \/ \E t \in Threads : Thread(t)
     \/ StartOrStopWork \/ AddMonitorItem \/ GetOldestRecord \/ Pop \/ Fetch \/ Encrypt

Spec == Init /\ [][Next]_vars

-----------------------------------------------------------------------------
\* The lists hold cells and records, and every thread is in a call or in none.
TypeOK ==
  /\ file \in [Objects -> [state : {"free", "opening", "open", "cleaned"},
                           name : Names \cup {Nil}, opened : Names \cup {Nil}]]
  /\ head \in Cells \cup {Nil} /\ first \in Records \cup {Nil}
  /\ live \subseteq Cells \cup Records
  /\ \A t \in Threads : th[t].call \in AllCalls \cup {"none"} /\ th[t].to \in Names \cup {Nil}
  /\ dirty \subseteq Names /\ calls \in 0..MaxCalls

\* No list node is used after it was freed, freed twice or linked into a ring,
\* as long as no thread has written a list inside another thread's section:
\* that is what the mutexes are for, and they are taken shared.
MemorySafe == corrupt => overlapped

\* Races apart, the table has no entry of an object whose address is free, so
\* that a new object never gets the name of an old one.  Two threads that both
\* miss an object's name are such a race.
NoEntryOutlivesItsObject ==
  (~overlapped /\ ~duplicated /\ ~corrupt) =>
    \A c \in InChain \cap live : file[cell[c].obj].state # "free"

\* A fast write, which reaches the file first, is on its way to n's entry.
Handled(n) == \E t \in Threads : th[t].call = "fastwrite" /\ file[th[t].obj].opened = n

\* Whatever the monitor saw written is in somebody's hands until it is
\* encrypted: an entry or a record says MODIFIED, a fast write is at it, or the
\* encrypting program has fetched it.  Excused are: files written through a handle
\* of which the monitor makes another name, because it was opened by a relative
\* one or the file was renamed since; modified files renamed without the monitor
\* seeing it; files of a handle that was cleaned up or renamed during another call
\* on it; names that were not to be had and records that were not allocated; files
\* that were not encrypted when they were fetched; IOCTL_YGFSMON_CLEAR_STATE_NT.
ModifiedIsTracked ==
  (~overlapped /\ ~duplicated /\ ~corrupt) =>
    \A n \in dirty \ excused :
      \/ \E c \in Cells \cap live : cell[c].name = n /\ cell[c].type = "MODIFIED"
      \/ \E r \in Records \cap live : record[r].name = n /\ record[r].type = "MODIFIED"
      \/ Handled(n)
      \/ agent.pc = "encrypt" /\ agent.name = n /\ agent.type = "MODIFIED"

\* A file is on the list once.
OneRecordPerFile ==
  ~overlapped => \A r, s \in InQueue : record[r].name = record[s].name => r = s

=============================================================================
