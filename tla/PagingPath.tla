----------------------------- MODULE PagingPath -----------------------------
(***************************************************************************)
(* How the block mover's filter device keeps DO_POWER_PAGABLE in step with *)
(* the paging files below it (BlkMovDispatchPnp, usage notifications).     *)
(* Every notification waits on PagingPathCountEvent, adjusts the count and *)
(* the flag around a call to the lower driver, and sets the event.  The    *)
(* event is a NotificationEvent that starts signalled: a wait leaves it    *)
(* set.  The filter never sets DO_POWER_INRUSH, so that test is left out.  *)
(***************************************************************************)
EXTENDS Integers, FiniteSets

CONSTANTS
  Notifiers,  \* threads that may deliver a usage notification
  MaxFiles    \* bound: paging files in the path at once

ASSUME PagingAssumption == IsFiniteSet(Notifiers) /\ MaxFiles \in Nat

VARIABLES
  pc,          \* per thread: where its notification is
  inPath,      \* per thread: a paging file comes (TRUE) or goes (FALSE)
  setPagable,  \* per thread: it has set the flag on the way down
  event,       \* PagingPathCountEvent is signalled
  count,       \* PagingPathCount
  pagable,     \* DO_POWER_PAGABLE
  files,       \* paging files in the path, as the system counts them
  overlapped   \* history: two notifications were past the wait at once

vars == <<pc, inPath, setPagable, event, count, pagable, files, overlapped>>

Inside == {t \in Notifiers : pc[t] \notin {"idle", "wait"}}

Init ==
  /\ pc = [t \in Notifiers |-> "idle"]
  /\ inPath = [t \in Notifiers |-> FALSE]
  /\ setPagable = [t \in Notifiers |-> FALSE]
  /\ event = TRUE /\ count = 0 /\ pagable = TRUE
  /\ files = 0 /\ overlapped = FALSE

Goto(t, l) == pc' = [pc EXCEPT ![t] = l]

\* The system adds a paging file or removes one whose addition has succeeded
\* and that nobody else is removing.
Notify(t, in) ==
  /\ pc[t] = "idle"
  /\ LET going(d) == Cardinality({u \in Notifiers : pc[u] # "idle" /\ inPath[u] = d})
     IN IF in THEN files + going(TRUE) < MaxFiles ELSE files - going(FALSE) > 0
  /\ inPath' = [inPath EXCEPT ![t] = in]
  /\ Goto(t, "wait")
  /\ UNCHANGED <<setPagable, event, count, pagable, files, overlapped>>

\* KeWaitForSingleObject
Wait(t) ==
  /\ pc[t] = "wait" /\ event
  /\ overlapped' = (overlapped \/ Inside # {})
  /\ Goto(t, "down")
  /\ UNCHANGED <<inPath, setPagable, event, count, pagable, files>>

\* Mutant of Down: the flag is set when the first of two files goes.
DownAtTwo(t) ==
  /\ pc[t] = "down"
  /\ LET last == ~inPath[t] /\ count <= 2
     IN /\ setPagable' = [setPagable EXCEPT ![t] = last]
        /\ pagable' = (pagable \/ last)
  /\ Goto(t, "lower")
  /\ UNCHANGED <<inPath, event, count, files, overlapped>>

\* Before the last paging file goes the device must be pagable.
Down(t) ==
  /\ pc[t] = "down"
  /\ LET last == ~inPath[t] /\ count = 1
     IN /\ setPagable' = [setPagable EXCEPT ![t] = last]
        /\ pagable' = (pagable \/ last)
  /\ Goto(t, "lower")
  /\ UNCHANGED <<inPath, event, count, files, overlapped>>

\* BlkMovForwardIrpSynchronous succeeds, and IoAdjustPagingPathCount follows.
LowerOk(t) ==
  /\ pc[t] = "lower"
  /\ LET by == IF inPath[t] THEN 1 ELSE -1
     IN count' = count + by /\ files' = files + by
  /\ Goto(t, "up")
  /\ UNCHANGED <<inPath, setPagable, event, pagable, overlapped>>

\* The first paging file makes the device non-pagable.
Up(t) ==
  /\ pc[t] = "up"
  /\ pagable' = (pagable /\ ~(inPath[t] /\ count = 1))
  /\ Goto(t, "set")
  /\ UNCHANGED <<inPath, setPagable, event, count, files, overlapped>>

\* Mutant of LowerFail: it returns without setting the event and completing the IRP.
LowerFailReturns(t) ==
  /\ pc[t] = "lower"
  /\ pagable' = (pagable /\ ~setPagable[t])
  /\ setPagable' = [setPagable EXCEPT ![t] = FALSE]
  /\ Goto(t, "returned")
  /\ UNCHANGED <<inPath, event, count, files, overlapped>>

\* The lower driver fails the notification: the flag is put back.
LowerFail(t) ==
  /\ pc[t] = "lower"
  /\ pagable' = (pagable /\ ~setPagable[t])
  /\ setPagable' = [setPagable EXCEPT ![t] = FALSE]
  /\ Goto(t, "set")
  /\ UNCHANGED <<inPath, event, count, files, overlapped>>

\* KeSetEvent, IoCompleteRequest
SetEvent(t) ==
  /\ pc[t] = "set"
  /\ event' = TRUE
  /\ setPagable' = [setPagable EXCEPT ![t] = FALSE]
  /\ inPath' = [inPath EXCEPT ![t] = FALSE]
  /\ Goto(t, "idle")
  /\ UNCHANGED <<count, pagable, files, overlapped>>

Next ==
  \E t \in Notifiers :
    \/ \E in \in BOOLEAN : Notify(t, in)
    \/ Wait(t) \/ Down(t) \/ LowerOk(t) \/ Up(t) \/ LowerFail(t) \/ SetEvent(t)

Spec == Init /\ [][Next]_vars
             /\ \A t \in Notifiers :
                  WF_vars(Wait(t) \/ Down(t) \/ LowerOk(t) \/ Up(t) \/ LowerFail(t) \/ SetEvent(t))

-----------------------------------------------------------------------------
\* The flags and counts hold what their types say.
TypeOK ==
  /\ pc \in [Notifiers -> {"idle", "wait", "down", "lower", "up", "set"}]
  /\ inPath \in [Notifiers -> BOOLEAN] /\ setPagable \in [Notifiers -> BOOLEAN]
  /\ event \in BOOLEAN /\ pagable \in BOOLEAN /\ overlapped \in BOOLEAN
  /\ count \in 0..MaxFiles /\ files \in 0..MaxFiles

\* "must synchronize paging path notifications" (Iomon.h): one at a time is
\* between the wait and the set of the event.
NotificationsSynchronized == Cardinality(Inside) <= 1

\* As long as no two notifications have met, the device is pagable exactly when
\* no paging file is below it, whatever the lower driver answered.
PagableUnlessOverlapped ==
  (~overlapped /\ Inside = {}) => (pagable <=> count = 0)

\* A notification that has arrived is answered.
NotificationAnswered == \A t \in Notifiers : pc[t] = "wait" ~> pc[t] = "idle"

=============================================================================
