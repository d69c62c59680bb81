------------------------------ MODULE IrpQueue ------------------------------
(***************************************************************************)
(* One IRP queue of a com0com port and everything that may touch it.       *)
(*                                                                         *)
(* The driver (src/com0com/sys) serialises all work on a pair of ports     *)
(* with one spin lock, ioLock.  What the lock does not cover is the cancel *)
(* routine pointer of an IRP: IoCancelIrp, in the I/O manager, sets        *)
(* Irp->Cancel and then takes the pointer with an interlocked exchange at  *)
(* any moment, also inside a critical section of the driver.  Whoever      *)
(* takes the pointer owns the right to complete the IRP.                   *)
(*                                                                         *)
(* Each critical section is therefore split into micro-steps between two   *)
(* accesses to Irp->Cancel or to the cancel routine: cs.pc says where the  *)
(* holder of the lock is, and the I/O manager, the timers and the threads  *)
(* that complete IRPs outside the lock interleave with it.                 *)
(*                                                                         *)
(* The queue is the READ, WRITE or WAIT queue of a port, as the kinds in   *)
(* the initial state say.  The bytes are abstracted: how many an IRP moves *)
(* in a pass is whatever the other side and the flow control let through.  *)
(***************************************************************************)
EXTENDS Integers, Sequences, Functions

CONSTANTS
  Irps,        \* the requests that programs issue to the port
  Workers,     \* processors that run DPCs and the peer port's requests
  Kinds,       \* the kinds of request that programs issue
  Length,      \* bytes of a READ or WRITE request
  Timeouts,    \* the SERIAL_TIMEOUTS in force
  Cancellable, \* the IRPs that IoCancelIrp may be called for
  MaxPasses,   \* bound on the turns of the tryWrite loop of ReadWrite
  None         \* no IRP, no thread

WriteKinds == {"WRITE", "FLUSH", "IMMEDIATE_CHAR", "XOFF_COUNTER"}
QueueKinds == {WriteKinds, {"READ"}, {"WAIT_ON_MASK"}}
TimeoutModes == {"none", "total", "interval", "now", "one"}

ASSUME KindsAssumption == Kinds \subseteq UNION QueueKinds
ASSUME BoundsAssumption ==
  /\ Length \in Nat \ {0}
  /\ MaxPasses \in Nat \ {0}
  /\ Timeouts \in TimeoutModes
  /\ Cancellable \subseteq Irps
  /\ None \notin Irps
  /\ None \notin {"dispatch", "cancel"} \X Irps \cup {"worker"} \X Workers

\* Threads of control: the dispatch routine of an IRP, the cancel routine
\* of an IRP, and the processors that run everything else.
Threads == {"dispatch", "cancel"} \X Irps \cup {"worker"} \X Workers
Dispatch(i) == <<"dispatch", i>>
Canceller(i) == <<"cancel", i>>
Worker(w) == <<"worker", w>>

Statuses == {"PENDING", "SUCCESS", "CANCELLED", "TIMEOUT",
             "INVALID_PARAMETER", "MORE_WRITES"}
Timers == {"total", "interval"}
Flags == {"EXPIRED", "WAIT_ONE", "INTERVAL_TIMEOUT"}
Labels == {"idle", "decide", "process", "stop", "recheck", "next", "counter",
           "flushes", "passend", "started", "purge"}

VARIABLES
  kind,       \* [Irps -> Kinds] MajorFunction and IoControlCode
  disp,       \* [Irps -> {"new", "busy", "finish", "done"}] FdoPortStartIrp
  result,     \* what FdoPortStartIrp returns, "none" before it is decided
  armed,      \* Irp->CancelRoutine is set
  cancel,     \* Irp->Cancel
  canceller,  \* progress of IoCancelIrp for the IRP
  info,       \* Irp->IoStatus.Information
  status,     \* Irp->IoStatus.Status
  flags,      \* pState->flags but IN_QUEUE and IS_CURRENT, which q holds
  completed,  \* how often IoCompleteRequest was called
  ahead,      \* history: the IRPs queued when this one was accepted
  q,          \* the C0C_IRP_QUEUE
  amount,     \* amountInWriteQueue
  timers,     \* timers running
  dpcs,       \* timer DPCs queued
  lock,       \* the thread that holds ioLock
  cs,         \* its place in the critical section and its local variables
  toComplete  \* the queueToComplete of each thread

vars == <<kind, disp, result, armed, cancel, canceller, info, status, flags,
          completed, ahead, q, amount, timers, dpcs, lock, cs, toComplete>>

-----------------------------------------------------------------------------
(* The queue: pCurrent, the list and the two flags that mirror them *)

QueueType == [current : Irps \cup {None}, list : Seq(Irps),
              isCurrent : SUBSET Irps, inQueue : SUBSET Irps]

EmptyQueue == [current |-> None, list |-> <<>>, isCurrent |-> {}, inQueue |-> {}]

\* ShiftQueue: drop pCurrent and promote the head of the list
Shift(s) ==
  IF s.list = <<>>
    THEN [s EXCEPT !.current = None, !.isCurrent = @ \ {s.current}]
    ELSE [s EXCEPT !.current = Head(s.list), !.list = Tail(s.list),
                   !.isCurrent = (@ \ {s.current}) \cup {Head(s.list)},
                   !.inQueue = @ \ {Head(s.list)}]

MakeCurrent(s, i) == [s EXCEPT !.current = i, !.isCurrent = @ \cup {i}]
InsertTail(s, i) == [s EXCEPT !.list = Append(@, i), !.inQueue = @ \cup {i}]
\* RemoveEntryList of an entry that is in the list
Without(list, i) ==
  [k \in 1..(Len(list) - 1) |->
     IF \E j \in 1..k : list[j] = i THEN list[k + 1] ELSE list[k]]

\* faulty: the flag is cleared and the entry stays linked
UnlinkForgets(s, i) == [s EXCEPT !.inQueue = @ \ {i}]
Unlink(s, i) == [s EXCEPT !.list = Without(@, i), !.inQueue = @ \ {i}]

\* faulty: the preempted IRP goes to the tail
PushBackAtTail(s) == [s EXCEPT !.list = Append(@, s.current),
                               !.isCurrent = @ \ {s.current},
                               !.inQueue = @ \cup {s.current}]

\* An IMMEDIATE_CHAR pushes the current IRP back to the head of the list
PushBack(s) == [s EXCEPT !.list = <<s.current>> \o @,
                         !.isCurrent = @ \ {s.current},
                         !.inQueue = @ \cup {s.current}]

\* The IRPs a queue holds
Members(s) == ({s.current} \ {None}) \cup Range(s.list)
Queued == Members(q)

-----------------------------------------------------------------------------
(* Attributes of a request *)

IsWriteQueue == Range(kind) \subseteq WriteKinds

\* GetWriteLength
WriteLength(i) == CASE kind[i] = "WRITE" -> Length
                    [] kind[i] \in {"IMMEDIATE_CHAR", "XOFF_COUNTER"} -> 1
                    [] OTHER -> 0

\* The bytes a request asks to move
RequestLength(i) == IF kind[i] = "READ" THEN Length ELSE WriteLength(i)

\* An XOFF_COUNTER whose character is out, so that it counts received ones
Counting(i) == kind[i] = "XOFF_COUNTER" /\ info[i] # 0

\* SetIrpTimeout: the status it returns, the timers it leaves, the flag it sets
IrpTimeoutStatus(i) ==
  IF /\ kind[i] = "READ"
     /\ \/ Timeouts = "now"
        \/ Timeouts = "one" /\ info[i] # 0
    THEN "SUCCESS" ELSE "PENDING"

\* faulty: reads get no timer
IrpTimeoutTimersNoRead(i) == IF kind[i] = "READ" THEN {} ELSE timers

IrpTimeoutTimers(i) ==
  CASE kind[i] \in {"FLUSH", "WAIT_ON_MASK"} -> timers
    [] kind[i] # "READ" -> IF Timeouts = "none" THEN {} ELSE {"total"}
    [] OTHER -> CASE Timeouts = "total" -> {"total"}
                  [] Timeouts = "one" -> IF info[i] = 0 THEN {"total"} ELSE {}
                  [] Timeouts = "interval" ->
                       IF info[i] # 0 THEN {"interval"} ELSE {}
                  [] OTHER -> {}

IrpTimeoutFlags(i) ==
  IF kind[i] # "READ" THEN {}
  ELSE CASE Timeouts = "one" /\ info[i] = 0 -> {"WAIT_ONE"}
         [] Timeouts = "interval" -> {"INTERVAL_TIMEOUT"}
         [] OTHER -> {}

-----------------------------------------------------------------------------
(* Completion *)

\* Put an IRP on the holder's queueToComplete
ToComplete(i, st) ==
  /\ status' = [status EXCEPT ![i] = st]
  /\ toComplete' = [toComplete EXCEPT ![lock] = @ \cup {i}]

\* faulty: no check that the cancel routine was still there
CompleteIrpAlways(i, st) ==
  ToComplete(i, st) /\ armed' = [armed EXCEPT ![i] = FALSE]

\* CompleteIrp: only if the cancel routine was still there to take
CompleteIrp(i, st) ==
  IF armed[i]
    THEN ToComplete(i, st) /\ armed' = [armed EXCEPT ![i] = FALSE]
    ELSE UNCHANGED <<status, toComplete, armed>>

-----------------------------------------------------------------------------
(* The spin lock *)

SectionType == [pc : Labels, irp : Irps \cup {None}, start : BOOLEAN,
                first : BOOLEAN, done : BOOLEAN, st : Statuses,
                ret : Statuses, passes : 0..MaxPasses]

Idle == [pc |-> "idle", irp |-> None, start |-> FALSE, first |-> FALSE,
         done |-> FALSE, st |-> "PENDING", ret |-> "PENDING", passes |-> 0]

Acquire(t, pc) ==
  /\ lock = None
  /\ lock' = t
  /\ cs' = [Idle EXCEPT !.pc = pc]

\* ReadWrite, not on behalf of an IRP being started
AcquireForPass(t, pc) ==
  /\ lock = None
  /\ lock' = t
  /\ cs' = [Idle EXCEPT !.pc = pc, !.first = (pc = "next"), !.passes = 1]

At(pc) == lock # None /\ cs.pc = pc
Goto(pc) == cs' = [cs EXCEPT !.pc = pc]

\* Ask StartCurrentIrp for the IRP after the first one
GotoNext(ret) ==
  cs' = [Idle EXCEPT !.pc = "next", !.passes = cs.passes, !.ret = ret]

\* The pass is over
GotoEnd(ret) ==
  cs' = [Idle EXCEPT !.pc = "passend", !.passes = cs.passes, !.ret = ret]

\* Release the lock; a dispatch routine has its result by then
Leave ==
  /\ lock' = None
  /\ cs' = Idle
  /\ disp' = IF lock[1] = "dispatch"
               THEN [disp EXCEPT ![lock[2]] = "finish"] ELSE disp

-----------------------------------------------------------------------------
(* Requests: FdoPortStartIrp and StartIrp *)

Init ==
  /\ \E K \in QueueKinds : kind \in [Irps -> K \cap Kinds]
  /\ disp = [i \in Irps |-> "new"]
  /\ result = [i \in Irps |-> "none"]
  /\ armed = [i \in Irps |-> FALSE]
  /\ cancel = [i \in Irps |-> FALSE]
  /\ canceller = [i \in Irps |-> "idle"]
  /\ info = [i \in Irps |-> 0]
  /\ status = [i \in Irps |-> "PENDING"]
  /\ flags = [i \in Irps |-> {}]
  /\ completed = [i \in Irps |-> 0]
  /\ ahead = [i \in Irps |-> {}]
  /\ q = EmptyQueue
  /\ amount = 0
  /\ timers = {}
  /\ dpcs = {}
  /\ lock = None
  /\ cs = Idle
  /\ toComplete = [t \in Threads |-> {}]

\* Take the lock and set the cancel routine
Submit(i) ==
  /\ disp[i] = "new"
  /\ Acquire(Dispatch(i), "decide")
  /\ disp' = [disp EXCEPT ![i] = "busy"]
  /\ armed' = [armed EXCEPT ![i] = TRUE]
  /\ ahead' = [ahead EXCEPT ![i] = Queued]
  /\ UNCHANGED <<kind, result, cancel, canceller, info, status, flags,
                 completed, q, amount, timers, dpcs, toComplete>>

\* The dispatch thread of IRP i has to decide what to do with it
Deciding(i) == At("decide") /\ lock = Dispatch(i)

\* faulty: reports STATUS_PENDING whoever has the cancel routine
NoPendingAlways(i, st) ==
  /\ st \in Statuses
  /\ armed' = [armed EXCEPT ![i] = FALSE]
  /\ result' = [result EXCEPT ![i] = "PENDING"]

\* NoPending: the dispatch routine completes the IRP unless its cancel routine
\* has been taken, in which case the cancel routine will
NoPending(i, st) ==
  /\ armed' = [armed EXCEPT ![i] = FALSE]
  /\ result' = [result EXCEPT ![i] = IF armed[i] THEN st ELSE "PENDING"]

Refuse(i, st) ==
  /\ NoPending(i, st)
  /\ Leave
  /\ UNCHANGED <<kind, cancel, canceller, info, status, flags, completed,
                 ahead, q, amount, timers, dpcs, toComplete>>

\* Irp->Cancel is already set
RefuseCancelled(i) == Deciding(i) /\ cancel[i] /\ Refuse(i, "CANCELLED")

\* One WAIT_ON_MASK and one IMMEDIATE_CHAR at a time
RefuseSecond(i) ==
  /\ Deciding(i)
  /\ ~cancel[i]
  /\ q.current # None
  /\ \/ kind[i] = "WAIT_ON_MASK"
     \/ kind[i] = "IMMEDIATE_CHAR" /\ kind[q.current] = "IMMEDIATE_CHAR"
  /\ Refuse(i, "INVALID_PARAMETER")

\* StartIrp, up to the call of the start routine, in the queue s
StartIrp(i, s, counted) ==
  /\ q' = MakeCurrent(s, i)
  /\ amount' = counted + WriteLength(i)
  /\ cs' = [cs EXCEPT !.pc = "process", !.irp = i, !.start = TRUE,
                      !.first = TRUE, !.passes = 1]

StartAtOnce(i) ==
  /\ Deciding(i)
  /\ ~cancel[i]
  /\ q.current = None
  /\ StartIrp(i, q, amount)
  /\ UNCHANGED <<kind, disp, result, armed, cancel, canceller, info, status,
                 flags, completed, ahead, timers, dpcs, lock, toComplete>>

\* IMMEDIATE_CHAR goes in front of the current IRP
StartImmediate(i) ==
  /\ Deciding(i)
  /\ ~cancel[i]
  /\ kind[i] = "IMMEDIATE_CHAR"
  /\ q.current # None
  /\ kind[q.current] # "IMMEDIATE_CHAR"
  /\ StartIrp(i, PushBack(q), amount)
  /\ UNCHANGED <<kind, disp, result, armed, cancel, canceller, info, status,
                 flags, completed, ahead, timers, dpcs, lock, toComplete>>

\* The IRP has to be queued behind the current one
MustQueue(i) ==
  /\ Deciding(i)
  /\ ~cancel[i]
  /\ q.current # None
  /\ kind[i] \notin {"WAIT_ON_MASK", "IMMEDIATE_CHAR"}

Enqueue(i) ==
  /\ MustQueue(i)
  /\ ~Counting(q.current)
  /\ q' = InsertTail(q, i)
  /\ amount' = amount + WriteLength(i)
  /\ status' = [status EXCEPT ![i] = "PENDING"]
  /\ result' = [result EXCEPT ![i] = "PENDING"]
  /\ Leave
  /\ UNCHANGED <<kind, armed, cancel, canceller, info, flags, completed, ahead,
                 timers, dpcs, toComplete>>

\* faulty: any FLUSH succeeds at once
FlushAtOnce(i) == MustQueue(i) /\ kind[i] = "FLUSH" /\ Refuse(i, "SUCCESS")

\* A FLUSH behind a counting XOFF_COUNTER is linked, unlinked and succeeds
FlushBehindCounter(i) ==
  /\ MustQueue(i)
  /\ Counting(q.current)
  /\ kind[i] = "FLUSH"
  /\ Refuse(i, "SUCCESS")

\* Any other IRP ends a counting XOFF_COUNTER.  The IRP was linked at the tail
\* and its length added to amount; ShiftQueue promotes the head of the list
\* and StartIrp makes this IRP current and adds its length again.
SupersedeCounter(i) ==
  /\ MustQueue(i)
  /\ Counting(q.current)
  /\ kind[i] # "FLUSH"
  /\ CompleteIrp(q.current, "MORE_WRITES")
  /\ StartIrp(i, Shift(InsertTail(q, i)), amount + WriteLength(i))
  /\ UNCHANGED <<kind, disp, result, cancel, canceller, info, flags, completed,
                 ahead, timers, dpcs, lock>>

\* The end of StartIrp when the start routine left the IRP pending
StartedPending(i) ==
  /\ At("started")
  /\ lock = Dispatch(i)
  /\ cs.ret = "PENDING"
  /\ status' = [status EXCEPT ![i] = "PENDING"]
  /\ result' = [result EXCEPT ![i] = "PENDING"]
  /\ Leave
  /\ UNCHANGED <<kind, armed, cancel, canceller, info, flags, completed, ahead,
                 q, amount, timers, dpcs, toComplete>>

\* The end of StartIrp when the start routine finished the IRP
StartedDone(i) ==
  /\ At("started")
  /\ lock = Dispatch(i)
  /\ cs.ret # "PENDING"
  /\ NoPending(i, cs.ret)
  /\ amount' = IF armed[i] THEN amount - (WriteLength(i) - info[i]) ELSE amount
  /\ q' = IF q.current = i THEN Shift(q) ELSE q
  /\ Leave
  /\ UNCHANGED <<kind, cancel, canceller, info, status, flags, completed, ahead,
                 timers, dpcs, toComplete>>

-----------------------------------------------------------------------------
(* One pass over the queue: TryReadWrite and FdoPortIo *)

\* faulty: StartCurrentIrp does not look whether it got the cancel routine
NextAlways ==
  /\ At("next")
  /\ q.current # None
  /\ armed' = [armed EXCEPT ![q.current] = FALSE]
  /\ cs' = [cs EXCEPT !.pc = "process", !.irp = q.current]
  /\ UNCHANGED <<kind, disp, result, cancel, canceller, info, status, flags,
                 completed, ahead, q, amount, timers, dpcs, lock, toComplete>>

\* StartCurrentIrp: take the cancel routine of the current IRP
NextTaken ==
  /\ At("next")
  /\ q.current # None
  /\ armed[q.current]
  /\ armed' = [armed EXCEPT ![q.current] = FALSE]
  /\ cs' = [cs EXCEPT !.pc = "process", !.irp = q.current]
  /\ UNCHANGED <<kind, disp, result, cancel, canceller, info, status, flags,
                 completed, ahead, q, amount, timers, dpcs, lock, toComplete>>

\* StartCurrentIrp: IoCancelIrp has taken it first, so go on to the next IRP
NextSkipped ==
  /\ At("next")
  /\ q.current # None
  /\ ~armed[q.current]
  /\ q' = Shift(q)
  /\ cs' = [cs EXCEPT !.first = FALSE]
  /\ UNCHANGED <<kind, disp, result, armed, cancel, canceller, info, status,
                 flags, completed, ahead, amount, timers, dpcs, lock,
                 toComplete>>

NextNone ==
  /\ At("next")
  /\ q.current = None
  /\ GotoEnd(cs.ret)
  /\ UNCHANGED <<kind, disp, result, armed, cancel, canceller, info, status,
                 flags, completed, ahead, q, amount, timers, dpcs, lock,
                 toComplete>>

\* Move n bytes for the IRP of the pass and note its new status
Move(n, st) ==
  /\ info' = [info EXCEPT ![cs.irp] = @ + n]
  /\ amount' = IF IsWriteQueue THEN amount - n ELSE amount
  /\ cs' = [cs EXCEPT !.pc = "stop", !.done = (n > 0), !.st = st]
  /\ UNCHANGED <<kind, disp, result, armed, cancel, canceller, status, flags,
                 completed, ahead, q, timers, dpcs, lock, toComplete>>

\* ReadFromBuffers, ReadWriteDirect, WriteToBuffers: as much as fits
Transfer ==
  /\ At("process")
  /\ kind[cs.irp] \in {"READ", "WRITE", "IMMEDIATE_CHAR", "XOFF_COUNTER"}
  /\ \E n \in 0..(RequestLength(cs.irp) - info[cs.irp]) :
       Move(n, IF info[cs.irp] + n = RequestLength(cs.irp)
                 THEN "SUCCESS" ELSE "PENDING")

\* writeHolding, or no read data: nothing moves
Hold ==
  /\ At("process")
  /\ kind[cs.irp] \in {"WRITE", "IMMEDIATE_CHAR", "XOFF_COUNTER"}
  /\ Move(0, "PENDING")

\* A FLUSH at the head has nothing in front of it; a waiter gets its events
Satisfy ==
  /\ At("process")
  /\ kind[cs.irp] \in {"FLUSH", "WAIT_ON_MASK"}
  /\ ~(kind[cs.irp] = "WAIT_ON_MASK" /\ cs.start)
  /\ Move(0, "SUCCESS")

\* StartIrpWaitOnMask: no mask, events already there, or wait for them
StartWaitOnMask ==
  /\ At("process")
  /\ kind[cs.irp] = "WAIT_ON_MASK"
  /\ cs.start
  /\ \E st \in {"INVALID_PARAMETER", "SUCCESS", "PENDING"} :
       cs' = [cs EXCEPT !.pc = "started", !.ret = st]
  /\ UNCHANGED <<kind, disp, result, armed, cancel, canceller, info, status,
                 flags, completed, ahead, q, amount, timers, dpcs, lock,
                 toComplete>>

\* The character of an XOFF_COUNTER is out: the IRP stays to count
CharSent == kind[cs.irp] = "XOFF_COUNTER" /\ cs.st = "SUCCESS"

\* The end of the turn of an IRP that is being started
StopStarted ==
  /\ At("stop")
  /\ cs.start
  /\ ~CharSent
  /\ LET i == cs.irp
         st == IF cs.st = "PENDING" THEN IrpTimeoutStatus(i) ELSE cs.st
     IN /\ IF cs.st = "PENDING"
             THEN /\ timers' = IrpTimeoutTimers(i)
                  /\ flags' = [flags EXCEPT ![i] = @ \cup IrpTimeoutFlags(i)]
             ELSE UNCHANGED <<timers, flags>>
        /\ IF st = "PENDING"
             THEN GotoEnd(st) /\ UNCHANGED q
             ELSE GotoNext(st) /\ q' = Shift(q)
  /\ UNCHANGED <<kind, disp, result, armed, cancel, canceller, info, status,
                 completed, ahead, amount, dpcs, lock, toComplete>>

StopStartedCounter ==
  /\ At("stop")
  /\ cs.start
  /\ CharSent
  /\ IF cs.done THEN Goto("counter") ELSE GotoEnd("PENDING")
  /\ UNCHANGED <<kind, disp, result, armed, cancel, canceller, info, status,
                 flags, completed, ahead, q, amount, timers, dpcs, lock,
                 toComplete>>

\* StopCurrentIrp, up to the restoring of the cancel routine
StopTaken ==
  /\ At("stop")
  /\ ~cs.start
  /\ LET i == cs.irp
         asked == IF CharSent THEN "PENDING" ELSE cs.st
         moved == asked = "PENDING" /\ cs.done
         st1 == IF moved /\ "WAIT_ONE" \in flags[i] THEN "SUCCESS" ELSE asked
         expired == st1 = "PENDING" /\ "EXPIRED" \in flags[i]
         arm == st1 = "PENDING" /\ ~expired /\ ~cs.first
         st2 == CASE expired -> "TIMEOUT"
                  [] arm -> IrpTimeoutStatus(i)
                  [] OTHER -> st1
         interval == /\ moved
                     /\ "WAIT_ONE" \notin flags[i]
                     /\ cs.first
                     /\ "INTERVAL_TIMEOUT" \in flags[i]
     IN /\ timers' = CASE arm -> IrpTimeoutTimers(i)
                       [] interval -> timers \cup {"interval"}
                       [] OTHER -> timers
        /\ flags' = IF arm THEN [flags EXCEPT ![i] = @ \cup IrpTimeoutFlags(i)]
                           ELSE flags
        /\ IF st2 = "PENDING"
             THEN /\ armed' = [armed EXCEPT ![i] = TRUE]
                  /\ Goto("recheck")
                  /\ UNCHANGED <<q, status, toComplete>>
             ELSE /\ q' = Shift(q)
                  /\ ToComplete(i, st2)
                  /\ GotoNext(cs.ret)
                  /\ UNCHANGED armed
  /\ UNCHANGED <<kind, disp, result, cancel, canceller, info, completed, ahead,
                 amount, dpcs, lock>>

\* StopCurrentIrp: the cancel routine is back; was Irp->Cancel set meanwhile?
RecheckCancelled ==
  /\ At("recheck")
  /\ cancel[cs.irp]
  /\ q' = Shift(q)
  /\ CompleteIrp(cs.irp, "CANCELLED")
  /\ GotoNext(cs.ret)
  /\ UNCHANGED <<kind, disp, result, cancel, canceller, info, flags, completed,
                 ahead, amount, timers, dpcs, lock>>

\* faulty: no second look at Irp->Cancel
RecheckForgets ==
  /\ At("recheck")
  /\ IF CharSent /\ cs.done THEN Goto("counter") ELSE GotoEnd(cs.ret)
  /\ UNCHANGED <<kind, disp, result, armed, cancel, canceller, info, status,
                 flags, completed, ahead, q, amount, timers, dpcs, lock,
                 toComplete>>

RecheckPending ==
  /\ At("recheck")
  /\ ~cancel[cs.irp]
  /\ IF CharSent /\ cs.done THEN Goto("counter") ELSE GotoEnd(cs.ret)
  /\ UNCHANGED <<kind, disp, result, armed, cancel, canceller, info, status,
                 flags, completed, ahead, q, amount, timers, dpcs, lock,
                 toComplete>>

\* StartXoffCounter: take the XOFF_COUNTER out and look at what is behind it
CounterOut ==
  /\ At("counter")
  /\ q' = Shift(q)
  /\ Goto("flushes")
  /\ UNCHANGED <<kind, disp, result, armed, cancel, canceller, info, status,
                 flags, completed, ahead, amount, timers, dpcs, lock,
                 toComplete>>

\* FLUSHes behind it succeed
CounterFlush ==
  /\ At("flushes")
  /\ q.current # None
  /\ kind[q.current] = "FLUSH"
  /\ q' = Shift(q)
  /\ CompleteIrp(q.current, "SUCCESS")
  /\ UNCHANGED <<kind, disp, result, cancel, canceller, info, flags, completed,
                 ahead, amount, timers, dpcs, lock, cs>>

\* another write behind it ends it
CounterMoreWrites ==
  /\ At("flushes")
  /\ q.current # None
  /\ kind[q.current] # "FLUSH"
  /\ CompleteIrp(cs.irp, "MORE_WRITES")
  /\ GotoNext(cs.ret)
  /\ UNCHANGED <<kind, disp, result, cancel, canceller, info, flags, completed,
                 ahead, q, amount, timers, dpcs, lock>>

\* nothing behind it: it becomes current again, with its own timeout
CounterInstall ==
  /\ At("flushes")
  /\ q.current = None
  /\ q' = MakeCurrent(q, cs.irp)
  /\ timers' = IF Timeouts = "none" THEN {} ELSE {"total"}
  /\ GotoEnd(cs.ret)
  /\ UNCHANGED <<kind, disp, result, armed, cancel, canceller, info, status,
                 flags, completed, ahead, amount, dpcs, lock, toComplete>>

\* OnRxChars in the pass of the other direction: the counter runs out
CountDown ==
  /\ At("passend")
  /\ q.current # None
  /\ Counting(q.current)
  /\ q' = Shift(q)
  /\ CompleteIrp(q.current, "SUCCESS")
  /\ UNCHANGED <<kind, disp, result, cancel, canceller, info, flags, completed,
                 ahead, amount, timers, dpcs, lock, cs>>

\* AlertOverrun in that pass: SERIAL_ERROR_ABORT cancels this queue
OverrunAbort ==
  /\ At("passend")
  /\ "WAIT_ON_MASK" \notin Range(kind)
  /\ q.current # None
  /\ Goto("purge")
  /\ UNCHANGED <<kind, disp, result, armed, cancel, canceller, info, status,
                 flags, completed, ahead, q, amount, timers, dpcs, lock,
                 toComplete>>

\* ReadWrite: tryWrite was set during the pass, so make another one
PassAgain ==
  /\ At("passend")
  /\ "WAIT_ON_MASK" \notin Range(kind)
  /\ cs.passes < MaxPasses
  /\ cs' = [cs EXCEPT !.pc = "next", !.first = TRUE, !.passes = @ + 1]
  /\ UNCHANGED <<kind, disp, result, armed, cancel, canceller, info, status,
                 flags, completed, ahead, q, amount, timers, dpcs, lock,
                 toComplete>>

\* Back in StartIrp, or at the end of the critical section
PassEnd ==
  /\ At("passend")
  /\ IF lock[1] = "dispatch" THEN Goto("started") /\ UNCHANGED <<lock, disp>>
                             ELSE Leave
  /\ UNCHANGED <<kind, result, armed, cancel, canceller, info, status, flags,
                 completed, ahead, q, amount, timers, dpcs, toComplete>>

-----------------------------------------------------------------------------
(* The other critical sections *)

\* IoCancelIrp, first half: set Irp->Cancel
IoCancelIrp(i) ==
  /\ i \in Cancellable
  /\ canceller[i] = "idle"
  /\ completed[i] = 0
  /\ cancel' = [cancel EXCEPT ![i] = TRUE]
  /\ canceller' = [canceller EXCEPT ![i] = "flagged"]
  /\ UNCHANGED <<kind, disp, result, armed, info, status, flags, completed,
                 ahead, q, amount, timers, dpcs, lock, cs, toComplete>>

\* IoCancelIrp, second half: take the cancel routine, and call it if it is set
TakeCancelRoutine(i) ==
  /\ canceller[i] = "flagged"
  /\ canceller' = [canceller EXCEPT ![i] = IF armed[i] THEN "routine" ELSE "done"]
  /\ armed' = [armed EXCEPT ![i] = FALSE]
  /\ UNCHANGED <<kind, disp, result, cancel, info, status, flags, completed,
                 ahead, q, amount, timers, dpcs, lock, cs, toComplete>>

\* CancelRoutine: unlink the IRP and, if it was current, go on with the next.
\* Only the WRITE queue is served at once.
CancelRoutine(i) ==
  /\ canceller[i] = "routine"
  /\ canceller' = [canceller EXCEPT ![i] = "done"]
  /\ status' = [status EXCEPT ![i] = "CANCELLED"]
  /\ toComplete' = [toComplete EXCEPT ![Canceller(i)] = {i}]
  /\ LET s == IF i \in q.inQueue THEN Unlink(q, i) ELSE q
     IN q' = IF i \in q.isCurrent THEN Shift(s) ELSE s
  /\ IF i \in q.isCurrent /\ IsWriteQueue
       THEN AcquireForPass(Canceller(i), "next")
       ELSE lock = None /\ UNCHANGED <<lock, cs>>
  /\ UNCHANGED <<kind, disp, result, armed, cancel, info, flags, completed,
                 ahead, amount, timers, dpcs>>

\* A worker that has completed what its last critical section left
Free(w) == toComplete[Worker(w)] = {}

\* ReadWrite or WaitComplete, called for the other port's requests, for a
\* change of flow control, from the write delay DPC, ...
Serve(w) ==
  /\ Free(w)
  /\ AcquireForPass(Worker(w), "next")
  /\ UNCHANGED <<kind, disp, result, armed, cancel, canceller, info, status,
                 flags, completed, ahead, q, amount, timers, dpcs, toComplete>>

\* The same in the other direction: this port only receives
ServeReceive(w) ==
  /\ Free(w)
  /\ "WAIT_ON_MASK" \notin Range(kind)
  /\ AcquireForPass(Worker(w), "passend")
  /\ UNCHANGED <<kind, disp, result, armed, cancel, canceller, info, status,
                 flags, completed, ahead, q, amount, timers, dpcs, toComplete>>

TimerFires(t) ==
  /\ t \in timers
  /\ timers' = timers \ {t}
  /\ dpcs' = dpcs \cup {t}
  /\ UNCHANGED <<kind, disp, result, armed, cancel, canceller, info, status,
                 flags, completed, ahead, q, amount, lock, cs, toComplete>>

\* TimeoutRoutine: whatever is current now has expired
TimeoutRoutine(w, t) ==
  /\ Free(w)
  /\ t \in dpcs
  /\ dpcs' = dpcs \ {t}
  /\ IF q.current = None
       THEN lock = None /\ UNCHANGED <<lock, cs, flags>>
       ELSE /\ AcquireForPass(Worker(w), "next")
            /\ flags' = [flags EXCEPT ![q.current] = @ \cup {"EXPIRED"}]
  /\ UNCHANGED <<kind, disp, result, armed, cancel, canceller, info, status,
                 completed, ahead, q, amount, timers, toComplete>>

\* CancelQueue, for IOCTL_SERIAL_PURGE and IRP_MJ_CLEANUP
CancelQueue(w) ==
  /\ Free(w)
  /\ Acquire(Worker(w), "purge")
  /\ UNCHANGED <<kind, disp, result, armed, cancel, canceller, info, status,
                 flags, completed, ahead, q, amount, timers, dpcs, toComplete>>

PurgeCurrent ==
  /\ At("purge")
  /\ q.current # None
  /\ q' = Shift(q)
  /\ CompleteIrp(q.current, "CANCELLED")
  /\ UNCHANGED <<kind, disp, result, cancel, canceller, info, flags, completed,
                 ahead, amount, timers, dpcs, lock, cs>>

PurgeEnd ==
  /\ At("purge")
  /\ q.current = None
  /\ IF cs.passes = 0 THEN Leave ELSE Goto("passend") /\ UNCHANGED <<lock, disp>>
  /\ UNCHANGED <<kind, result, armed, cancel, canceller, info, status, flags,
                 completed, ahead, q, amount, timers, dpcs, toComplete>>

-----------------------------------------------------------------------------
(* Completion outside the lock *)

\* faulty: what a write did not send is not taken off amountInWriteQueue
CompleteQueuedNoAmount(t, i) ==
  /\ i \in toComplete[t]
  /\ lock # t
  /\ IsWriteQueue => lock = None
  /\ toComplete' = [toComplete EXCEPT ![t] = @ \ {i}]
  /\ completed' = [completed EXCEPT ![i] = @ + 1]
  /\ UNCHANGED <<kind, disp, result, armed, cancel, canceller, info, status,
                 flags, ahead, q, amount, timers, dpcs, lock, cs>>

\* FdoPortCompleteQueue: what a write did not send leaves amountInWriteQueue,
\* which takes the lock again
CompleteQueued(t, i) ==
  /\ i \in toComplete[t]
  /\ lock # t
  /\ IsWriteQueue => lock = None
  /\ toComplete' = [toComplete EXCEPT ![t] = @ \ {i}]
  /\ completed' = [completed EXCEPT ![i] = @ + 1]
  /\ amount' = IF IsWriteQueue THEN amount - (WriteLength(i) - info[i])
                               ELSE amount
  /\ UNCHANGED <<kind, disp, result, armed, cancel, canceller, info, status,
                 flags, ahead, q, timers, dpcs, lock, cs>>

\* The dispatch routine returns, and completes the IRP it does not leave pending
Return(i) ==
  /\ disp[i] = "finish"
  /\ toComplete[Dispatch(i)] = {}
  /\ disp' = [disp EXCEPT ![i] = "done"]
  /\ IF result[i] = "PENDING"
       THEN UNCHANGED <<status, completed>>
       ELSE /\ status' = [status EXCEPT ![i] = result[i]]
            /\ completed' = [completed EXCEPT ![i] = @ + 1]
  /\ UNCHANGED <<kind, result, armed, cancel, canceller, info, flags, ahead, q,
                 amount, timers, dpcs, lock, cs, toComplete>>

-----------------------------------------------------------------------------
(* The steps of the thread that holds the lock *)
Decide(i) ==
  \/ RefuseCancelled(i) \/ RefuseSecond(i) \/ StartAtOnce(i)
  \/ StartImmediate(i) \/ Enqueue(i) \/ FlushBehindCounter(i)
  \/ SupersedeCounter(i) \/ StartedPending(i) \/ StartedDone(i)

Pass ==
  \/ NextTaken \/ NextSkipped \/ NextNone
  \/ Transfer \/ Hold \/ Satisfy \/ StartWaitOnMask
  \/ StopStarted \/ StopStartedCounter \/ StopTaken
  \/ RecheckCancelled \/ RecheckPending
  \/ CounterOut \/ CounterFlush \/ CounterMoreWrites \/ CounterInstall
  \/ CountDown \/ OverrunAbort \/ PassAgain \/ PassEnd
  \/ PurgeCurrent \/ PurgeEnd

Critical == Pass \/ \E i \in Irps : Decide(i)

Next ==
  \/ Critical
  \/ \E i \in Irps : \/ Submit(i) \/ Return(i)
                     \/ IoCancelIrp(i) \/ TakeCancelRoutine(i)
                     \/ CancelRoutine(i)
  \/ \E w \in Workers : \/ Serve(w) \/ ServeReceive(w) \/ CancelQueue(w)
                        \/ \E t \in Timers : TimeoutRoutine(w, t)
  \/ \E t \in Timers : TimerFires(t)
  \/ \E t \in Threads, i \in Irps : CompleteQueued(t, i)

Spec == Init /\ [][Next]_vars

-----------------------------------------------------------------------------
(* Safety *)

\* Every variable has its type.
TypeOK ==
  /\ kind \in [Irps -> Kinds]
  /\ disp \in [Irps -> {"new", "busy", "finish", "done"}]
  /\ result \in [Irps -> Statuses \cup {"none"}]
  /\ armed \in [Irps -> BOOLEAN]
  /\ cancel \in [Irps -> BOOLEAN]
  /\ canceller \in [Irps -> {"idle", "flagged", "routine", "done"}]
  /\ info \in [Irps -> 0..Length]
  /\ status \in [Irps -> Statuses]
  /\ flags \in [Irps -> SUBSET Flags]
  /\ completed \in [Irps -> Nat]
  /\ ahead \in [Irps -> SUBSET Irps]
  /\ q \in QueueType
  /\ amount \in Int
  /\ timers \in SUBSET Timers
  /\ dpcs \in SUBSET Timers
  /\ lock \in Threads \cup {None}
  /\ cs \in SectionType
  /\ toComplete \in [Threads -> SUBSET Irps]

\* The dispatch routine and the driver have not finished with the IRP
InDriver(i) == /\ disp[i] # "new"
               /\ completed[i] = 0
               /\ result[i] \in {"none", "PENDING"}

\* An IRP is completed at most once, whoever races for it: the dispatch
\* routine, the cancel routine, a purge, a timeout or the transfer itself.
AtMostOnce == \A i \in Irps : completed[i] <= 1

\* At these labels the section works on an IRP.
AtIrp == {"process", "stop", "recheck", "counter", "flushes"}

\* The place in the critical section fits its local variables: where the code
\* uses an IRP there is one, and a dispatch routine holds the lock only while it
\* is in FdoPortStartIrp, which decides on the IRP or makes a pass for it.  It
\* has its result exactly when it has left.
Sections ==
  /\ lock # None =>
       /\ cs.pc \in AtIrp => cs.irp \in Irps
       /\ lock[1] = "dispatch" =>
            /\ disp[lock[2]] = "busy"
            /\ cs.pc = "decide" \/ cs.passes # 0
  /\ \A i \in Irps : result[i] = "none" <=> disp[i] \in {"new", "busy"}

\* The ways to have the right to complete IRP i: its cancel routine is there
\* to take, IoCancelIrp took it, a pass took it, the dispatch routine
\* took it and returns a final status.
Moving(i) ==
  lock # None /\ cs.pc \in {"process", "stop"} /\ ~cs.start /\ cs.irp = i
Finishing(i) == disp[i] = "finish" /\ result[i] # "PENDING"
Listed(i) == \E t \in Threads : i \in toComplete[t]

\* Nobody has the right to complete IRP i together with somebody else, and
\* nobody has it once the IRP is completed or before it reached the queue.
Owned(i) ==
  /\ completed[i] <= 1
  /\ \A t, u \in Threads : i \in toComplete[t] /\ i \in toComplete[u] => t = u
  /\ disp[i] = "new" =>
       ~(armed[i] \/ canceller[i] = "routine" \/ Moving(i) \/ Listed(i)
         \/ completed[i] # 0)
  /\ armed[i] => ~(canceller[i] = "routine" \/ Moving(i) \/ Listed(i)
                   \/ Finishing(i) \/ completed[i] # 0)
  /\ canceller[i] = "routine" =>
       ~(Moving(i) \/ Listed(i) \/ Finishing(i) \/ completed[i] # 0)
  /\ Moving(i) => ~(Listed(i) \/ Finishing(i) \/ completed[i] # 0)
  /\ Listed(i) => ~(Finishing(i) \/ completed[i] # 0)
  /\ Finishing(i) => completed[i] = 0

OneOwner == \A i \in Irps : Owned(i)

\* The inductive invariant: one owner per IRP, with the facts about types and
\* critical sections that its proof needs.
Ownership == TypeOK /\ Sections /\ OneOwner

\* A well-linked queue: the list holds an IRP once and never the current one, the
\* flags of the IRPs mirror it, and it is empty when no IRP is current.
Linked(s) ==
  /\ \A j, k \in 1..Len(s.list) : s.list[j] = s.list[k] => j = k
  /\ s.current \notin Range(s.list)
  /\ s.inQueue = Range(s.list)
  /\ s.isCurrent = {s.current} \ {None}
  /\ s.current = None => s.list = <<>>

\* The cancel routine of the IRP is there to take, or IoCancelIrp has taken it.
Cancelled(i) == armed[i] \/ canceller[i] = "routine"

\* StartXoffCounter has taken the XOFF_COUNTER out of the queue.
TakenOut(i) == lock # None /\ cs.pc = "flushes" /\ cs.irp = i

\* A pass works on the current IRP, and on behalf of a dispatch routine that starts
\* one only on its.
AtCurrent ==
  lock # None =>
    /\ cs.pc \in {"process", "stop", "recheck", "counter"} => cs.irp = q.current
    /\ cs.pc \in {"counter", "flushes"} => kind[cs.irp] = "XOFF_COUNTER"
    /\ cs.pc = "flushes" =>
         /\ cs.irp \notin Queued
         /\ Cancelled(cs.irp)
         /\ lock = Dispatch(cs.irp) => cs.ret = "PENDING"
    /\ cs.pc = "decide" => cs.ret = "PENDING"
    /\ cs.start =>
         /\ cs.irp \in Irps
         /\ lock = Dispatch(cs.irp)
         /\ cs.pc \in {"process", "stop", "counter", "flushes", "started"}
         /\ cs.pc # "started" => cs.ret = "PENDING"

\* In this turn the character of the XOFF_COUNTER went out, and what is behind it in
\* the queue has not been looked at yet.
JustSent ==
  /\ lock # None
  /\ \/ cs.pc = "counter"
     \/ cs.pc \in {"stop", "recheck"} /\ cs.done

\* Nothing waits behind an XOFF_COUNTER that counts, and none counts that waits.
CountsAlone ==
  /\ \A i \in Irps :
       (\/ i \in Range(q.list)
        \/ disp[i] = "new"
        \/ lock = Dispatch(i) /\ cs.pc = "decide")
         => info[i] = 0 \/ kind[i] # "XOFF_COUNTER"
  /\ q.current # None /\ Counting(q.current) /\ ~JustSent => q.list = <<>>
  /\ JustSent /\ kind[cs.irp] = "XOFF_COUNTER" /\ cs.pc # "counter" => cs.st = "SUCCESS"

\* Who has the right to complete a queued IRP.
Claimed == \A i \in Queued : Cancelled(i) \/ Moving(i)

\* An IRP that the driver has is in the queue, on its way back to it, or someone will
\* complete it.
Held(i) == i \in Queued \/ canceller[i] = "routine" \/ Listed(i) \/ TakenOut(i)
Kept ==
  \A i \in Irps :
    InDriver(i) /\ (lock = Dispatch(i) => cs.pc # "decide" /\ cs.ret = "PENDING")
      => Held(i)

\* An IRP that its dispatch routine may still complete has its cancel routine, and is
\* not in the queue, or is about to be taken from it.
Undecided ==
  \A i \in Irps :
    lock = Dispatch(i) /\ (cs.pc = "decide" \/ cs.ret # "PENDING")
      => Cancelled(i) /\ (i \in Queued => cs.pc = "started" /\ i = q.current)

\* A dispatch routine that returned a final status has completed its IRP.
Returned == \A i \in Irps : disp[i] = "done" /\ result[i] # "PENDING" => completed[i] > 0

\* The thread of a cancel routine has done nothing before IoCancelIrp calls it.
Uncalled ==
  \A i \in Irps :
    canceller[i] # "done" => lock # Canceller(i) /\ toComplete[Canceller(i)] = {}

\* Where the IRPs are: with Ownership an inductive invariant, unless an IMMEDIATE_CHAR
\* can preempt an XOFF_COUNTER.
Placement ==
  /\ Linked(q) /\ AtCurrent /\ CountsAlone /\ Claimed /\ Kept /\ Undecided
  /\ Returned /\ Uncalled

\* The cancel routine is back, and Irp->Cancel is still to be looked at.
Rechecking(i) == Deciding(i) \/ (At("recheck") /\ cs.irp = i)

\* A cancel routine that is left in a cancelled IRP will be taken by IoCancelIrp, or the
\* driver looks at Irp->Cancel before it leaves.
Heeded ==
  \A i \in Irps : armed[i] /\ cancel[i] => canceller[i] = "flagged" \/ Rechecking(i)

NoPreemptedCounter == ~({"XOFF_COUNTER", "IMMEDIATE_CHAR"} \subseteq Kinds)

\* The IRPs queued when one was accepted are in front of it: in the list, and of the
\* current IRP but an IMMEDIATE_CHAR there is none left.  An IMMEDIATE_CHAR never waits.
InOrder ==
  /\ \A i, k \in Irps :
       i \in ahead[k] => /\ i # k
                         /\ disp[i] # "new" /\ disp[k] # "new"
                         /\ ~(lock = Dispatch(i) /\ cs.pc = "decide")
  /\ \A a, b \in 1..Len(q.list) : q.list[a] \in ahead[q.list[b]] => a < b
  /\ \A i \in Range(q.list) : kind[i] # "IMMEDIATE_CHAR"
  /\ q.current # None /\ kind[q.current] # "IMMEDIATE_CHAR"
       => ahead[q.current] \cap Range(q.list) = {}

\* A FLUSH that has succeeded, though it may not be completed yet.
Flushed(j) ==
  /\ kind[j] = "FLUSH"
  /\ \/ Listed(j) /\ status[j] = "SUCCESS"
     \/ lock = Dispatch(j) /\ cs.ret = "SUCCESS"
     \/ disp[j] = "finish" /\ result[j] = "SUCCESS"

\* The WRITEs that were ahead of it have left the queue.
FlushesWait ==
  \A j \in Irps : Flushed(j) => \A i \in ahead[j] : kind[i] = "WRITE" => i \notin Queued

Order == InOrder /\ FlushesWait

\* Nothing ends the current IRP after the total time-out, or its timer runs or has fired.
Untimed == q.current = None \/ kind[q.current] = "WAIT_ON_MASK"
TotalRuns == "total" \in timers \cup dpcs

\* A queue holds requests of one sort.
OneSort == \E K \in QueueKinds : Range(kind) \subseteq K

\* At rest, and at the labels where a pass has not begun or has ended, the timer runs,
\* and a FLUSH, which would not have set it, is not current.
RestTimed ==
  lock = None \/ cs.pc \in {"decide", "recheck", "passend", "started"} =>
    Untimed \/ (kind[q.current] # "FLUSH" /\ TotalRuns)

\* A pass relies on it for the IRP it comes to first, and for no other.
FirstTimed ==
  lock # None /\ cs.pc \in {"next", "process", "stop"} /\ cs.first /\ ~cs.start =>
    Untimed \/ TotalRuns \/ "EXPIRED" \in flags[q.current]

\* A FLUSH never ends its turn pending, a counter that is being started has just sent
\* its character, and the start routine finishes an IRP that is current only when it is
\* a waiter.
TurnTimed ==
  /\ lock # None /\ cs.pc = "process" /\ cs.start /\ kind[cs.irp] = "XOFF_COUNTER" =>
       info[cs.irp] = 0
  /\ lock # None /\ cs.pc = "stop" =>
       /\ kind[cs.irp] = "FLUSH" => cs.st # "PENDING"
       /\ cs.start /\ CharSent => cs.done
  /\ \A i \in Irps :
       lock = Dispatch(i) /\ cs.pc = "started" /\ cs.ret # "PENDING" /\ q.current = i =>
         kind[i] = "WAIT_ON_MASK"

\* Who times the current IRP: with Ownership and Placement an inductive invariant, with
\* a total time-out in force.
Timed == OneSort /\ RestTimed /\ FirstTimed /\ TurnTimed

\* IRPs are linked by one list entry: an IRP is in the queue once, in one
\* thread's queueToComplete or in neither, and a completed one in none.
OneList ==
  /\ \A j, k \in 1..Len(q.list) : q.list[j] = q.list[k] => j = k
  /\ q.current \notin Range(q.list)
  /\ \A i \in Irps :
       LET holders == {t \in Threads : i \in toComplete[t]}
       IN /\ \A t, u \in holders : t = u
          /\ i \in Queued => holders = {} /\ InDriver(i)
          /\ completed[i] > 0 => holders = {}

\* No IRP is forgotten: while nobody holds the lock, an IRP that is not
\* completed is in the queue, or someone is about to complete it.  One that was
\* cancelled stays in the queue only until IoCancelIrp takes its cancel routine:
\* a pass that held it meanwhile has seen Irp->Cancel when it put it back.
NoneLost ==
  lock = None =>
    \A i \in Irps :
      InDriver(i) => \/ i \in Queued /\ (cancel[i] => canceller[i] = "flagged")
                     \/ canceller[i] = "routine"
                     \/ \E t \in Threads : i \in toComplete[t]

\* amountInWriteQueue, reported as AmountInOutQueue, is the number of bytes
\* accepted and neither sent nor given back.
Owed == [i \in Irps |-> WriteLength(i) - info[i]]
AmountExact ==
  lock = None /\ IsWriteQueue =>
    amount = SumFunctionOnSet(Owed, {i \in Irps : InDriver(i)})

\* The IRPs it counts in a critical section: an IRP that has not been decided on is not
\* among them, and none of its bytes has moved.
Accounted == {i \in Irps : InDriver(i) /\ ~Deciding(i)}
Accounts ==
  IsWriteQueue =>
    /\ amount = SumFunctionOnSet(Owed, Accounted)
    /\ \A i \in Irps : disp[i] = "new" \/ Deciding(i) => info[i] = 0

\* No IRP is completed while its status still says that it is pending.
FinalStatus == \A i \in Irps : completed[i] > 0 => status[i] # "PENDING"

\* With timeouts set, a timer that will end the current IRP runs or has fired:
\* neither a cancelled nor a finished predecessor takes it away.  An interval
\* timeout runs from the first byte on.
TimerCovers ==
  (lock = None /\ q.current # None) =>
    LET i == q.current
        timer == CASE Timeouts \in {"total", "one"} -> "total"
                   [] Timeouts = "interval" /\ info[i] # 0 -> "interval"
                   [] OTHER -> "none"
    IN \/ timer = "none" \/ kind[i] \in {"FLUSH", "WAIT_ON_MASK"}
       \/ timer \in timers \cup dpcs
       \/ "EXPIRED" \in flags[i]
       \/ canceller[i] = "routine"

\* Bytes leave in the order of the requests: a WRITE moves none while a
\* WRITE accepted before it is still queued.
OrderPreserved ==
  [][\A i, j \in Irps :
       ( /\ kind[i] = "WRITE" /\ kind[j] = "WRITE"
         /\ i \in ahead[j] /\ info'[j] > info[j] )
       => i \notin Queued]_vars

\* A FLUSH succeeds only when the WRITEs accepted before it have left.
FlushBarrier ==
  [][\A i, j \in Irps :
       ( /\ kind[i] = "WRITE" /\ kind[j] = "FLUSH" /\ i \in ahead[j]
         /\ completed'[j] > completed[j] /\ status'[j] = "SUCCESS" )
       => i \notin Queued]_vars

-----------------------------------------------------------------------------
(* Liveness *)

\* The holder of the lock goes on, threads complete what they hold, the I/O
\* manager finishes IoCancelIrp, timers fire, and the spin lock does not starve
\* a kind of thread that waits for it for ever.  An IRP takes each of the steps
\* that need strong fairness once, so one condition covers all IRPs.
Fairness ==
  /\ WF_vars(Critical)
  /\ WF_vars(\E i \in Irps : Return(i))
  /\ WF_vars(\E i \in Irps : TakeCancelRoutine(i))
  /\ SF_vars(\E i \in Irps : CancelRoutine(i))
  /\ SF_vars(\E t \in Threads, i \in Irps : CompleteQueued(t, i))
  /\ WF_vars(\E t \in Timers : TimerFires(t))
  /\ SF_vars(\E w \in Workers, t \in Timers : TimeoutRoutine(w, t))

FairSpec == Spec /\ Fairness

\* A request that was cancelled after the driver got it is completed.
CancelCompletes ==
  \A i \in Irps : (disp[i] # "new" /\ cancel[i]) ~> (completed[i] > 0)

\* With a total timeout every READ and every request of the WRITE queue is
\* completed, whatever the peer does.
TimeoutCompletes ==
  \A i \in Irps : (disp[i] # "new" /\ kind[i] # "WAIT_ON_MASK") ~> (completed[i] > 0)

=============================================================================
