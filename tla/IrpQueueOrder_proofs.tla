------------------------ MODULE IrpQueueOrder_proofs ------------------------
(***************************************************************************)
(* What a queue of IrpQueue promises to the programs: bytes leave in the   *)
(* order of the requests and a FLUSH waits for the WRITEs before it, a     *)
(* timer runs for the IRP at the head, and the amount of bytes queued is   *)
(* exact.  The last rests on finite sums: SumFunctionOnSet is a recursive  *)
(* function, and what it gives is proved by the least counterexample.      *)
(***************************************************************************)
EXTENDS IrpQueue_proofs, FiniteSetTheorems

-----------------------------------------------------------------------------
(* How the queue, its history and the threads that decide may change *)

\* A step leaves the queue alone, promotes the head of its list, links an IRP that is
\* being decided on, puts one in front, leaves just one in it, or unlinks one.
LEMMA QueueCases ==
  ASSUME Ownership, Placement, [Next]_vars
  PROVE  \/ q' = q
         \/ q' = Shift(q) /\ q.current # None
         \/ \E i \in Irps : /\ Deciding(i) /\ i \notin Queued /\ q.current # None
                            /\ kind[i] # "IMMEDIATE_CHAR" /\ q' = InsertTail(q, i)
         \/ \E i \in Irps : /\ Deciding(i) /\ i \notin Queued /\ q.current # None
                            /\ kind[i] = "IMMEDIATE_CHAR"
                            /\ kind[q.current] # "IMMEDIATE_CHAR"
                            /\ q' = MakeCurrent(PushBack(q), i)
         \/ \E i \in Irps : /\ Deciding(i) \/ kind[i] = "XOFF_COUNTER"
                            /\ Queued' = {i} /\ Range(q'.list) = {} /\ q'.list = <<>>
         \/ \E i \in Range(q.list) : q' = Unlink(q, i)
  <1>0. /\ TypeOK /\ q \in QueueType /\ Linked(q) /\ AtCurrent /\ CountsAlone /\ Undecided
        /\ q.current # None => q.current \in Irps
        /\ Range(q.list) \subseteq Irps
    BY PlacementFacts
  <1>1. ASSUME NEW i \in Irps, Deciding(i)
        PROVE  i \notin Queued /\ ~JustSent /\ lock # None /\ cs.pc = "decide"
    BY <1>0, <1>1 DEF Deciding, At, Undecided, JustSent
  <1>2. ASSUME NEW i \in Irps, StartAtOnce(i)
        PROVE  Deciding(i) /\ Queued' = {i} /\ Range(q'.list) = {} /\ q'.list = <<>>
    <2>1. Deciding(i) /\ q.current = None /\ q' = MakeCurrent(q, i)
      BY <1>2 DEF StartAtOnce, StartIrp
    <2> QED  BY <1>0, <2>1, InstallLinked, EmptyRange DEF Queued
  <1>3. ASSUME NEW i \in Irps, SupersedeCounter(i)
        PROVE  Deciding(i) /\ Queued' = {i} /\ Range(q'.list) = {} /\ q'.list = <<>>
    <2>1. /\ Deciding(i) /\ q.current # None /\ Counting(q.current)
          /\ q' = MakeCurrent(Shift(InsertTail(q, i)), i)
      BY <1>3 DEF SupersedeCounter, MustQueue, StartIrp
    <2>2. q.list = <<>> /\ i \notin Members(q)
      BY <1>0, <1>1, <2>1 DEF CountsAlone, Queued
    <2> QED  BY <1>0, <2>1, <2>2, SupersedeLinked, EmptyRange DEF Queued
  <1>4. ASSUME CounterInstall
        PROVE  \E i \in Irps : /\ kind[i] = "XOFF_COUNTER" /\ Queued' = {i}
                               /\ Range(q'.list) = {} /\ q'.list = <<>>
    <2>1. /\ lock # None /\ cs.irp \in Irps /\ kind[cs.irp] = "XOFF_COUNTER"
          /\ q.current = None /\ q' = MakeCurrent(q, cs.irp)
      BY <1>0, <1>4, PlacementFacts DEF CounterInstall, At, Sections, AtIrp, AtCurrent
    <2>2. Queued' = {cs.irp} /\ q'.list = <<>> /\ Range(q'.list) = {}
      BY <1>0, <2>1, InstallLinked, EmptyRange DEF Queued
    <2> QED  BY <2>1, <2>2
  <1>5. ASSUME NEW i \in Irps, CancelRoutine(i)
        PROVE  q' = q \/ (q' = Shift(q) /\ q.current # None)
                 \/ (i \in Range(q.list) /\ q' = Unlink(q, i))
    <2>1. /\ q.inQueue = Range(q.list) /\ q.isCurrent = {q.current} \ {None}
          /\ q.current \notin Range(q.list)
      BY <1>0 DEF Linked
    <2> QED  BY <1>5, <2>1 DEF CancelRoutine
  <1>6. ASSUME NEW i \in Irps, Decide(i)
        PROVE  \/ q' = q
               \/ q' = Shift(q) /\ q.current # None
               \/ /\ Deciding(i) /\ i \notin Queued /\ q.current # None
                  /\ kind[i] # "IMMEDIATE_CHAR" /\ q' = InsertTail(q, i)
               \/ /\ Deciding(i) /\ i \notin Queued /\ q.current # None
                  /\ kind[i] = "IMMEDIATE_CHAR"
                  /\ kind[q.current] # "IMMEDIATE_CHAR"
                  /\ q' = MakeCurrent(PushBack(q), i)
               \/ Deciding(i) /\ Queued' = {i} /\ Range(q'.list) = {} /\ q'.list = <<>>
    <2>1. CASE Enqueue(i)
      BY <1>1, <2>1 DEF Enqueue, MustQueue
    <2>2. CASE StartImmediate(i)
      BY <1>1, <2>2 DEF StartImmediate, StartIrp
    <2>3. CASE StartedDone(i)
      BY <2>3, BoundsAssumption DEF StartedDone
    <2>4. CASE RefuseCancelled(i) \/ RefuseSecond(i) \/ FlushBehindCounter(i)
                 \/ StartedPending(i)
      BY <2>4 DEF RefuseCancelled, RefuseSecond, FlushBehindCounter, Refuse, StartedPending
    <2> QED  BY <1>2, <1>3, <1>6, <2>1, <2>2, <2>3, <2>4 DEF Decide
  <1>7. ASSUME Pass, ~CounterInstall
        PROVE  q' = q \/ (q' = Shift(q) /\ q.current # None)
    <2>1. ASSUME StopStarted \/ StopTaken \/ RecheckCancelled \/ CounterOut
          PROVE  q' = q \/ (q' = Shift(q) /\ q.current # None)
      <3>1. cs.irp \in Irps /\ cs.irp = q.current
        BY <1>0, <2>1, PlacementFacts
        DEF StopStarted, StopTaken, RecheckCancelled, CounterOut, At, Sections, AtIrp,
            AtCurrent
      <3> QED
        BY <2>1, <3>1, BoundsAssumption
        DEF StopStarted, StopTaken, RecheckCancelled, CounterOut
    <2> QED
      BY <1>7, <2>1
      DEF Pass, NextTaken, NextSkipped, NextNone, Transfer, Hold, Satisfy, Move,
          StartWaitOnMask, StopStartedCounter, RecheckPending, CounterFlush,
          CounterMoreWrites, CountDown, OverrunAbort, PassAgain, PassEnd, PurgeCurrent,
          PurgeEnd
  <1>8. CASE UNCHANGED vars
    BY <1>8 DEF vars
  <1>9. CASE Next
    <2>1. CASE \E i \in Irps : Decide(i)
      BY <1>6, <2>1
    <2>2. CASE Pass
      BY <1>4, <1>7, <2>2
    <2>3. CASE \E i \in Irps : CancelRoutine(i)
      BY <1>5, <2>3
    <2>4. ASSUME ~Critical, ~(\E i \in Irps : CancelRoutine(i)) PROVE q' = q
      BY <1>9, <2>4
      DEF Next, Submit, Return, IoCancelIrp, TakeCancelRoutine, Serve, ServeReceive,
          CancelQueue, TimeoutRoutine, TimerFires, CompleteQueued
    <2> QED  BY <2>1, <2>2, <2>3, <2>4 DEF Critical
  <1> QED  BY <1>8, <1>9

\* Only the submission of an IRP adds to the history and makes a thread decide.
LEMMA HistoryCases ==
  ASSUME Ownership, [Next]_vars
  PROVE  /\ kind' = kind
         /\ \/ \E i \in Irps : Submit(i)
            \/ /\ ahead' = ahead
               /\ \A j \in Irps : disp'[j] = "new" => disp[j] = "new"
               /\ \A j \in Irps : Deciding(j)' => Deciding(j)
  <1>0. TypeOK /\ Sections /\ cs \in SectionType /\ q \in QueueType /\ cs.ret \in Statuses
    BY DEF Ownership, TypeOK, SectionType
  <1>1. ASSUME ~(\E i \in Irps : Submit(i))
        PROVE  ahead' = ahead /\ \A j \in Irps : disp'[j] = "new" => disp[j] = "new"
    BY <1>0, <1>1
    DEF Next, vars, Critical, Pass, Decide, Leave, TypeOK, RefuseCancelled, RefuseSecond,
        Refuse, StartAtOnce, StartImmediate, Enqueue, FlushBehindCounter,
        SupersedeCounter, StartedPending, StartedDone, NextTaken, NextSkipped, NextNone,
        Transfer, Hold, Satisfy, Move, StartWaitOnMask, StopStarted, StopStartedCounter,
        StopTaken, RecheckCancelled, RecheckPending, CounterOut, CounterFlush,
        CounterMoreWrites, CounterInstall, CountDown, OverrunAbort, PassAgain, PassEnd,
        PurgeCurrent, PurgeEnd, Return, IoCancelIrp, TakeCancelRoutine, CancelRoutine,
        Serve, ServeReceive, CancelQueue, TimeoutRoutine, TimerFires, CompleteQueued
  <1>2. ASSUME NEW j \in Irps, NEW i \in Irps, Decide(i), Deciding(j)' PROVE FALSE
    <2>1. lock' # None /\ cs'.pc = "decide"
      BY <1>2 DEF Deciding, At
    <2>2. ASSUME NEW s, NEW n, StartIrp(i, s, n) PROVE FALSE
      BY <1>0, <2>1, <2>2, TurnEffects
    <2> QED
      BY <1>2, <2>1, <2>2
      DEF Decide, RefuseCancelled, RefuseSecond, Refuse, StartAtOnce, StartImmediate,
          Enqueue, FlushBehindCounter, SupersedeCounter, StartedPending, StartedDone,
          Leave
  <1>3. ASSUME NEW j \in Irps, Pass, Deciding(j)' PROVE Deciding(j)
    <2>1. lock' # None /\ cs'.pc = "decide"
      BY <1>3 DEF Deciding, At
    <2>2. ~NextTaken /\ ~NextSkipped /\ ~PassAgain
      BY <1>0, <2>1, TurnEffects
    <2>3. /\ \A pc \in Labels : Goto(pc) => pc = "decide"
          /\ \A ret \in Statuses : ~GotoNext(ret) /\ ~GotoEnd(ret)
      BY <1>0, <2>1, GotoEffects
    <2>4. ~StartWaitOnMask
      <3> SUFFICES ASSUME StartWaitOnMask PROVE FALSE
        OBVIOUS
      <3>1. PICK st \in Statuses : cs' = [cs EXCEPT !.pc = "started", !.ret = st]
        BY DEF StartWaitOnMask, Statuses
      <3> QED  BY <1>0, <2>1, <3>1 DEF SectionType
    <2>5. ASSUME NEW n \in Int, NEW st \in Statuses, Move(n, st) PROVE FALSE
      BY <1>0, <2>1, <2>5, MoveEffects
    <2>6. ~Transfer
      <3> SUFFICES ASSUME Transfer PROVE FALSE
        OBVIOUS
      <3>1. cs.irp \in Irps /\ info[cs.irp] \in Nat /\ RequestLength(cs.irp) \in Nat
        BY <1>0, BoundsAssumption
        DEF Transfer, At, Sections, AtIrp, TypeOK, RequestLength, WriteLength
      <3>2. PICK n \in 0..(RequestLength(cs.irp) - info[cs.irp]) :
              Move(n, IF info[cs.irp] + n = RequestLength(cs.irp)
                        THEN "SUCCESS" ELSE "PENDING")
        BY DEF Transfer
      <3> QED  BY <2>5, <3>1, <3>2 DEF Statuses
    <2>7. ~Hold /\ ~Satisfy
      BY <2>5 DEF Hold, Satisfy, Statuses
    <2>8. /\ \A st \in Statuses : st # "PENDING" \/ st = "PENDING"
          /\ \A i \in Irps : IrpTimeoutStatus(i) \in Statuses
          /\ cs.st \in Statuses /\ "PENDING" \in Statuses
          /\ {"recheck", "counter", "flushes", "started", "purge", "passend"} \subseteq Labels
      BY <1>0 DEF IrpTimeoutStatus, Statuses, SectionType, Labels
    <2>9. ~StopStarted
      BY <1>0, <2>3, <2>8 DEF StopStarted, At, Sections, AtIrp
    <2>10. ~StopTaken
      BY <1>0, <2>3, <2>8 DEF StopTaken
    <2>11. /\ ~NextNone /\ ~StopStartedCounter /\ ~RecheckCancelled /\ ~RecheckPending
           /\ ~CounterOut /\ ~CounterMoreWrites /\ ~CounterInstall /\ ~OverrunAbort
      BY <1>0, <2>3, <2>8
      DEF NextNone, StopStartedCounter, RecheckCancelled, RecheckPending, CounterOut,
          CounterMoreWrites, CounterInstall, OverrunAbort
    <2>12. ~PassEnd /\ ~(PurgeEnd /\ cs.passes # 0) /\ ~(PurgeEnd /\ cs.passes = 0)
      BY <2>1, <2>3, <2>8 DEF PassEnd, PurgeEnd, Leave
    <2> QED
      BY <1>3, <2>2, <2>4, <2>6, <2>7, <2>9, <2>10, <2>11, <2>12
      DEF Pass, CounterFlush, CountDown, PurgeCurrent, Deciding, At
  <1>4. ASSUME NEW j \in Irps, ~Critical, ~(\E i \in Irps : Submit(i)), Deciding(j)'
        PROVE  Deciding(j)
    <2>1. lock' # None /\ cs'.pc = "decide"
      BY <1>4 DEF Deciding, At
    <2>2. \A t : /\ ~AcquireForPass(t, "next") /\ ~AcquireForPass(t, "passend")
                 /\ ~Acquire(t, "purge")
      BY <2>1, LockEffects DEF Labels
    <2> QED
      BY <1>4, <2>1, <2>2
      DEF Next, vars, Return, IoCancelIrp, TakeCancelRoutine, CancelRoutine, Serve,
          ServeReceive, CancelQueue, TimeoutRoutine, TimerFires, CompleteQueued, Deciding,
          At
  <1>5. kind' = kind
    BY DEF Next, vars, Critical, Pass, Decide, RefuseCancelled, RefuseSecond, Refuse,
        StartAtOnce, StartImmediate, Enqueue, FlushBehindCounter,
        SupersedeCounter, StartedPending, StartedDone, NextTaken, NextSkipped, NextNone,
        Transfer, Hold, Satisfy, Move, StartWaitOnMask, StopStarted, StopStartedCounter,
        StopTaken, RecheckCancelled, RecheckPending, CounterOut, CounterFlush,
        CounterMoreWrites, CounterInstall, CountDown, OverrunAbort, PassAgain, PassEnd,
        PurgeCurrent, PurgeEnd, Submit, Return, IoCancelIrp, TakeCancelRoutine,
        CancelRoutine, Serve, ServeReceive, CancelQueue, TimeoutRoutine, TimerFires,
        CompleteQueued
  <1> QED
    BY <1>1, <1>2, <1>3, <1>4, <1>5 DEF Critical

-----------------------------------------------------------------------------
(* The queue keeps the order of the requests *)

\* What the order says of the list and of the current IRP.
QueueInOrder ==
  /\ \A a, b \in 1..Len(q.list) : q.list[a] \in ahead[q.list[b]] => a < b
  /\ \A i \in Range(q.list) : kind[i] # "IMMEDIATE_CHAR"
  /\ q.current # None /\ kind[q.current] # "IMMEDIATE_CHAR"
       => ahead[q.current] \cap Range(q.list) = {}

\* The head of the list becomes current: nothing that stays was ahead of it.
LEMMA ShiftOrder ==
  ASSUME Ownership, Placement, InOrder, q' = Shift(q), q.current # None,
         ahead' = ahead, kind' = kind
  PROVE  QueueInOrder'
  <1>0. q \in QueueType /\ Linked(q) /\ q.list \in Seq(Irps)
    BY PlacementFacts DEF QueueType
  <1>1. Range(q'.list) \subseteq Range(q.list)
    BY <1>0, ShiftLinked
  <1>2. CASE q.list = <<>>
    <2>1. q'.current = None /\ q'.list = <<>>
      BY <1>0, <1>2, ShiftLinked
    <2> QED  BY <2>1, EmptyRange DEF QueueInOrder
  <1>3. CASE q.list # <<>>
    <2> DEFINE n == Len(q.list)
               m == Len(q'.list)
    <2>1. /\ q'.current = q.list[1] /\ m = n - 1
          /\ \A k \in 1..m : q'.list[k] = q.list[k + 1]
      BY <1>0, <1>3, ShiftLinked
    <2>2. n \in Nat /\ n # 0 /\ m \in Nat
      BY <1>0, <1>3, <2>1, ListFacts
    <2>3. q' \in QueueType
      BY <1>0, ShiftType
    <2>4. /\ q'.list \in Seq(Irps)
          /\ \A i : i \in Range(q'.list) => \E k \in 1..m : q'.list[k] = i
      BY <2>3, ListFacts DEF QueueType
    <2>5. \A a, b \in 1..n : q.list[a] \in ahead[q.list[b]] => a < b
      BY DEF InOrder
    <2>6. \A a, b \in 1..m : q'.list[a] \in ahead'[q'.list[b]] => a < b
      BY <2>1, <2>2, <2>5
    <2>7. ahead'[q'.current] \cap Range(q'.list) = {}
      BY <2>1, <2>2, <2>4, <2>5
    <2> QED  BY <1>1, <2>6, <2>7 DEF InOrder, QueueInOrder
  <1> QED  BY <1>2, <1>3

\* An IRP is linked at the tail: nothing in the queue was accepted after it.
LEMMA TailOrder ==
  ASSUME Ownership, Placement, InOrder, ahead' = ahead, kind' = kind, NEW i \in Irps,
         Deciding(i), i \notin Queued, q.current # None, kind[i] # "IMMEDIATE_CHAR",
         q' = InsertTail(q, i)
  PROVE  QueueInOrder'
  <1> DEFINE n == Len(q.list)
  <1>0. q \in QueueType /\ Linked(q) /\ q.list \in Seq(Irps) /\ q.current \in Irps
    BY PlacementFacts DEF QueueType
  <1>1. n \in Nat /\ \A k \in 1..n : q.list[k] \in Irps
    BY <1>0, ListFacts
  <1>2. /\ q'.current = q.current
        /\ Range(q'.list) = Range(q.list) \cup {i}
        /\ Len(q'.list) = n + 1
        /\ q'.list[n + 1] = i
        /\ \A k \in 1..n : q'.list[k] = q.list[k]
    BY <1>0, TailLinked DEF Queued
  <1>3. \A k \in Irps : i \notin ahead[k]
    BY DEF InOrder, Deciding, At
  <1>4. \A a, b \in 1..n : q.list[a] \in ahead[q.list[b]] => a < b
    BY DEF InOrder
  <1>5. ASSUME NEW a \in 1..(n + 1), NEW b \in 1..(n + 1),
               q'.list[a] \in ahead'[q'.list[b]]
        PROVE  a < b
    <2>1. q'.list[b] \in Irps /\ q'.list[a] # i
      BY <1>1, <1>2, <1>3, <1>5
    <2>2. a \in 1..n
      BY <1>1, <1>2, <2>1
    <2>3. CASE b = n + 1
      BY <1>1, <2>2, <2>3
    <2>4. CASE b # n + 1
      <3>1. b \in 1..n
        BY <1>1, <2>4
      <3> QED  BY <1>2, <1>4, <1>5, <2>2, <3>1
    <2> QED  BY <2>3, <2>4
  <1> QED  BY <1>0, <1>2, <1>3, <1>5 DEF QueueInOrder, InOrder

\* An IMMEDIATE_CHAR pushes the current IRP back in front of those behind it.
LEMMA PushOrder ==
  ASSUME Ownership, Placement, InOrder, ahead' = ahead, kind' = kind, NEW i \in Irps,
         i \notin Queued, q.current # None, kind[i] = "IMMEDIATE_CHAR",
         kind[q.current] # "IMMEDIATE_CHAR", q' = MakeCurrent(PushBack(q), i)
  PROVE  QueueInOrder'
  <1> DEFINE n == Len(q.list)
  <1>0. q \in QueueType /\ Linked(q) /\ q.list \in Seq(Irps) /\ q.current \in Irps
    BY PlacementFacts DEF QueueType
  <1>1. n \in Nat /\ \A k \in 1..n : q.list[k] \in Range(q.list) /\ q.list[k] \in Irps
    BY <1>0, ListFacts
  <1>2. /\ q'.current = i
        /\ Range(q'.list) = Range(q.list) \cup {q.current}
        /\ Len(q'.list) = n + 1
        /\ q'.list[1] = q.current
        /\ \A k \in 1..n : q'.list[k + 1] = q.list[k]
    BY <1>0, PushLinked DEF Queued
  <1>3. /\ q.current \notin ahead[q.current]
        /\ ahead[q.current] \cap Range(q.list) = {}
    BY <1>0 DEF InOrder
  <1>4. \A a, b \in 1..n : q.list[a] \in ahead[q.list[b]] => a < b
    BY DEF InOrder
  <1>6. ASSUME NEW a \in 1..(n + 1), a # 1
        PROVE  a - 1 \in 1..n /\ q'.list[a] = q.list[a - 1]
    <2>1. a - 1 \in 1..n /\ (a - 1) + 1 = a
      BY <1>1, <1>6
    <2>2. q'.list[(a - 1) + 1] = q.list[a - 1]
      BY <1>2, <2>1
    <2> QED  BY <2>1, <2>2
  <1>5. ASSUME NEW a \in 1..(n + 1), NEW b \in 1..(n + 1),
               q'.list[a] \in ahead'[q'.list[b]]
        PROVE  a < b
    <2>1. CASE b = 1
      <3>1. CASE a = 1
        BY <1>2, <1>3, <1>5, <2>1, <3>1
      <3>2. CASE a # 1
        <4>1. a - 1 \in 1..n /\ q'.list[a] = q.list[a - 1]
          BY <1>6, <3>2
        <4> QED  BY <1>1, <1>2, <1>3, <1>5, <2>1, <4>1
      <3> QED  BY <3>1, <3>2
    <2>2. CASE b # 1 /\ a # 1
      <3>1. a - 1 \in 1..n /\ q'.list[a] = q.list[a - 1]
        BY <1>6, <2>2
      <3>2. b - 1 \in 1..n /\ q'.list[b] = q.list[b - 1]
        BY <1>6, <2>2
      <3>3. a - 1 < b - 1
        BY <1>4, <1>5, <3>1, <3>2
      <3> QED  BY <1>1, <3>3
    <2>3. CASE b # 1 /\ a = 1
      BY <1>1, <2>3
    <2> QED  BY <2>1, <2>2, <2>3
  <1> QED  BY <1>2, <1>5 DEF QueueInOrder, InOrder

\* An IRP is unlinked: the others keep their order.
LEMMA UnlinkOrder ==
  ASSUME Ownership, Placement, InOrder, ahead' = ahead, kind' = kind,
         NEW i \in Range(q.list), q' = Unlink(q, i)
  PROVE  QueueInOrder'
  <1> DEFINE n == Len(q.list)
             m == Len(q'.list)
  <1>0. q \in QueueType /\ Linked(q) /\ q.list \in Seq(Irps)
    BY PlacementFacts DEF QueueType
  <1>1. n \in Nat /\ \A k \in 1..n : q.list[k] \in Irps
    BY <1>0, ListFacts
  <1>2. /\ q'.current = q.current
        /\ Range(q'.list) \subseteq Range(q.list)
        /\ \A a \in 1..m :
             \E b \in 1..n : q'.list[a] = q.list[b] /\ (b = a \/ b = a + 1)
    BY <1>0, UnlinkLinked
  <1>3. m \in Nat
    <2>1. i \in Irps
      BY <1>0, ListFacts
    <2>2. q' \in QueueType
      BY <1>0, <2>1, UnlinkType
    <2> QED  BY <2>2, ListFacts DEF QueueType
  <1>4. ASSUME NEW a \in 1..m, NEW b \in 1..m, q'.list[a] \in ahead'[q'.list[b]]
        PROVE  a < b
    <2>1. PICK c \in 1..n : q'.list[a] = q.list[c] /\ (c = a \/ c = a + 1)
      BY <1>2
    <2>2. PICK d \in 1..n : q'.list[b] = q.list[d] /\ (d = b \/ d = b + 1)
      BY <1>2
    <2>3. c < d
      BY <1>4, <2>1, <2>2 DEF InOrder
    <2>4. a # b
      BY <1>1, <1>4, <2>1 DEF InOrder
    <2> QED  BY <1>1, <1>3, <2>1, <2>2, <2>3, <2>4
  <1> QED  BY <1>2, <1>4 DEF QueueInOrder, InOrder

\* The order is kept by every step.
LEMMA InOrderStep ==
  Ownership /\ Placement /\ InOrder /\ [Next]_vars => InOrder'
  <1> SUFFICES ASSUME Ownership, Placement, InOrder, [Next]_vars PROVE InOrder'
    OBVIOUS
  <1>0. /\ TypeOK /\ Queued \subseteq Irps /\ Range(q.list) \subseteq Queued
        /\ q.current # None => q.current \in Irps /\ q.current \in Queued
        /\ q.list \in Seq(Irps)
    BY PlacementFacts DEF QueueType
  <1>1. CASE \E i \in Irps : Submit(i)
    <2>1. PICK s \in Irps : Submit(s)
      BY <1>1
    <2>2. /\ disp[s] = "new" /\ disp' = [disp EXCEPT ![s] = "busy"]
          /\ ahead' = [ahead EXCEPT ![s] = Queued]
          /\ lock' = Dispatch(s) /\ UNCHANGED <<kind, q>>
      BY <2>1 DEF Submit, Acquire
    <2>3. s \notin Queued /\ \A i \in Queued : disp[i] # "new"
      BY <2>2, QueuedFacts DEF InDriver
    <2>4. ASSUME NEW i \in Irps, NEW k \in Irps, i \in ahead'[k]
          PROVE  /\ i # k /\ disp'[i] # "new" /\ disp'[k] # "new"
                 /\ ~(lock' = Dispatch(i) /\ cs'.pc = "decide")
      <3>1. i # s
        BY <1>0, <2>2, <2>3, <2>4 DEF InOrder, TypeOK
      <3>2. lock' # Dispatch(i)
        BY <2>2, <3>1, ThreadNames
      <3>3. i # k /\ disp'[i] # "new" /\ disp'[k] # "new"
        BY <1>0, <2>2, <2>3, <2>4, <3>1 DEF InOrder, TypeOK
      <3> QED  BY <3>2, <3>3
    <2>5. \A k \in Queued : ahead'[k] = ahead[k]
      BY <1>0, <2>2, <2>3 DEF TypeOK
    <2>6. \A a \in 1..Len(q.list) : q.list[a] \in Queued
      BY <1>0, ListFacts
    <2> QED  BY <1>0, <2>2, <2>4, <2>5, <2>6 DEF InOrder
  <1>2. CASE ~(\E i \in Irps : Submit(i))
    <2>1. /\ kind' = kind /\ ahead' = ahead
          /\ \A j \in Irps : disp'[j] = "new" => disp[j] = "new"
          /\ \A j \in Irps : Deciding(j)' => Deciding(j)
      BY <1>2, HistoryCases
    <2>2. QueueInOrder'
      <3>1. CASE q' = q
        BY <2>1, <3>1 DEF InOrder, QueueInOrder
      <3>2. ASSUME NEW i \in Irps, Queued' = {i}, Range(q'.list) = {}, q'.list = <<>>
            PROVE  QueueInOrder'
        BY <3>2 DEF QueueInOrder
      <3> QED
        BY <2>1, <3>1, <3>2, QueueCases, ShiftOrder, TailOrder, PushOrder, UnlinkOrder
    <2>3. ASSUME NEW i \in Irps, NEW k \in Irps, i \in ahead'[k]
          PROVE  /\ i # k /\ disp'[i] # "new" /\ disp'[k] # "new"
                 /\ ~(lock' = Dispatch(i) /\ cs'.pc = "decide")
      <3>1. i # k /\ disp[i] # "new" /\ disp[k] # "new" /\ ~Deciding(i)
        BY <2>1, <2>3 DEF InOrder, Deciding, At
      <3>2. ~(lock' = Dispatch(i) /\ cs'.pc = "decide")
        BY <2>1, <3>1, ThreadNames DEF Deciding, At
      <3> QED  BY <2>1, <3>1, <3>2
    <2> QED  BY <2>2, <2>3 DEF InOrder, QueueInOrder
  <1> QED  BY <1>1, <1>2

-----------------------------------------------------------------------------
(* A FLUSH waits for the WRITEs before it *)

\* Besides the IRP that is being decided on, only an XOFF_COUNTER that was taken out
\* comes into the queue.
LEMMA QueueGains ==
  ASSUME Ownership, Placement, [Next]_vars, NEW i \in Queued', i \notin Queued
  PROVE  Deciding(i) \/ kind[i] = "XOFF_COUNTER"
  <1>0. q \in QueueType /\ Linked(q) /\ Queued = Members(q) /\ Queued' = Members(q')
    BY PlacementFacts DEF Queued
  <1>1. CASE q' = q
    BY <1>0, <1>1
  <1>2. CASE q' = Shift(q) /\ q.current # None
    BY <1>0, <1>2, ShiftLinked
  <1>3. ASSUME NEW k \in Irps, Deciding(k), k \notin Queued, q.current # None,
               q' = InsertTail(q, k)
        PROVE  Deciding(i)
    BY <1>0, <1>3, TailLinked
  <1>4. ASSUME NEW k \in Irps, Deciding(k), k \notin Queued, q.current # None,
               q' = MakeCurrent(PushBack(q), k)
        PROVE  Deciding(i)
    BY <1>0, <1>4, PushLinked
  <1>5. ASSUME NEW k \in Irps, Deciding(k) \/ kind[k] = "XOFF_COUNTER", Queued' = {k}
        PROVE  Deciding(i) \/ kind[i] = "XOFF_COUNTER"
    BY <1>5
  <1>6. ASSUME NEW k \in Range(q.list), q' = Unlink(q, k) PROVE FALSE
    BY <1>0, <1>6, UnlinkLinked
  <1> QED  BY <1>1, <1>2, <1>3, <1>4, <1>5, <1>6, QueueCases

\* An IRP is listed with SUCCESS only by completing it so.
LEMMA ListedFacts ==
  ASSUME TypeOK, lock # None, NEW i \in Irps, NEW st \in Statuses,
         CompleteIrp(i, st) \/ ToComplete(i, st),
         NEW j \in Irps, Listed(j)', status'[j] = "SUCCESS"
  PROVE  (Listed(j) /\ status[j] = "SUCCESS") \/ (j = i /\ st = "SUCCESS")
  <1>1. lock \in Threads
    BY DEF TypeOK
  <1>2. CASE ToComplete(i, st)
    <2>1. /\ status' = [status EXCEPT ![i] = st]
          /\ toComplete' = [toComplete EXCEPT ![lock] = @ \cup {i}]
      BY <1>2 DEF ToComplete
    <2>2. PICK t \in Threads : j \in toComplete'[t]
      BY DEF Listed
    <2>3. j # i => j \in toComplete[t]
      BY <1>1, <2>1, <2>2 DEF TypeOK
    <2>4. j # i => status'[j] = status[j]
      BY <2>1 DEF TypeOK
    <2>5. status'[i] = st
      BY <2>1 DEF TypeOK
    <2> QED  BY <2>3, <2>4, <2>5 DEF Listed
  <1>3. CASE UNCHANGED <<status, toComplete>>
    BY <1>3 DEF Listed
  <1> QED  BY <1>2, <1>3 DEF CompleteIrp

\* Another IRP than the one that is completed is listed with the status it had.
LEMMA ListedAt ==
  ASSUME TypeOK, lock # None, NEW i \in Irps, NEW st, ToComplete(i, st),
         NEW j \in Irps, j # i, Listed(j)'
  PROVE  Listed(j) /\ status'[j] = status[j]
  <1>1. /\ status' = [status EXCEPT ![i] = st]
        /\ toComplete' = [toComplete EXCEPT ![lock] = @ \cup {i}]
        /\ lock \in Threads
    BY DEF ToComplete, TypeOK
  <1>2. PICK t \in Threads : j \in toComplete'[t]
    BY DEF Listed
  <1>3. j \in toComplete[t]
    BY <1>1, <1>2 DEF TypeOK
  <1> QED  BY <1>1, <1>3 DEF Listed, TypeOK

\* A FLUSH succeeds when it is at the head, or behind an XOFF_COUNTER that counts.
LEMMA FlushedCases ==
  ASSUME Ownership, Placement, [Next]_vars, NEW j \in Irps, Flushed(j)', ~Flushed(j)
  PROVE  \/ j = q.current /\ q' = Shift(q)
         \/ Deciding(j) /\ q.current # None /\ Counting(q.current) /\ q' = q
  <1>0. /\ TypeOK /\ Sections /\ OneOwner /\ cs \in SectionType /\ AtCurrent
        /\ q.current # None => q.current \in Irps
        /\ cs.ret \in Statuses /\ kind' = kind /\ kind[j] = "FLUSH"
    BY PlacementFacts, HistoryCases DEF Flushed
  <1>1. /\ ~(Listed(j) /\ status[j] = "SUCCESS")
        /\ ~(lock = Dispatch(j) /\ cs.ret = "SUCCESS")
        /\ ~(disp[j] = "finish" /\ result[j] = "SUCCESS")
    BY <1>0 DEF Flushed
  <1>2. \/ Listed(j)' /\ status'[j] = "SUCCESS"
        \/ lock' = Dispatch(j) /\ cs'.ret = "SUCCESS"
        \/ disp'[j] = "finish" /\ result'[j] = "SUCCESS"
    BY DEF Flushed
  <1>3. /\ \A i \in Irps : Dispatch(i)[1] = "dispatch" /\ Dispatch(i)[2] = i
        /\ Dispatch(j) # None /\ \A i \in Irps : Dispatch(i) = Dispatch(j) => i = j
    BY ThreadNames DEF Dispatch
  <1>4. ASSUME UNCHANGED <<status, toComplete>>,
               \/ lock' = None
               \/ lock' = lock /\ cs'.ret \in {cs.ret, "PENDING"}
               \/ lock' # Dispatch(j)
               \/ cs'.ret = "PENDING",
               \/ UNCHANGED <<disp, result>>
               \/ ~(disp'[j] = "finish" /\ result'[j] = "SUCCESS")
        PROVE  FALSE
    BY <1>1, <1>2, <1>3, <1>4 DEF Listed
  <1>5. ASSUME lock # None, NEW i \in Irps, NEW st \in Statuses, st # "SUCCESS" \/ i # j,
               CompleteIrp(i, st), cs'.ret = cs.ret, UNCHANGED <<lock, disp, result>>
        PROVE  FALSE
    <2>1. ~(Listed(j)' /\ status'[j] = "SUCCESS")
      BY <1>0, <1>1, <1>5, ListedFacts
    <2> QED  BY <1>1, <1>2, <1>5, <2>1
  <1>6. ASSUME NEW i \in Irps, Decide(i)
        PROVE  Deciding(j) /\ q.current # None /\ Counting(q.current) /\ q' = q
    <2>1. ASSUME Leave, lock = Dispatch(i), UNCHANGED toComplete,
                 status' = status \/ status' = [status EXCEPT ![i] = "PENDING"],
                 NEW st \in Statuses,
                 NoPending(i, st) \/ result' = [result EXCEPT ![i] = "PENDING"],
                 st = "SUCCESS" => FALSE \/ (i = j => cs.ret = "SUCCESS")
          PROVE  FALSE
      <3>1. lock' = None /\ disp' = [disp EXCEPT ![i] = "finish"]
        BY <1>3, <2>1 DEF Leave
      <3>2. ~(Listed(j)' /\ status'[j] = "SUCCESS")
        BY <1>0, <1>1, <2>1 DEF Listed, TypeOK
      <3>3. i = j
        BY <1>0, <1>1, <1>2, <1>3, <2>1, <3>1, <3>2 DEF NoPending, TypeOK
      <3> QED  BY <1>0, <1>1, <1>2, <1>3, <2>1, <3>1, <3>2, <3>3 DEF NoPending, TypeOK
    <2>2. ~RefuseCancelled(i) /\ ~RefuseSecond(i) /\ ~Enqueue(i) /\ ~StartedPending(i)
      BY <2>1
      DEF RefuseCancelled, RefuseSecond, Enqueue, StartedPending, Refuse, MustQueue,
          Deciding, Statuses
    <2>3. ~StartedDone(i)
      BY <1>0, <1>1, <1>3, <2>1 DEF StartedDone, Statuses
    <2>4. ~StartAtOnce(i) /\ ~StartImmediate(i)
      BY <1>0, <1>4, TurnEffects DEF StartAtOnce, StartImmediate
    <2>5. ~SupersedeCounter(i)
      BY <1>0, <1>5, TurnEffects
      DEF SupersedeCounter, MustQueue, Deciding, At, Statuses
    <2>6. CASE FlushBehindCounter(i)
      <3>1. /\ Deciding(i) /\ q.current # None /\ Counting(q.current) /\ q' = q
            /\ NoPending(i, "SUCCESS") /\ UNCHANGED <<status, toComplete>> /\ lock' = None
            /\ disp' = [disp EXCEPT ![i] = "finish"]
        BY <1>3, <2>6 DEF FlushBehindCounter, MustQueue, Refuse, Leave, Deciding
      <3>2. i = j
        BY <1>0, <1>1, <1>2, <1>3, <3>1 DEF NoPending, TypeOK, Listed
      <3> QED  BY <3>1, <3>2
    <2> QED  BY <1>6, <2>2, <2>3, <2>4, <2>5, <2>6 DEF Decide
  <1>7. ASSUME Pass PROVE j = q.current /\ q' = Shift(q)
    <2>1. lock # None
      BY <1>7
      DEF Pass, NextTaken, NextSkipped, NextNone, Transfer, Hold, Satisfy, Move,
          StartWaitOnMask, StopStarted, StopStartedCounter, StopTaken, RecheckCancelled,
          RecheckPending, CounterOut, CounterFlush, CounterMoreWrites, CounterInstall,
          CountDown, OverrunAbort, PassAgain, PassEnd, PurgeCurrent, PurgeEnd, At
    <2>2. ~NextTaken /\ ~NextSkipped /\ ~PassAgain
      BY <1>0, <1>4, TurnEffects DEF NextTaken, NextSkipped, PassAgain
    <2>3. ASSUME NEW n \in Int, NEW st \in Statuses, Move(n, st) PROVE FALSE
      BY <1>0, <1>4, <2>3, MoveEffects DEF Move
    <2>4. ~Transfer
      <3> SUFFICES ASSUME Transfer PROVE FALSE
        OBVIOUS
      <3>1. cs.irp \in Irps /\ info[cs.irp] \in Nat /\ RequestLength(cs.irp) \in Nat
        BY <1>0, BoundsAssumption
        DEF Transfer, At, Sections, AtIrp, TypeOK, RequestLength, WriteLength
      <3>2. PICK n \in 0..(RequestLength(cs.irp) - info[cs.irp]) :
              Move(n, IF info[cs.irp] + n = RequestLength(cs.irp)
                        THEN "SUCCESS" ELSE "PENDING")
        BY DEF Transfer
      <3> QED  BY <2>3, <3>1, <3>2 DEF Statuses
    <2>5. ~Hold /\ ~Satisfy
      BY <2>3 DEF Hold, Satisfy, Statuses
    <2>6. /\ \A pc \in Labels : Goto(pc) => cs'.ret = cs.ret
          /\ \A ret \in Statuses : GotoNext(ret) \/ GotoEnd(ret) => cs'.ret = ret
          /\ {"recheck", "counter", "flushes", "started", "purge", "passend"} \subseteq Labels
          /\ {"PENDING", "SUCCESS", "CANCELLED", "MORE_WRITES"} \subseteq Statuses
      BY <1>0, GotoEffects DEF Labels, Statuses
    <2>7. /\ ~NextNone /\ ~StopStartedCounter /\ ~RecheckPending /\ ~CounterOut
          /\ ~CounterInstall /\ ~OverrunAbort
      BY <1>0, <1>4, <2>6
      DEF NextNone, StopStartedCounter, RecheckPending, CounterOut, CounterInstall,
          OverrunAbort
    <2>8. ~PassEnd /\ ~PurgeEnd
      <3>1. lock[1] = "dispatch" => cs.pc = "decide" \/ cs.passes # 0
        BY <1>0, <2>1 DEF Sections
      <3> QED  BY <1>4, <2>6, <3>1 DEF PassEnd, PurgeEnd, Leave, At
    <2>9. ~StartWaitOnMask
      <3> SUFFICES ASSUME StartWaitOnMask PROVE FALSE
        OBVIOUS
      <3>1. lock = Dispatch(cs.irp) /\ kind[cs.irp] = "WAIT_ON_MASK" /\ cs.irp \in Irps
        BY <1>0, <2>1 DEF StartWaitOnMask, AtCurrent
      <3>2. lock' # Dispatch(j)
        BY <1>0, <1>3, <3>1 DEF StartWaitOnMask
      <3> QED  BY <1>4, <3>2 DEF StartWaitOnMask
    <2>10. ~RecheckCancelled /\ ~CounterMoreWrites /\ ~PurgeCurrent /\ ~CountDown
      <3>1. ~RecheckCancelled
        BY <1>0, <1>5, <2>1, <2>6 DEF RecheckCancelled, At, Sections, AtIrp
      <3>2. ~CounterMoreWrites
        BY <1>0, <1>5, <2>1, <2>6 DEF CounterMoreWrites, At, Sections, AtIrp
      <3>3. ~PurgeCurrent
        BY <1>0, <1>5, <2>1, <2>6 DEF PurgeCurrent
      <3>4. ~CountDown
        BY <1>0, <1>5, <2>1, <2>6 DEF CountDown, Counting
      <3> QED  BY <3>1, <3>2, <3>3, <3>4
    <2>11. CASE CounterFlush
      <3>1. /\ q.current \in Irps /\ q' = Shift(q) /\ CompleteIrp(q.current, "SUCCESS")
            /\ cs' = cs /\ UNCHANGED <<lock, disp, result>>
        BY <1>0, <2>11 DEF CounterFlush
      <3> QED  BY <1>5, <2>1, <2>6, <3>1
    <2>12. CASE StopTaken
      <3>1. cs.irp \in Irps /\ cs.irp = q.current
        BY <1>0, <2>12 DEF StopTaken, At, Sections, AtIrp, AtCurrent
      <3>2. UNCHANGED <<lock, disp, result>> /\ cs'.ret = cs.ret
        BY <1>0, <2>6, <2>12 DEF StopTaken
      <3>3. \/ UNCHANGED <<status, toComplete>>
            \/ q' = Shift(q) /\ \E st : ToComplete(cs.irp, st)
        BY <2>12 DEF StopTaken
      <3>4. ~UNCHANGED <<status, toComplete>>
        BY <1>4, <3>2
      <3>5. PICK st : ToComplete(cs.irp, st)
        BY <3>3, <3>4
      <3>6. j = cs.irp
        BY <1>0, <1>1, <1>2, <2>1, <3>2, <3>1, <3>5, ListedAt
      <3> QED  BY <3>1, <3>3, <3>4, <3>6
    <2>13. CASE StopStarted
      <3>1. /\ cs.irp \in Irps /\ cs.irp = q.current /\ lock = Dispatch(cs.irp)
            /\ UNCHANGED <<lock, disp, result, status, toComplete>>
        BY <1>0, <2>13 DEF StopStarted, At, Sections, AtIrp, AtCurrent
      <3>2. j = cs.irp /\ cs'.ret = "SUCCESS"
        <4>1. lock' = Dispatch(j) /\ cs'.ret = "SUCCESS"
          BY <1>1, <1>2, <3>1 DEF Listed
        <4> QED  BY <1>3, <3>1, <4>1
      <3>3. \A i \in Irps : IrpTimeoutStatus(i) \in Statuses
        BY DEF IrpTimeoutStatus, Statuses
      <3>4. q' = Shift(q)
        BY <1>0, <2>6, <2>13, <3>1, <3>2, <3>3 DEF StopStarted, SectionType
      <3> QED  BY <3>1, <3>2, <3>4
    <2> QED
      BY <1>7, <2>2, <2>4, <2>5, <2>7, <2>8, <2>9, <2>10, <2>11, <2>12, <2>13 DEF Pass
  <1>8. ASSUME ~Critical PROVE FALSE
    <2>1. ASSUME NEW i \in Irps, Submit(i) PROVE FALSE
      <3>1. cs'.ret = "PENDING"
        BY <2>1, LockEffects DEF Submit, Labels
      <3>2. disp'[j] = "finish" => disp[j] = "finish"
        BY <1>0, <2>1 DEF Submit, TypeOK
      <3> QED  BY <1>1, <1>4, <2>1, <3>1, <3>2 DEF Submit
    <2>2. ASSUME NEW i \in Irps, Return(i) PROVE FALSE
      <3>1. disp'[j] = "finish" => disp[j] = "finish"
        BY <1>0, <2>2 DEF Return, TypeOK
      <3>2. status'[j] = status[j] \/ ~Listed(j)
        BY <1>0, <2>2 DEF Return, TypeOK, OneOwner, Owned, Finishing
      <3> QED  BY <1>1, <1>2, <2>2, <3>1, <3>2 DEF Return, Listed
    <2>3. ASSUME NEW i \in Irps, CancelRoutine(i) PROVE FALSE
      <3>1. (lock' = lock /\ cs' = cs) \/ cs'.ret = "PENDING"
        BY <2>3, LockEffects DEF CancelRoutine, Labels
      <3>2. /\ UNCHANGED <<disp, result>>
            /\ status' = [status EXCEPT ![i] = "CANCELLED"]
            /\ toComplete' = [toComplete EXCEPT ![Canceller(i)] = {i}]
        BY <2>3 DEF CancelRoutine
      <3>3. ~(Listed(j)' /\ status'[j] = "SUCCESS")
        BY <1>0, <1>1, <3>2 DEF Listed, TypeOK
      <3> QED  BY <1>1, <1>2, <3>1, <3>2, <3>3
    <2>4. ASSUME NEW t \in Threads, NEW i \in Irps, CompleteQueued(t, i) PROVE FALSE
      <3>1. Listed(j)' => Listed(j)
        BY <1>0, <2>4 DEF CompleteQueued, Listed, TypeOK
      <3> QED  BY <1>1, <1>2, <2>4, <3>1 DEF CompleteQueued
    <2>5. ASSUME NEW w \in Workers,
                 \/ Serve(w) \/ ServeReceive(w) \/ CancelQueue(w)
                 \/ \E t \in Timers : TimeoutRoutine(w, t)
          PROVE  FALSE
      <3>1. lock' = None \/ lock' = Worker(w)
        BY <2>5, LockEffects
        DEF Serve, ServeReceive, CancelQueue, TimeoutRoutine, Labels
      <3>2. lock' # Dispatch(j)
        BY <1>3, <3>1, ThreadNames
      <3> QED
        BY <1>4, <2>5, <3>2 DEF Serve, ServeReceive, CancelQueue, TimeoutRoutine
    <2>6. ASSUME \/ UNCHANGED vars
                 \/ \E t \in Timers : TimerFires(t)
                 \/ \E i \in Irps : IoCancelIrp(i) \/ TakeCancelRoutine(i)
          PROVE  FALSE
      BY <1>4, <2>6 DEF vars, TimerFires, IoCancelIrp, TakeCancelRoutine
    <2> QED  BY <1>8, <2>1, <2>2, <2>3, <2>4, <2>5, <2>6 DEF Next
  <1> QED  BY <1>6, <1>7, <1>8 DEF Critical

\* A FLUSH that has succeeded stays behind no WRITE that was queued before it.
LEMMA FlushesWaitStep ==
  Ownership /\ Placement /\ Order /\ [Next]_vars => FlushesWait'
  <1> SUFFICES ASSUME Ownership, Placement, Order, [Next]_vars,
                      NEW j \in Irps, Flushed(j)', NEW i \in ahead'[j],
                      kind'[i] = "WRITE", i \in Queued'
               PROVE  FALSE
    BY DEF FlushesWait
  <1>0. /\ TypeOK /\ OneOwner /\ Sections /\ InOrder /\ FlushesWait /\ AtCurrent
        /\ CountsAlone /\ q \in QueueType /\ Linked(q) /\ kind' = kind
        /\ Queued' = Members(q')
        /\ q.current # None => q.current \in Irps
        /\ None \notin Irps
    BY PlacementFacts, HistoryCases DEF Order, Queued
  <1>1. kind[j] = "FLUSH"
    BY <1>0 DEF Flushed
  <1>2. ASSUME NEW s \in Irps, Submit(s) PROVE FALSE
    <2>1. /\ disp[s] = "new" /\ disp'[s] = "busy" /\ q' = q
          /\ ahead' = [ahead EXCEPT ![s] = Queued]
          /\ lock' = Dispatch(s) /\ cs'.ret = "PENDING"
          /\ UNCHANGED <<status, toComplete>>
      BY <1>0, <1>2, LockEffects DEF Submit, TypeOK, Labels, Acquire
    <2>2. CASE j = s
      <3>1. ~Listed(j)
        BY <1>0, <2>1, <2>2 DEF OneOwner, Owned
      <3> QED  BY <2>1, <2>2, <3>1 DEF Flushed, Listed
    <2>3. CASE j # s
      <3>1. i \in ahead[j] /\ i \in Queued
        BY <1>0, <2>1, <2>3 DEF TypeOK, Queued
      <3>2. ~Flushed(j)
        BY <1>0, <3>1 DEF FlushesWait
      <3>3. \/ j = q.current /\ q' = Shift(q)
            \/ Deciding(j) /\ Counting(q.current) /\ q' = q
        BY <3>2, FlushedCases
      <3>4. lock = None
        BY <1>2 DEF Submit, Acquire
      <3>5. j = q.current /\ Shift(q) = q
        BY <2>1, <3>3, <3>4 DEF Deciding, At
      <3> QED  BY <1>0, <3>5, ShiftLinked
    <2> QED  BY <2>2, <2>3
  <1>3. ASSUME ~(\E s \in Irps : Submit(s)) PROVE FALSE
    <2>1. i \in ahead[j] /\ i \in Irps
      BY <1>0, <1>3, HistoryCases DEF TypeOK
    <2>2. i \in Queued
      <3>1. ~Deciding(i)
        BY <1>0, <2>1 DEF InOrder, Deciding, At
      <3> QED  BY <1>0, <3>1, QueueGains
    <2>3. ~Flushed(j)
      BY <1>0, <2>1, <2>2 DEF FlushesWait
    <2>4. CASE j = q.current /\ q' = Shift(q)
      <3>1. ahead[j] \cap Range(q.list) = {}
        BY <1>0, <1>1, <2>4 DEF InOrder
      <3>2. i # q.current /\ i \in Range(q.list)
        BY <1>0, <2>2, <2>4, ShiftLinked, LinkedFacts DEF Queued
      <3> QED  BY <2>1, <3>1, <3>2
    <2>5. CASE Deciding(j) /\ q.current # None /\ Counting(q.current)
      <3>1. ~JustSent
        BY <2>5 DEF JustSent, Deciding, At
      <3>2. q.list = <<>> /\ kind[q.current] = "XOFF_COUNTER"
        BY <1>0, <2>5, <3>1 DEF CountsAlone, Counting
      <3> QED  BY <1>0, <2>2, <3>2, EmptyRange DEF Queued, Members
    <2> QED  BY <2>3, <2>4, <2>5, FlushedCases
  <1> QED  BY <1>2, <1>3

-----------------------------------------------------------------------------
(* The theorems *)

\* The order of the requests holds always, unless an IMMEDIATE_CHAR can preempt an
\* XOFF_COUNTER.
THEOREM OrderInvariant == ASSUME NoPreemptedCounter PROVE Spec => []Order
  <1>1. Init => Order
    <2> SUFFICES ASSUME Init PROVE Order
      OBVIOUS
    <2>1. q.current = None /\ q.list = <<>> /\ Queued = {}
      BY EmptyRange DEF Init, EmptyQueue, Queued, Members
    <2> QED
      BY <2>1, EmptyRange DEF Init, Order, InOrder, FlushesWait
  <1>2. Ownership /\ Placement /\ Order /\ [Next]_vars => Order'
    BY InOrderStep, FlushesWaitStep DEF Order
  <1> QED
    BY <1>1, <1>2, OwnershipInvariant, PlacementInvariant, PTL DEF Spec

\* Bytes move only for the current IRP.
LEMMA CurrentMoves ==
  ASSUME Ownership, Placement, [Next]_vars, NEW j \in Irps, info'[j] > info[j]
  PROVE  j = q.current /\ lock # None
  <1>0. TypeOK /\ Sections /\ AtCurrent
    BY PlacementFacts
  <1>1. ASSUME NEW n, NEW st, Move(n, st), cs.irp \in Irps PROVE j = cs.irp
    BY <1>0, <1>1 DEF Move, TypeOK
  <1>2. CASE Transfer \/ Hold \/ Satisfy
    <2>1. lock # None /\ cs.irp = q.current /\ cs.irp \in Irps
      BY <1>0, <1>2 DEF Transfer, Hold, Satisfy, At, Sections, AtIrp, AtCurrent
    <2> QED  BY <1>1, <1>2, <2>1 DEF Transfer, Hold, Satisfy
  <1>3. CASE UNCHANGED info
    BY <1>0, <1>3 DEF TypeOK
  <1> QED
    BY <1>2, <1>3
    DEF Next, vars, Critical, Pass, Decide, RefuseCancelled, RefuseSecond, Refuse,
        StartAtOnce, StartImmediate, Enqueue, FlushBehindCounter, SupersedeCounter,
        StartedPending, StartedDone, NextTaken, NextSkipped, NextNone, StartWaitOnMask,
        StopStarted, StopStartedCounter, StopTaken, RecheckCancelled, RecheckPending,
        CounterOut, CounterFlush, CounterMoreWrites, CounterInstall, CountDown,
        OverrunAbort, PassAgain, PassEnd, PurgeCurrent, PurgeEnd, Submit, Return,
        IoCancelIrp, TakeCancelRoutine, CancelRoutine, Serve, ServeReceive, CancelQueue,
        TimeoutRoutine, TimerFires, CompleteQueued

\* An IRP is completed with SUCCESS only if it had succeeded.
LEMMA SuccessCompletes ==
  ASSUME Ownership, [Next]_vars, NEW j \in Irps, completed'[j] > completed[j],
         status'[j] = "SUCCESS", kind[j] = "FLUSH"
  PROVE  Flushed(j)
  <1>0. TypeOK /\ \A i \in Irps : completed[i] \in Nat
    BY DEF Ownership, TypeOK
  <1>1. ASSUME NEW t \in Threads, NEW i \in Irps, CompleteQueued(t, i)
        PROVE  Flushed(j)
    <2>1. /\ i \in toComplete[t] /\ completed' = [completed EXCEPT ![i] = @ + 1]
          /\ status' = status
      BY <1>1 DEF CompleteQueued
    <2>2. i = j
      BY <1>0, <2>1 DEF TypeOK
    <2> QED  BY <2>1, <2>2 DEF Flushed, Listed
  <1>2. ASSUME NEW i \in Irps, Return(i) PROVE Flushed(j)
    <2>1. /\ disp[i] = "finish"
          /\ \/ completed' = completed
             \/ /\ completed' = [completed EXCEPT ![i] = @ + 1]
                /\ status' = [status EXCEPT ![i] = result[i]]
      BY <1>2 DEF Return
    <2>2. i = j /\ status'[j] = result[j]
      BY <1>0, <2>1 DEF TypeOK
    <2> QED  BY <2>1, <2>2 DEF Flushed
  <1>3. CASE UNCHANGED completed
    BY <1>0, <1>3
  <1> QED
    BY <1>1, <1>2, <1>3
    DEF Next, vars, Critical, Pass, Decide, RefuseCancelled, RefuseSecond, Refuse,
        StartAtOnce, StartImmediate, Enqueue, FlushBehindCounter, SupersedeCounter,
        StartedPending, StartedDone, NextTaken, NextSkipped, NextNone, Transfer, Hold,
        Satisfy, Move, StartWaitOnMask, StopStarted, StopStartedCounter, StopTaken,
        RecheckCancelled, RecheckPending, CounterOut, CounterFlush, CounterMoreWrites,
        CounterInstall, CountDown, OverrunAbort, PassAgain, PassEnd, PurgeCurrent,
        PurgeEnd, Submit, IoCancelIrp, TakeCancelRoutine, CancelRoutine, Serve,
        ServeReceive, CancelQueue, TimeoutRoutine, TimerFires

\* WRITEs are served in the order they were accepted (OrderPreserved), whatever is
\* cancelled, purged, timed out or pushed back by an IMMEDIATE_CHAR meanwhile.
THEOREM WritesInOrder == ASSUME NoPreemptedCounter PROVE Spec => OrderPreserved
  <1>1. ASSUME Ownership, Placement, Order, [Next]_vars,
               NEW i \in Irps, NEW j \in Irps, kind[i] = "WRITE", kind[j] = "WRITE",
               i \in ahead[j], info'[j] > info[j]
        PROVE  i \notin Queued
    <2>1. j = q.current /\ None \notin Irps
      BY <1>1, CurrentMoves, PlacementFacts
    <2>2. i # j /\ i \notin Range(q.list)
      BY <1>1, <2>1 DEF Order, InOrder
    <2> QED  BY <2>1, <2>2 DEF Queued, Members
  <1>2. Ownership /\ Placement /\ Order /\ [Next]_vars =>
          [\A i, j \in Irps :
             ( /\ kind[i] = "WRITE" /\ kind[j] = "WRITE"
               /\ i \in ahead[j] /\ info'[j] > info[j] )
             => i \notin Queued]_vars
    BY <1>1
  <1> QED
    BY <1>2, OwnershipInvariant, PlacementInvariant, OrderInvariant, PTL
    DEF Spec, OrderPreserved

\* A FLUSH succeeds only when the WRITEs that were queued before it have left the
\* queue (FlushBarrier).
THEOREM FlushesWaitForWrites == ASSUME NoPreemptedCounter PROVE Spec => FlushBarrier
  <1>1. ASSUME Ownership, Order, [Next]_vars,
               NEW i \in Irps, NEW j \in Irps, kind[i] = "WRITE", kind[j] = "FLUSH",
               i \in ahead[j], completed'[j] > completed[j], status'[j] = "SUCCESS"
        PROVE  i \notin Queued
    <2>1. Flushed(j)
      BY <1>1, SuccessCompletes
    <2> QED  BY <1>1, <2>1 DEF Order, FlushesWait
  <1>2. Ownership /\ Order /\ [Next]_vars =>
          [\A i, j \in Irps :
             ( /\ kind[i] = "WRITE" /\ kind[j] = "FLUSH" /\ i \in ahead[j]
               /\ completed'[j] > completed[j] /\ status'[j] = "SUCCESS" )
             => i \notin Queued]_vars
    BY <1>1
  <1> QED
    BY <1>2, OwnershipInvariant, OrderInvariant, PTL DEF Spec, FlushBarrier

-----------------------------------------------------------------------------
(* The timer of the current IRP *)

\* The IRPs of a queue are of one sort.
LEMMA SortFacts ==
  ASSUME TypeOK, OneSort, NEW i \in Irps
  PROVE  /\ IsWriteQueue => kind[i] \in WriteKinds
         /\ ~IsWriteQueue => kind[i] # "FLUSH"
         /\ \A j \in Irps : kind[i] = "WAIT_ON_MASK" => kind[j] = "WAIT_ON_MASK"
  <1>1. /\ \A j \in Irps : kind[j] \in Range(kind)
        /\ IsWriteQueue <=> Range(kind) \subseteq WriteKinds
    BY DEF TypeOK, Range, IsWriteQueue
  <1>2. PICK K \in {WriteKinds, {"READ"}, {"WAIT_ON_MASK"}} : Range(kind) \subseteq K
    BY DEF OneSort, QueueKinds
  <1>3. CASE K = WriteKinds
    BY <1>1, <1>2, <1>3 DEF WriteKinds
  <1>4. CASE K # WriteKinds
    BY <1>1, <1>2, <1>4 DEF WriteKinds
  <1> QED  BY <1>3, <1>4

\* What ShiftQueue makes current needs no timer if its predecessor needed none.
LEMMA ShiftUntimed ==
  ASSUME Ownership, Placement, OneSort, kind' = kind, q' = Shift(q), q.current # None,
         kind[q.current] = "WAIT_ON_MASK"
  PROVE  Untimed'
  <1>1. TypeOK /\ q.current \in Irps /\ Range(q.list) \subseteq Irps
    BY PlacementFacts
  <1>2. q'.current # None => q'.current \in Irps
    BY <1>1, ShiftEffects
  <1> QED  BY <1>1, <1>2, SortFacts DEF Untimed

\* At a label between the turns nothing is asked of the timer.
LEMMA BetweenTimed ==
  ASSUME OneSort, kind' = kind, lock' # None,
         cs'.pc \in {"counter", "flushes", "purge"} \/ (cs'.pc = "next" /\ ~cs'.first)
  PROVE  Timed'
  BY DEF OneSort, Timed, RestTimed, FirstTimed, TurnTimed

\* At rest the timer must run for what is current then.
LEMMA RestingTimed ==
  ASSUME OneSort, kind' = kind,
         lock' = None \/ cs'.pc \in {"decide", "recheck", "passend"},
         Untimed' \/ (kind[q'.current] # "FLUSH" /\ TotalRuns')
  PROVE  Timed'
  BY ThreadNames DEF OneSort, Timed, RestTimed, FirstTimed, TurnTimed

\* A pass that begins finds the timer as it was at rest.
LEMMA NextTimed ==
  ASSUME OneSort, kind' = kind, lock' # None, cs'.pc = "next",
         Untimed' \/ TotalRuns' \/ "EXPIRED" \in flags'[q'.current]
  PROVE  Timed'
  BY DEF OneSort, Timed, RestTimed, FirstTimed, TurnTimed

\* A step that does not concern the section, the queue or its timers.
LEMMA ElsewhereTimed ==
  ASSUME Timed, UNCHANGED <<kind, info, flags, q, lock, cs>>,
         timers' \cup dpcs' = timers \cup dpcs
  PROVE  Timed'
  BY DEF Timed, OneSort, RestTimed, FirstTimed, TurnTimed, TotalRuns, Untimed, CharSent

\* The dispatch routine decides while the timer of the current IRP runs.
LEMMA DecideTimed ==
  ASSUME Ownership, Placement, Timed, NEW i \in Irps, Decide(i) PROVE Timed'
  <1>0. /\ TypeOK /\ q \in QueueType /\ cs \in SectionType /\ AtCurrent /\ CountsAlone
        /\ OneSort /\ RestTimed /\ TurnTimed /\ None \notin Irps
    BY PlacementFacts DEF Timed
  <1>1. ASSUME NEW s, NEW n, StartIrp(i, s, n), Deciding(i), UNCHANGED <<kind, info, lock>>
        PROVE  Timed'
    <2>1. /\ lock' = lock /\ lock # None /\ cs.pc = "decide" /\ lock = Dispatch(i)
          /\ cs'.pc = "process" /\ cs'.irp = i /\ cs'.start
      BY <1>0, <1>1, TurnEffects DEF Deciding, At
    <2>2. kind[i] = "XOFF_COUNTER" => info[i] = 0
      BY <1>0, <2>1 DEF CountsAlone
    <2> QED
      BY <1>0, <1>1, <2>1, <2>2 DEF Timed, OneSort, RestTimed, FirstTimed, TurnTimed
  <1>2. CASE StartAtOnce(i) \/ StartImmediate(i) \/ SupersedeCounter(i)
    BY <1>1, <1>2 DEF StartAtOnce, StartImmediate, SupersedeCounter, MustQueue
  <1>3. ASSUME lock # None, cs.pc = "decide" \/ cs.pc = "started", lock' = None, kind' = kind,
               q'.current = q.current, UNCHANGED <<timers, dpcs>>
        PROVE  Timed'
    <2>1. Untimed' \/ (kind[q'.current] # "FLUSH" /\ TotalRuns')
      BY <1>0, <1>3 DEF RestTimed, Untimed, TotalRuns
    <2> QED  BY <1>0, <1>3, <2>1, RestingTimed
  <1>4. CASE RefuseCancelled(i) \/ RefuseSecond(i) \/ FlushBehindCounter(i)
               \/ StartedPending(i)
    BY <1>3, <1>4
    DEF RefuseCancelled, RefuseSecond, FlushBehindCounter, StartedPending, Refuse,
        MustQueue, Deciding, At, Leave
  <1>5. CASE Enqueue(i)
    <2>1. q'.current = q.current
      BY <1>0, <1>5 DEF Enqueue, InsertTail, QueueType
    <2> QED  BY <1>3, <1>5, <2>1 DEF Enqueue, MustQueue, Deciding, At, Leave
  <1>6. CASE StartedDone(i)
    <2>1. /\ lock # None /\ cs.pc = "started" /\ lock = Dispatch(i) /\ cs.ret # "PENDING"
          /\ lock' = None /\ UNCHANGED <<kind, timers, dpcs>>
      BY <1>6 DEF StartedDone, At, Leave
    <2>2. CASE q.current = i
      <3>1. q' = Shift(q) /\ kind[q.current] = "WAIT_ON_MASK" /\ q.current # None
        BY <1>0, <1>6, <2>1, <2>2 DEF StartedDone, TurnTimed
      <3>2. Untimed'
        BY <1>0, <2>1, <3>1, ShiftUntimed
      <3> QED  BY <1>0, <2>1, <3>2, RestingTimed
    <2>3. CASE q.current # i
      BY <1>3, <1>6, <2>1, <2>3 DEF StartedDone
    <2> QED  BY <2>2, <2>3
  <1> QED  BY <1>2, <1>4, <1>5, <1>6 DEF Decide

\* The turn of an IRP moves bytes and leaves the timer alone.
LEMMA TurnTimes ==
  ASSUME Ownership, Placement, Timed,
         NextTaken \/ Transfer \/ Hold \/ Satisfy \/ StartWaitOnMask
  PROVE  Timed'
  <1>0. /\ TypeOK /\ Sections /\ cs \in SectionType /\ AtCurrent /\ None \notin Irps
        /\ OneSort /\ FirstTimed /\ TurnTimed
        /\ q.current # None => q.current \in Irps
    BY PlacementFacts DEF Timed
  <1>1. CASE NextTaken
    <2>1. /\ lock # None /\ cs.pc = "next" /\ ~cs.start
          /\ UNCHANGED <<lock, kind, info, flags, q, timers, dpcs>>
          /\ cs'.pc = "process" /\ ~cs'.start /\ cs'.first = cs.first
      BY <1>0, <1>1 DEF NextTaken, At, AtCurrent, SectionType
    <2> QED
      BY <1>0, <2>1
      DEF Timed, OneSort, RestTimed, FirstTimed, TurnTimed, Untimed, TotalRuns
  <1>2. ASSUME At("process"), NEW n \in Int, NEW st \in Statuses, Move(n, st),
               kind[cs.irp] = "FLUSH" => st # "PENDING",
               cs.start /\ kind[cs.irp] = "XOFF_COUNTER" /\ st = "SUCCESS" => n > 0
        PROVE  Timed'
    <2>1. /\ lock # None /\ cs.pc = "process"
          /\ UNCHANGED <<lock, kind, flags, q, timers, dpcs>>
          /\ cs'.pc = "stop" /\ cs'.irp = cs.irp /\ cs'.start = cs.start
          /\ cs'.done = (n > 0) /\ cs'.st = st
      BY <1>0, <1>2, MoveEffects DEF At, Move
    <2>2. cs'.first = cs.first
      BY <1>0, <1>2 DEF Move, SectionType
    <2> QED
      BY <1>0, <1>2, <2>1, <2>2
      DEF Timed, OneSort, RestTimed, FirstTimed, TurnTimed, Untimed, TotalRuns, CharSent
  <1>3. CASE Transfer
    <2>1. /\ At("process") /\ cs.irp \in Irps /\ info[cs.irp] \in Nat
          /\ RequestLength(cs.irp) \in Nat /\ kind[cs.irp] # "FLUSH"
          /\ kind[cs.irp] = "XOFF_COUNTER" => RequestLength(cs.irp) = 1
      BY <1>0, <1>3, BoundsAssumption
      DEF Transfer, At, Sections, AtIrp, TypeOK, RequestLength, WriteLength
    <2>2. PICK n \in 0..(RequestLength(cs.irp) - info[cs.irp]) :
            Move(n, IF info[cs.irp] + n = RequestLength(cs.irp)
                      THEN "SUCCESS" ELSE "PENDING")
      BY <1>3 DEF Transfer
    <2>3. cs.start /\ kind[cs.irp] = "XOFF_COUNTER" => info[cs.irp] = 0
      BY <1>0, <2>1 DEF TurnTimed, At
    <2>4. cs.start /\ kind[cs.irp] = "XOFF_COUNTER"
            /\ info[cs.irp] + n = RequestLength(cs.irp) => n > 0
      BY <2>1, <2>2, <2>3
    <2>5. CASE info[cs.irp] + n = RequestLength(cs.irp)
      BY <1>2, <2>1, <2>2, <2>4, <2>5 DEF Statuses
    <2>6. CASE info[cs.irp] + n # RequestLength(cs.irp)
      BY <1>2, <2>1, <2>2, <2>6 DEF Statuses
    <2> QED  BY <2>5, <2>6
  <1>4. CASE Hold
    BY <1>2, <1>4 DEF Hold, Statuses
  <1>5. CASE Satisfy
    BY <1>2, <1>5 DEF Satisfy, Statuses
  <1>6. CASE StartWaitOnMask
    <2>1. /\ lock # None /\ cs.pc = "process" /\ kind[cs.irp] = "WAIT_ON_MASK"
          /\ UNCHANGED <<lock, kind, q>>
          /\ cs'.pc = "started"
      BY <1>0, <1>6 DEF StartWaitOnMask, At, SectionType
    <2>2. cs.irp = q.current
      BY <1>0, <2>1 DEF AtCurrent
    <2> QED
      BY <1>0, <2>1, <2>2
      DEF Timed, OneSort, RestTimed, FirstTimed, TurnTimed, Untimed
  <1> QED  BY <1>1, <1>3, <1>4, <1>5, <1>6

\* The total time-outs, that every READ and WRITE which stays pending has.
TotalMode == Timeouts \in {"total", "one"}

\* SetIrpTimeout sets the total timer of an IRP that it leaves pending.
LEMMA TimerSet ==
  ASSUME TotalMode, NEW i, IrpTimeoutStatus(i) = "PENDING",
         kind[i] \notin {"FLUSH", "WAIT_ON_MASK"}
  PROVE  IrpTimeoutTimers(i) = {"total"}
  BY DEF TotalMode, IrpTimeoutStatus, IrpTimeoutTimers

\* The turn of an IRP that is being started ends: it has a timer, or is not current.
LEMMA StopStartedTimed ==
  ASSUME TotalMode, Ownership, Placement, Timed, StopStarted PROVE Timed'
  <1>0. /\ TypeOK /\ Sections /\ cs \in SectionType /\ AtCurrent /\ OneSort /\ TurnTimed
    BY PlacementFacts DEF Timed
  <1> DEFINE i == cs.irp
             st == IF cs.st = "PENDING" THEN IrpTimeoutStatus(i) ELSE cs.st
  <1>1. /\ lock # None /\ cs.pc = "stop" /\ i \in Irps /\ i = q.current
        /\ UNCHANGED <<lock, kind, dpcs>>
        /\ st \in Statuses
        /\ cs.st = "PENDING" => timers' = IrpTimeoutTimers(i) /\ kind[i] # "FLUSH"
        /\ st = "PENDING" => GotoEnd(st) /\ q' = q
        /\ st # "PENDING" => GotoNext(st)
    BY <1>0, TimeoutFacts
    DEF StopStarted, At, Sections, AtIrp, AtCurrent, TurnTimed, SectionType
  <1>2. CASE st = "PENDING"
    <2>1. cs.st = "PENDING" /\ IrpTimeoutStatus(i) = "PENDING" /\ cs'.pc = "passend"
      BY <1>0, <1>1, <1>2, GotoEffects
    <2>2. Untimed' \/ (kind[q'.current] # "FLUSH" /\ TotalRuns')
      BY <1>1, <1>2, <2>1, TimerSet DEF Untimed, TotalRuns
    <2> QED  BY <1>0, <1>1, <2>1, <2>2, RestingTimed
  <1>3. CASE st # "PENDING"
    <2>1. cs'.pc = "next" /\ ~cs'.first
      BY <1>1, <1>3 DEF GotoNext, Idle
    <2> QED  BY <1>0, <1>1, <2>1, BetweenTimed
  <1> QED  BY <1>2, <1>3

\* The turn of another IRP ends: it stays current with a timer that runs already or is
\* set now, or it has expired.
LEMMA StopTakenTimed ==
  ASSUME TotalMode, Ownership, Placement, Timed, StopTaken PROVE Timed'
  <1>0. /\ TypeOK /\ Sections /\ cs \in SectionType /\ AtCurrent /\ OneSort /\ TurnTimed
        /\ FirstTimed
    BY PlacementFacts DEF Timed
  <1> DEFINE i == cs.irp
             asked == IF CharSent THEN "PENDING" ELSE cs.st
             moved == asked = "PENDING" /\ cs.done
             st1 == IF moved /\ "WAIT_ONE" \in flags[i] THEN "SUCCESS" ELSE asked
             expired == st1 = "PENDING" /\ "EXPIRED" \in flags[i]
             arm == st1 = "PENDING" /\ ~expired /\ ~cs.first
             st2 == CASE expired -> "TIMEOUT"
                      [] arm -> IrpTimeoutStatus(i)
                      [] OTHER -> st1
  <1>1. /\ lock # None /\ cs.pc = "stop" /\ ~cs.start /\ i \in Irps /\ i = q.current
        /\ UNCHANGED <<lock, kind, dpcs>>
    BY <1>0 DEF StopTaken, At, Sections, AtIrp, AtCurrent
  <1>2. /\ arm => timers' = IrpTimeoutTimers(i)
        /\ ~arm => timers \subseteq timers'
        /\ st2 = "PENDING" => Goto("recheck") /\ q' = q
        /\ st2 # "PENDING" => GotoNext(cs.ret)
    BY DEF StopTaken
  <1>3. CASE st2 = "PENDING"
    <2>1. st1 = "PENDING" /\ ~expired /\ (arm => IrpTimeoutStatus(i) = "PENDING")
      BY <1>3
    <2>2. kind[i] # "FLUSH"
      BY <1>0, <1>1, <2>1 DEF TurnTimed, CharSent
    <2>3. ~arm => kind[i] = "WAIT_ON_MASK" \/ TotalRuns
      BY <1>0, <1>1, <2>1, BoundsAssumption DEF FirstTimed, Untimed
    <2>4. q' = q /\ cs'.pc = "recheck"
      BY <1>0, <1>2, <1>3, GotoEffects DEF Labels
    <2>5. Untimed' \/ (kind[q'.current] # "FLUSH" /\ TotalRuns')
      <3>1. CASE kind[i] = "WAIT_ON_MASK"
        BY <1>1, <2>4, <3>1 DEF Untimed
      <3>2. CASE arm /\ kind[i] # "WAIT_ON_MASK"
        BY <1>1, <1>2, <2>1, <2>2, <2>4, <3>2, TimerSet DEF TotalRuns
      <3>3. CASE ~arm /\ kind[i] # "WAIT_ON_MASK"
        BY <1>1, <1>2, <2>2, <2>3, <2>4, <3>3 DEF TotalRuns
      <3> QED  BY <3>1, <3>2, <3>3
    <2> QED  BY <1>0, <1>1, <2>4, <2>5, RestingTimed
  <1>4. CASE st2 # "PENDING"
    <2>1. cs'.pc = "next" /\ ~cs'.first
      BY <1>2, <1>4 DEF GotoNext, Idle
    <2> QED  BY <1>0, <1>1, <2>1, BetweenTimed
  <1> QED  BY <1>3, <1>4

\* The other steps of a pass: another turn begins with the timer running, or the IRP
\* that stays is an XOFF_COUNTER that gets its own.
LEMMA PassTimed ==
  ASSUME TotalMode, Ownership, Placement, Timed, Pass PROVE Timed'
  <1>0. /\ TypeOK /\ Sections /\ cs \in SectionType /\ AtCurrent /\ CountsAlone /\ Undecided
        /\ OneSort /\ RestTimed /\ FirstTimed /\ TurnTimed /\ None \notin Irps
        /\ q.current # None => q.current \in Irps /\ q.current \in Queued
        /\ q \in QueueType /\ cs.ret \in Statuses
    BY PlacementFacts DEF Timed
  <1>1. CASE NextSkipped \/ RecheckCancelled \/ CounterMoreWrites
    <2>1. lock' # None /\ cs'.pc = "next" /\ ~cs'.first /\ kind' = kind
      BY <1>0, <1>1
      DEF NextSkipped, RecheckCancelled, CounterMoreWrites, At, GotoNext, Idle, SectionType
    <2> QED  BY <1>0, <2>1, BetweenTimed
  <1>2. CASE CounterOut \/ OverrunAbort
    <2>1. lock' # None /\ cs'.pc \in {"flushes", "purge"} /\ kind' = kind
      BY <1>0, <1>2, GotoEffects DEF CounterOut, OverrunAbort, At, Labels
    <2> QED  BY <1>0, <2>1, BetweenTimed
  <1>3. CASE CounterFlush \/ PurgeCurrent
    <2>1. lock' # None /\ cs'.pc \in {"flushes", "purge"} /\ kind' = kind
      BY <1>3 DEF CounterFlush, PurgeCurrent, At
    <2> QED  BY <1>0, <2>1, BetweenTimed
  <1>4. CASE StopStartedCounter
    <2>1. lock' # None /\ kind' = kind /\ cs.done /\ Goto("counter")
      BY <1>0, <1>4 DEF StopStartedCounter, At, TurnTimed
    <2>2. cs'.pc = "counter"
      BY <1>0, <2>1, GotoEffects DEF Labels
    <2> QED  BY <1>0, <2>1, <2>2, BetweenTimed
  <1>5. CASE NextNone \/ CounterInstall
    <2>1. cs'.pc = "passend" /\ kind' = kind
      BY <1>0, <1>5, GotoEffects DEF NextNone, CounterInstall
    <2>2. CASE NextNone
      BY <1>0, <2>1, <2>2, RestingTimed DEF NextNone, Untimed
    <2>3. CASE CounterInstall
      <3>1. /\ cs.irp \in Irps /\ kind[cs.irp] = "XOFF_COUNTER"
            /\ q'.current = cs.irp /\ timers' = {"total"}
        BY <1>0, <2>3
        DEF CounterInstall, At, Sections, AtIrp, AtCurrent, MakeCurrent, QueueType, TotalMode
      <3> QED  BY <1>0, <2>1, <3>1, RestingTimed DEF TotalRuns
    <2> QED  BY <1>5, <2>2, <2>3
  <1>6. CASE RecheckPending
    <2>1. /\ lock # None /\ cs.pc = "recheck"
          /\ UNCHANGED <<lock, kind, q, timers, dpcs>>
          /\ cs'.pc = "counter" \/ cs'.pc = "passend"
      BY <1>0, <1>6, GotoEffects DEF RecheckPending, At, Labels
    <2>2. CASE cs'.pc = "counter"
      BY <1>0, <2>1, <2>2, BetweenTimed
    <2>3. CASE cs'.pc = "passend"
      BY <1>0, <2>1, <2>3, RestingTimed DEF RestTimed, Untimed, TotalRuns
    <2> QED  BY <2>1, <2>2, <2>3
  <1>7. CASE CountDown
    <2>1. /\ q.current # None /\ Counting(q.current) /\ ~JustSent /\ q' = Shift(q)
          /\ cs'.pc = "passend" /\ kind' = kind
      BY <1>7 DEF CountDown, At, JustSent
    <2>2. q'.current = None
      BY <1>0, <2>1, ShiftLinked, PlacementFacts DEF CountsAlone
    <2> QED  BY <1>0, <2>1, <2>2, RestingTimed DEF Untimed
  <1>8. CASE PassAgain
    <2>1. /\ lock # None /\ cs.pc = "passend" /\ cs'.pc = "next"
          /\ UNCHANGED <<lock, kind, flags, q, timers, dpcs>>
      BY <1>0, <1>8, TurnEffects DEF PassAgain, At
    <2> QED  BY <1>0, <2>1, NextTimed DEF RestTimed, Untimed, TotalRuns
  <1>9. CASE PassEnd
    <2>1. /\ lock # None /\ cs.pc = "passend"
          /\ UNCHANGED <<kind, q, timers, dpcs>>
          /\ lock' = None \/ (lock' = lock /\ cs'.pc = "started" /\ cs'.ret = cs.ret)
      BY <1>0, <1>9, GotoEffects DEF PassEnd, At, Leave, Labels
    <2>2. Untimed' \/ (kind[q'.current] # "FLUSH" /\ TotalRuns')
      BY <1>0, <2>1 DEF RestTimed, Untimed, TotalRuns
    <2>3. CASE lock' = None
      BY <1>0, <2>1, <2>2, <2>3, RestingTimed
    <2>4. CASE lock' # None
      <3>1. \A i \in Irps : ~(lock = Dispatch(i) /\ cs.ret # "PENDING" /\ q.current = i)
        BY <1>0, <2>1 DEF Undecided
      <3> QED
        BY <1>0, <2>1, <2>2, <2>4, <3>1 DEF Timed, OneSort, RestTimed, FirstTimed, TurnTimed
    <2> QED  BY <2>3, <2>4
  <1>10. CASE PurgeEnd
    <2>1. /\ q'.current = None /\ kind' = kind
          /\ lock' = None \/ cs'.pc = "passend"
      BY <1>0, <1>10, GotoEffects DEF PurgeEnd, Leave, Labels
    <2> QED  BY <1>0, <2>1, RestingTimed DEF Untimed
  <1> QED
    BY <1>1, <1>2, <1>3, <1>4, <1>5, <1>6, <1>7, <1>8, <1>9, <1>10, TurnTimes,
       StopStartedTimed, StopTakenTimed
    DEF Pass

\* The cancel routine leaves the timer of the IRP it takes to the next one.
LEMMA CancelTimed ==
  ASSUME Ownership, Placement, Timed, NEW i \in Irps, CancelRoutine(i) PROVE Timed'
  <1>0. /\ TypeOK /\ q \in QueueType /\ Linked(q) /\ OneSort /\ RestTimed /\ None \notin Irps
        /\ q.inQueue = Range(q.list) /\ q.isCurrent = {q.current} \ {None}
        /\ q.current \notin Range(q.list)
        /\ q.current # None => q.current \in Irps
        /\ Range(q.list) \subseteq Irps
    BY PlacementFacts DEF Timed, Linked
  <1>1. /\ lock = None /\ UNCHANGED <<kind, flags, timers, dpcs>>
        /\ Untimed \/ (kind[q.current] # "FLUSH" /\ TotalRuns)
    BY <1>0 DEF CancelRoutine, AcquireForPass, RestTimed
  <1>2. CASE i # q.current
    <2>1. lock' = None /\ q'.current = q.current
      <3>1. CASE i \in Range(q.list)
        BY <1>0, <1>1, <1>2, <3>1, UnlinkLinked DEF CancelRoutine
      <3>2. CASE i \notin Range(q.list)
        BY <1>0, <1>1, <1>2, <3>2 DEF CancelRoutine
      <3> QED  BY <3>1, <3>2
    <2> QED  BY <1>0, <1>1, <2>1, RestingTimed DEF Untimed, TotalRuns
  <1>3. CASE i = q.current
    <2>1. q' = Shift(q) /\ q.current # None
      BY <1>0, <1>3 DEF CancelRoutine
    <2>2. Untimed' \/ TotalRuns'
      BY <1>0, <1>1, <2>1, ShiftUntimed DEF Untimed, TotalRuns
    <2>3. CASE IsWriteQueue
      <3>1. lock' = Canceller(i) /\ cs'.pc = "next"
        BY <1>0, <1>3, <2>3, LockEffects DEF CancelRoutine, Labels
      <3> QED  BY <1>0, <1>1, <2>2, <3>1, NextTimed, ThreadNames
    <2>4. CASE ~IsWriteQueue
      <3>1. lock' = None
        BY <1>1, <2>4 DEF CancelRoutine
      <3>2. q'.current # None => q'.current \in Irps
        BY <1>0, <2>1, ShiftEffects
      <3>3. Untimed' \/ kind[q'.current] # "FLUSH"
        BY <1>0, <2>4, <3>2, SortFacts, <1>1 DEF Untimed
      <3> QED  BY <1>0, <1>1, <2>2, <3>1, <3>3, RestingTimed
    <2> QED  BY <2>3, <2>4
  <1> QED  BY <1>2, <1>3

\* Whoever takes the lock finds the timer running, and a timer that has fired marks the
\* IRP that is current when its DPC gets the lock.
LEMMA OtherTimed ==
  ASSUME Ownership, Placement, Timed, [Next]_vars, ~Critical,
         ~(\E i \in Irps : CancelRoutine(i))
  PROVE  Timed'
  <1>0. /\ TypeOK /\ OneSort /\ RestTimed /\ None \notin Irps
        /\ q.current # None => q.current \in Irps
    BY PlacementFacts DEF Timed
  <1>1. ASSUME lock = None, lock' # None, cs'.pc \in {"next", "decide", "passend", "purge"},
               UNCHANGED <<kind, flags, q, timers, dpcs>>
        PROVE  Timed'
    <2>1. Untimed' \/ (kind[q'.current] # "FLUSH" /\ TotalRuns')
      BY <1>0, <1>1 DEF RestTimed, Untimed, TotalRuns
    <2> QED  BY <1>0, <1>1, <2>1, RestingTimed, NextTimed, BetweenTimed
  <1>2. CASE \/ \E i \in Irps : Submit(i)
             \/ \E w \in Workers : Serve(w) \/ ServeReceive(w) \/ CancelQueue(w)
    <2>1. /\ lock = None /\ lock' # None
          /\ cs'.pc \in {"next", "decide", "passend", "purge"}
          /\ UNCHANGED <<kind, flags, q, timers, dpcs>>
      BY <1>2, LockEffects, ThreadNames DEF Submit, Serve, ServeReceive, CancelQueue, Labels
    <2> QED  BY <1>1, <2>1
  <1>3. ASSUME NEW w \in Workers, NEW t \in Timers, TimeoutRoutine(w, t) PROVE Timed'
    <2>1. CASE q.current = None
      BY <1>0, <1>3, <2>1, RestingTimed DEF TimeoutRoutine, Untimed
    <2>2. CASE q.current # None
      <3>1. /\ lock' # None /\ cs'.pc = "next" /\ UNCHANGED <<kind, q>>
            /\ flags' = [flags EXCEPT ![q.current] = @ \cup {"EXPIRED"}]
        BY <1>3, <2>2, LockEffects, ThreadNames DEF TimeoutRoutine, Labels
      <3>2. "EXPIRED" \in flags'[q'.current]
        BY <1>0, <2>2, <3>1 DEF TypeOK
      <3> QED  BY <1>0, <3>1, <3>2, NextTimed
    <2> QED  BY <2>1, <2>2
  <1>4. CASE \E t \in Timers : TimerFires(t)
    <2>1. /\ UNCHANGED <<kind, info, flags, q, lock, cs>>
          /\ timers' \cup dpcs' = timers \cup dpcs
      BY <1>4 DEF TimerFires
    <2> QED  BY <2>1, ElsewhereTimed
  <1>5. CASE \/ UNCHANGED vars
             \/ \E i \in Irps : Return(i) \/ IoCancelIrp(i) \/ TakeCancelRoutine(i)
             \/ \E t \in Threads, i \in Irps : CompleteQueued(t, i)
    <2>1. UNCHANGED <<kind, info, flags, q, timers, dpcs, lock, cs>>
      BY <1>5 DEF vars, Return, IoCancelIrp, TakeCancelRoutine, CompleteQueued
    <2> QED  BY <2>1, ElsewhereTimed
  <1> QED  BY <1>2, <1>3, <1>4, <1>5 DEF Next

\* With a total time-out in force the timer of the current IRP runs, its DPC is queued, or
\* a pass is about to set it or to end the IRP.
THEOREM TimedInvariant ==
  ASSUME NoPreemptedCounter, Timeouts \in {"total", "one"} PROVE Spec => []Timed
  <1>1. Init => Timed
    <2> SUFFICES ASSUME Init PROVE Timed
      OBVIOUS
    <2>1. PICK K \in QueueKinds : kind \in [Irps -> K \cap Kinds]
      BY DEF Init
    <2>2. OneSort
      BY <2>1 DEF OneSort, Range
    <2> QED
      BY <2>2, ThreadNames
      DEF Init, EmptyQueue, Timed, RestTimed, FirstTimed, TurnTimed, Untimed
  <1>2. Ownership /\ Placement /\ Timed /\ [Next]_vars => Timed'
    <2> SUFFICES ASSUME Ownership, Placement, Timed, [Next]_vars PROVE Timed'
      OBVIOUS
    <2>1. TotalMode
      BY DEF TotalMode
    <2>2. CASE Critical
      BY <2>1, <2>2, PassTimed, DecideTimed DEF Critical
    <2>3. CASE \E i \in Irps : CancelRoutine(i)
      BY <2>3, CancelTimed
    <2> QED  BY <2>2, <2>3, OtherTimed
  <1> QED  BY <1>1, <1>2, OwnershipInvariant, PlacementInvariant, PTL DEF Spec

\* Between two critical sections a READ or WRITE at the head of its queue has a timer that
\* will end it, or it has expired, with any time-outs but an interval one: cancelling,
\* purging or finishing its predecessors takes the timer from nobody.
THEOREM TimersCover ==
  ASSUME NoPreemptedCounter, Timeouts # "interval" PROVE Spec => []TimerCovers
  <1>1. CASE Timeouts \in {"total", "one"}
    <2>1. Timed => TimerCovers
      BY <1>1 DEF Timed, RestTimed, Untimed, TotalRuns, TimerCovers
    <2> QED  BY <1>1, <2>1, TimedInvariant, PTL
  <1>2. CASE Timeouts \notin {"total", "one"}
    <2>1. TimerCovers
      BY <1>2 DEF TimerCovers
    <2> QED  BY <2>1, PTL
  <1> QED  BY <1>1, <1>2

-----------------------------------------------------------------------------
(* Finite sums *)

\* Induction over the subsets of a finite set, for a set of them.
LEMMA SubsetInduction ==
  ASSUME NEW S, IsFiniteSet(S), NEW T,
         \A s \in SUBSET S : (\A r \in SUBSET s : r # s => r \in T) => s \in T
  PROVE  SUBSET S \subseteq T
  <1> DEFINE R == StrictSubsetOrdering(S)
             U == (SUBSET S) \ T
  <1> SUFFICES ASSUME U # {} PROVE FALSE
    OBVIOUS
  <1>1. IsWellFoundedOn(R, FiniteSubsetsOf(S)) /\ FiniteSubsetsOf(S) = SUBSET S
    BY FS_StrictSubsetOrderingWellFounded, FS_Subset DEF FiniteSubsetsOf
  <1>2. U \subseteq FiniteSubsetsOf(S)
    BY <1>1
  <1> HIDE DEF R, U
  <1>3. PICK s \in U : \A r \in U : ~ (<<r, s>> \in R)
    BY <1>1, <1>2, WFMin
  <1> USE DEF R, U
  <1>4. \A r \in SUBSET s : r # s => r \in T
    BY <1>3 DEF StrictSubsetOrdering
  <1> QED  BY <1>3, <1>4

\* G sums f over the subsets of S, whichever element a sum begins with; H begins with
\* the element that CHOOSE takes.
IsSum(G, f, S) ==
  /\ G \in [SUBSET S -> Int]
  /\ G[{}] = 0
  /\ \A s \in SUBSET S : \A x \in s : G[s] = f[x] + G[s \ {x}]
IsFold(H, f, S) ==
  H = [s \in SUBSET S |-> IF s = {} THEN 0
                          ELSE LET x == CHOOSE y \in s : TRUE IN f[x] + H[s \ {x}]]

\* What SumFunctionOnSet is.
LEMMA SumIsFold ==
  ASSUME NEW f, NEW S
  PROVE  SumFunctionOnSet(f, S) = (CHOOSE H : IsFold(H, f, S))[S]
  BY DEF SumFunctionOnSet, FoldFunctionOnSet, MapThenFoldSet, IsFold

\* A finite sum exists.
LEMMA SumExists ==
  ASSUME NEW S, IsFiniteSet(S), NEW f, \A x \in S : f[x] \in Int
  PROVE  \E G : IsSum(G, f, S)
  <1> DEFINE T == {s \in SUBSET S : \E G : IsSum(G, f, s)}
  <1>1. ASSUME NEW s \in SUBSET S, \A r \in SUBSET s : r # s => r \in T
        PROVE  s \in T
    <2>1. CASE s = {}
      <3>1. IsSum([r \in SUBSET s |-> 0], f, s)
        BY <2>1 DEF IsSum
      <3> QED  BY <3>1
    <2>2. ASSUME NEW y \in s PROVE \E G : IsSum(G, f, s)
      <3> DEFINE r == s \ {y}
      <3>1. PICK G : IsSum(G, f, r)
        BY <1>1, <2>2
      <3> DEFINE H == [u \in SUBSET s |-> IF y \in u THEN f[y] + G[u \ {y}] ELSE G[u]]
      <3>2. \A u \in SUBSET s : /\ u \ {y} \in SUBSET r
                                /\ y \notin u => u \in SUBSET r
        OBVIOUS
      <3>3. /\ \A u \in SUBSET r : G[u] \in Int
            /\ G[{}] = 0
            /\ \A u \in SUBSET r : \A x \in u : G[u] = f[x] + G[u \ {x}]
        BY <3>1 DEF IsSum
      <3>4. \A x \in s : f[x] \in Int
        OBVIOUS
      <3> HIDE DEF r
      <3>5. H \in [SUBSET s -> Int] /\ H[{}] = 0
        BY <2>2, <3>2, <3>3, <3>4
      <3>6. ASSUME NEW u \in SUBSET s, NEW x \in u PROVE H[u] = f[x] + H[u \ {x}]
        <4>1. u \ {x} \in SUBSET s /\ x \in s
          OBVIOUS
        <4>2. CASE x = y
          BY <2>2, <3>2, <3>6, <4>1, <4>2
        <4>3. CASE x # y /\ y \in u
          <5> DEFINE v == (u \ {y}) \ {x}
          <5>1. v = (u \ {x}) \ {y} /\ u \ {y} \in SUBSET r /\ v \in SUBSET r /\ x \in u \ {y}
            BY <3>2, <3>6, <4>1, <4>3
          <5>2. G[u \ {y}] = f[x] + G[v]
            BY <3>3, <5>1
          <5>3. H[u] = f[y] + G[u \ {y}] /\ H[u \ {x}] = f[y] + G[v]
            BY <3>6, <4>1, <4>3, <5>1
          <5>4. f[x] \in Int /\ f[y] \in Int /\ G[v] \in Int
            BY <2>2, <3>3, <3>4, <4>1, <5>1
          <5> HIDE DEF v, H
          <5> QED  BY <5>2, <5>3, <5>4
        <4>4. CASE y \notin u
          <5>1. u \in SUBSET r /\ y \notin u \ {x}
            BY <3>2, <4>4
          <5>2. H[u] = G[u] /\ H[u \ {x}] = G[u \ {x}]
            BY <4>1, <4>4, <5>1
          <5> QED  BY <3>3, <3>6, <5>1, <5>2
        <4> QED  BY <4>2, <4>3, <4>4
      <3>7. IsSum(H, f, s)
        <4> HIDE DEF H
        <4> QED  BY <3>5, <3>6 DEF IsSum
      <3> QED  BY <3>7
    <2> QED  BY <2>1, <2>2
  <1> HIDE DEF T
  <1>2. SUBSET S \subseteq T
    BY <1>1, SubsetInduction
  <1> QED  BY <1>2 DEF T

\* SumFunctionOnSet is the finite sum.
LEMMA SumIs ==
  ASSUME NEW S, IsFiniteSet(S), NEW f, NEW G, IsSum(G, f, S)
  PROVE  SumFunctionOnSet(f, S) = G[S]
  <1>1. IsFold(G, f, S)
    <2>1. ASSUME NEW s \in SUBSET S, s # {}
          PROVE  G[s] = LET x == CHOOSE y \in s : TRUE IN f[x] + G[s \ {x}]
      <3>1. (CHOOSE y \in s : TRUE) \in s
        BY <2>1
      <3> QED  BY <3>1 DEF IsSum
    <2>2. G = [s \in SUBSET S |-> G[s]] /\ G[{}] = 0
      BY DEF IsSum
    <2> QED  BY <2>1, <2>2 DEF IsFold
  <1> DEFINE H == CHOOSE F : IsFold(F, f, S)
  <1>2. IsFold(H, f, S)
    BY <1>1
  <1> HIDE DEF H
  <1> DEFINE T == {s \in SUBSET S : H[s] = G[s]}
  <1>3. ASSUME NEW s \in SUBSET S, \A r \in SUBSET s : r # s => r \in T
        PROVE  s \in T
    <2>1. CASE s = {}
      BY <1>1, <1>2, <2>1 DEF IsFold
    <2>2. CASE s # {}
      <3> DEFINE x == CHOOSE y \in s : TRUE
      <3>1. x \in s
        BY <2>2
      <3> HIDE DEF x
      <3>2. H[s \ {x}] = G[s \ {x}]
        BY <1>3, <3>1
      <3>3. H[s] = f[x] + H[s \ {x}] /\ G[s] = f[x] + G[s \ {x}]
        BY <1>1, <1>2, <2>2 DEF IsFold, x
      <3> QED  BY <3>2, <3>3
    <2> QED  BY <2>1, <2>2
  <1> HIDE DEF T
  <1>4. SUBSET S \subseteq T
    BY <1>3, SubsetInduction
  <1>5. H[S] = G[S]
    BY <1>4 DEF T
  <1> QED  BY <1>5, SumIsFold DEF H

\* A sum over a set is a summand and the sum over the rest.
LEMMA SumRest ==
  ASSUME NEW S, IsFiniteSet(S), NEW f, \A x \in S : f[x] \in Int, NEW x \in S
  PROVE  /\ SumFunctionOnSet(f, S) = f[x] + SumFunctionOnSet(f, S \ {x})
         /\ SumFunctionOnSet(f, S) \in Int
         /\ SumFunctionOnSet(f, S \ {x}) \in Int
  <1> DEFINE r == S \ {x}
  <1>1. PICK G : IsSum(G, f, S)
    BY SumExists
  <1> DEFINE H == [u \in SUBSET r |-> G[u]]
  <1>2. IsSum(H, f, r)
    BY <1>1 DEF IsSum
  <1>3. SumFunctionOnSet(f, S) = G[S] /\ G[S] \in Int
    <2>1. G[S] \in Int
      BY <1>1 DEF IsSum
    <2> QED  BY <1>1, <2>1, SumIs
  <1>4. SumFunctionOnSet(f, r) = H[r]
    BY <1>2, SumIs, FS_RemoveElement
  <1>5. H[r] = G[r] /\ G[r] \in Int
    BY <1>1 DEF IsSum
  <1>6. G[S] = f[x] + G[r]
    BY <1>1 DEF IsSum
  <1> HIDE DEF H, r
  <1>7. SumFunctionOnSet(f, S) = f[x] + SumFunctionOnSet(f, r)
    BY <1>3, <1>4, <1>5, <1>6
  <1> QED  BY <1>3, <1>4, <1>5, <1>7 DEF r

\* Nothing sums to zero.
LEMMA SumEmpty ==
  ASSUME NEW f PROVE SumFunctionOnSet(f, {}) = 0
  <1> DEFINE G == [s \in SUBSET {} |-> 0]
  <1>1. IsSum(G, f, {})
    BY DEF IsSum
  <1> QED  BY <1>1, SumIs, FS_EmptySet

\* A sum depends on its summands only.
LEMMA SumSame ==
  ASSUME NEW S, IsFiniteSet(S), NEW f, NEW g, \A x \in S : f[x] \in Int /\ g[x] = f[x]
  PROVE  SumFunctionOnSet(f, S) = SumFunctionOnSet(g, S)
  <1>1. PICK G : IsSum(G, f, S)
    BY SumExists
  <1>2. IsSum(G, g, S)
    BY <1>1 DEF IsSum
  <1> QED  BY <1>1, <1>2, SumIs

-----------------------------------------------------------------------------
(* The bytes in the queue *)

\* What counts in the amount.
LEMMA AccountFacts ==
  ASSUME TypeOK, IsFiniteSet(Irps)
  PROVE  /\ \A i \in Irps : Owed[i] = WriteLength(i) - info[i] /\ Owed[i] \in Int
         /\ \A i \in Irps : WriteLength(i) \in Nat /\ info[i] \in Nat
         /\ Accounted \subseteq Irps /\ IsFiniteSet(Accounted)
  <1>1. /\ \A i \in Irps : WriteLength(i) \in Nat
        /\ \A i \in Irps : info[i] \in Nat
    BY LengthFacts, BoundsAssumption DEF TypeOK
  <1>2. Accounted \subseteq Irps
    BY DEF Accounted
  <1>3. \A i \in Irps : Owed[i] = WriteLength(i) - info[i]
    BY DEF Owed
  <1> QED  BY <1>1, <1>2, <1>3, FS_Subset

\* The amount follows an IRP that enters or leaves the account or moves bytes.
Balanced ==
  \/ Accounted' = Accounted /\ UNCHANGED <<info, amount>>
  \/ \E i \in Irps \ Accounted :
       /\ Accounted' = Accounted \cup {i} /\ info' = info /\ info[i] = 0
       /\ amount' = amount + WriteLength(i)
  \/ \E i \in Accounted :
       /\ Accounted' = Accounted \ {i} /\ info' = info
       /\ amount' = amount - (WriteLength(i) - info[i])
  \/ \E i \in Accounted, n \in Int :
       /\ Accounted' = Accounted /\ info' = [info EXCEPT ![i] = @ + n]
       /\ amount' = amount - n

\* Balanced steps keep the amount equal to the sum.
LEMMA AmountFollows ==
  ASSUME TypeOK, TypeOK', kind' = kind, IsFiniteSet(Irps),
         amount = SumFunctionOnSet(Owed, Accounted),
         Balanced
  PROVE  amount' = SumFunctionOnSet(Owed', Accounted')
  <1>0. /\ Accounted \subseteq Irps /\ IsFiniteSet(Accounted)
        /\ \A i \in Irps : WriteLength(i) \in Nat /\ info[i] \in Nat
        /\ \A i \in Irps : Owed[i] = WriteLength(i) - info[i] /\ Owed[i] \in Int
    BY AccountFacts
  <1>1. /\ Accounted' \subseteq Irps /\ IsFiniteSet(Accounted')
        /\ \A i \in Irps : Owed'[i] = WriteLength(i) - info'[i] /\ Owed'[i] \in Int
    <2>1. \A i \in Irps : WriteLength(i)' = WriteLength(i)
      BY DEF WriteLength
    <2>2. /\ \A i \in Irps : Owed'[i] = WriteLength(i)' - info'[i]
          /\ \A i \in Irps : info'[i] \in Int
          /\ Accounted' \subseteq Irps
      BY BoundsAssumption DEF Owed, Accounted, TypeOK
    <2> QED  BY <1>0, <2>1, <2>2, FS_Subset
  <1>2. info' = info => SumFunctionOnSet(Owed', Accounted') = SumFunctionOnSet(Owed, Accounted')
    BY <1>0, <1>1, SumSame
  <1>3. CASE Accounted' = Accounted /\ UNCHANGED <<info, amount>>
    BY <1>2, <1>3
  <1>4. ASSUME NEW i \in Irps \ Accounted,
               Accounted' = Accounted \cup {i}, info' = info, info[i] = 0,
               amount' = amount + WriteLength(i)
        PROVE  amount' = SumFunctionOnSet(Owed', Accounted')
    <2>1. Accounted' \ {i} = Accounted /\ i \in Accounted'
      BY <1>4
    <2>2. /\ SumFunctionOnSet(Owed, Accounted') = Owed[i] + SumFunctionOnSet(Owed, Accounted)
          /\ SumFunctionOnSet(Owed, Accounted) \in Int
      BY <1>0, <1>1, <2>1, SumRest
    <2>3. Owed[i] = WriteLength(i) /\ WriteLength(i) \in Int
      BY <1>0, <1>4
    <2> QED  BY <1>2, <1>4, <2>2, <2>3
  <1>5. ASSUME NEW i \in Accounted,
               Accounted' = Accounted \ {i}, info' = info,
               amount' = amount - (WriteLength(i) - info[i])
        PROVE  amount' = SumFunctionOnSet(Owed', Accounted')
    <2>1. /\ SumFunctionOnSet(Owed, Accounted) = Owed[i] + SumFunctionOnSet(Owed, Accounted')
          /\ SumFunctionOnSet(Owed, Accounted') \in Int
      BY <1>0, <1>5, SumRest
    <2>2. Owed[i] = WriteLength(i) - info[i] /\ Owed[i] \in Int
      BY <1>0, <1>5
    <2> DEFINE rest == SumFunctionOnSet(Owed, Accounted')
    <2>3. amount = Owed[i] + rest /\ rest \in Int /\ amount' = amount - Owed[i]
      BY <1>5, <2>1, <2>2
    <2>4. SumFunctionOnSet(Owed', Accounted') = rest
      BY <1>2, <1>5
    <2> HIDE DEF rest
    <2> QED  BY <2>2, <2>3, <2>4
  <1>6. ASSUME NEW i \in Accounted, NEW n \in Int,
               Accounted' = Accounted, info' = [info EXCEPT ![i] = @ + n],
               amount' = amount - n
        PROVE  amount' = SumFunctionOnSet(Owed', Accounted')
    <2>1. /\ SumFunctionOnSet(Owed, Accounted)
               = Owed[i] + SumFunctionOnSet(Owed, Accounted \ {i})
          /\ SumFunctionOnSet(Owed, Accounted \ {i}) \in Int
      <3>1. \A x \in Accounted : Owed[x] \in Int
        BY <1>0
      <3> QED  BY <1>0, <3>1, SumRest
    <2>2. /\ SumFunctionOnSet(Owed', Accounted)
               = Owed'[i] + SumFunctionOnSet(Owed', Accounted \ {i})
          /\ SumFunctionOnSet(Owed', Accounted \ {i}) \in Int
      BY <1>0, <1>1, SumRest
    <2>3. info \in [Irps -> 0..Length]
      BY DEF TypeOK
    <2>4. \A j \in Accounted \ {i} : Owed'[j] = Owed[j] /\ Owed[j] \in Int
      BY <1>0, <1>1, <1>6, <2>3
    <2>5. SumFunctionOnSet(Owed, Accounted \ {i}) = SumFunctionOnSet(Owed', Accounted \ {i})
      BY <1>0, <2>4, SumSame, FS_RemoveElement
    <2>6. /\ Owed[i] = WriteLength(i) - info[i] /\ Owed'[i] = WriteLength(i) - (info[i] + n)
          /\ WriteLength(i) \in Int /\ info[i] \in Int
      BY <1>0, <1>1, <1>6, <2>3
    <2> DEFINE rest == SumFunctionOnSet(Owed, Accounted \ {i})
               owed == Owed[i]
    <2>7. amount = owed + rest /\ rest \in Int /\ owed \in Int
      BY <2>1, <2>6
    <2>8. SumFunctionOnSet(Owed', Accounted') = (owed - n) + rest
      <3>1. Owed'[i] = owed - n
        BY <2>6
      <3> QED  BY <1>6, <2>2, <2>5, <3>1
    <2>9. amount' = amount - n
      BY <1>6
    <2> HIDE DEF rest, owed
    <2> QED  BY <2>7, <2>8, <2>9
  <1> QED  BY <1>3, <1>4, <1>5, <1>6 DEF Balanced

\* A transfer moves some bytes, or none.
LEMMA MoveCases ==
  ASSUME TypeOK, Sections, Transfer \/ Hold \/ Satisfy
  PROVE  At("process") /\ \E n \in Int, st \in Statuses : Move(n, st)
  <1>1. CASE Transfer
    <2>1. /\ At("process") /\ cs.irp \in Irps /\ info[cs.irp] \in Nat
          /\ RequestLength(cs.irp) \in Nat
      BY <1>1, BoundsAssumption
      DEF Transfer, At, Sections, AtIrp, TypeOK, RequestLength, WriteLength
    <2>2. PICK n \in 0..(RequestLength(cs.irp) - info[cs.irp]) :
            Move(n, IF info[cs.irp] + n = RequestLength(cs.irp)
                      THEN "SUCCESS" ELSE "PENDING")
      BY <1>1 DEF Transfer
    <2>3. n \in Int
      BY <2>1, <2>2
    <2> QED  BY <2>1, <2>2, <2>3 DEF Statuses
  <1>2. CASE Hold \/ Satisfy
    BY <1>2 DEF Hold, Satisfy, Statuses
  <1> QED  BY <1>1, <1>2

\* Bytes move in one step of a pass only.
LEMMA InfoCases ==
  ASSUME Ownership, [Next]_vars
  PROVE  \/ info' = info
         \/ At("process") /\ \E n \in Int, st \in Statuses : Move(n, st)
  <1>1. CASE Transfer \/ Hold \/ Satisfy
    BY <1>1, MoveCases DEF Ownership
  <1> QED
    BY <1>1
    DEF Next, vars, Critical, Pass, Decide, RefuseCancelled, RefuseSecond, Refuse,
        StartAtOnce, StartImmediate, Enqueue, FlushBehindCounter, SupersedeCounter,
        StartedPending, StartedDone, NextTaken, NextSkipped, NextNone, StartWaitOnMask,
        StopStarted, StopStartedCounter, StopTaken, RecheckCancelled, RecheckPending,
        CounterOut, CounterFlush, CounterMoreWrites, CounterInstall, CountDown,
        OverrunAbort, PassAgain, PassEnd, PurgeCurrent, PurgeEnd, Submit, Return,
        IoCancelIrp, TakeCancelRoutine, CancelRoutine, Serve, ServeReceive, CancelQueue,
        TimeoutRoutine, TimerFires, CompleteQueued

\* No IRP has been cancelled.
Uncancelled == \A i \in Irps : canceller[i] = "idle"

\* Where no IRP can be cancelled none is.
LEMMA UncancelledStep ==
  ASSUME Cancellable = {}, Uncancelled, [Next]_vars PROVE Uncancelled'
  <1>1. \A i \in Irps : ~IoCancelIrp(i) /\ ~TakeCancelRoutine(i) /\ ~CancelRoutine(i)
    BY DEF Uncancelled, IoCancelIrp, TakeCancelRoutine, CancelRoutine
  <1>2. canceller' = canceller
    BY <1>1
    DEF Next, vars, Critical, Pass, Decide, RefuseCancelled, RefuseSecond, Refuse,
        StartAtOnce, StartImmediate, Enqueue, FlushBehindCounter, SupersedeCounter,
        StartedPending, StartedDone, NextTaken, NextSkipped, NextNone, Transfer, Hold,
        Satisfy, Move, StartWaitOnMask, StopStarted, StopStartedCounter, StopTaken,
        RecheckCancelled, RecheckPending, CounterOut, CounterFlush, CounterMoreWrites,
        CounterInstall, CountDown, OverrunAbort, PassAgain, PassEnd, PurgeCurrent,
        PurgeEnd, Submit, Return, Serve, ServeReceive, CancelQueue, TimeoutRoutine,
        TimerFires, CompleteQueued
  <1> QED  BY <1>2 DEF Uncancelled

\* Nothing has moved for an IRP that has not been decided on.
Untouched == \A i \in Irps : disp[i] = "new" \/ Deciding(i) => info[i] = 0

LEMMA UntouchedStep ==
  ASSUME Ownership, Placement, Untouched, [Next]_vars PROVE Untouched'
  <1>0. TypeOK /\ AtCurrent /\ Sections /\ None \notin Irps
    BY PlacementFacts
  <1>1. ASSUME NEW j \in Irps, disp'[j] = "new" \/ Deciding(j)'
        PROVE  disp[j] = "new" \/ Deciding(j)
    <2>1. ASSUME NEW i \in Irps, Submit(i) PROVE disp[j] = "new" \/ Deciding(j)
      <3>1. disp[i] = "new" /\ lock' = Dispatch(i) /\ disp' = [disp EXCEPT ![i] = "busy"]
        BY <2>1 DEF Submit, Acquire
      <3>2. Deciding(j)' => j = i
        BY <3>1, ThreadNames DEF Deciding
      <3> QED  BY <1>0, <1>1, <3>1, <3>2 DEF TypeOK
    <2> QED  BY <1>1, <2>1, HistoryCases
  <1>2. CASE info' = info
    BY <1>1, <1>2 DEF Untouched
  <1>3. ASSUME At("process"), NEW n \in Int, NEW st \in Statuses, Move(n, st)
        PROVE  Untouched'
    <2>1. /\ lock # None /\ cs.pc = "process" /\ cs.irp = q.current /\ cs.irp \in Irps
          /\ info' = [info EXCEPT ![cs.irp] = @ + n]
      BY <1>0, <1>3 DEF At, AtCurrent, Sections, AtIrp, Move
    <2>2. disp[cs.irp] # "new"
      BY <2>1, PlacementFacts, QueuedFacts DEF InDriver
    <2>3. \A j \in Irps : ~Deciding(j)
      BY <2>1 DEF Deciding, At
    <2>4. \A j \in Irps : j # cs.irp => info'[j] = info[j]
      BY <1>0, <2>1 DEF TypeOK
    <2> QED  BY <1>1, <2>2, <2>3, <2>4 DEF Untouched
  <1> QED  BY <1>2, <1>3, InfoCases

\* Which IRPs are in the account changes only with what it looks at.
LEMMA AccountedSame ==
  ASSUME UNCHANGED <<completed, result>>,
         \A j \in Irps : disp'[j] = "new" <=> disp[j] = "new",
         \A j \in Irps : Deciding(j)' <=> Deciding(j)
  PROVE  Accounted' = Accounted
  BY DEF Accounted, InDriver

\* An IRP that is being decided on has its cancel routine, and is not in the account.
LEMMA DecidingFacts ==
  ASSUME Ownership, Placement, Uncancelled, NEW i \in Irps, Deciding(i)
  PROVE  /\ armed[i] /\ disp[i] = "busy" /\ completed[i] = 0 /\ result[i] = "none"
         /\ i \notin Accounted
         /\ \A j \in Irps : Deciding(j) => j = i
  <1>0. TypeOK /\ Sections /\ OneOwner /\ Undecided
    BY PlacementFacts
  <1>1. lock # None /\ lock = Dispatch(i) /\ cs.pc = "decide"
    BY DEF Deciding, At
  <1>2. armed[i]
    BY <1>0, <1>1 DEF Undecided, Cancelled, Uncancelled
  <1>3. completed[i] = 0
    BY <1>0, <1>2 DEF OneOwner, Owned
  <1>4. disp[i] = "busy" /\ result[i] = "none"
    BY <1>0, <1>1, ThreadFacts DEF Sections
  <1>5. \A j \in Irps : Deciding(j) => j = i
    BY <1>1, ThreadNames DEF Deciding
  <1> QED  BY <1>2, <1>3, <1>4, <1>5 DEF Accounted

\* The dispatch routine accepts an IRP, or refuses it, or gives it back.
LEMMA DecideBalanced ==
  ASSUME "XOFF_COUNTER" \notin Kinds, Ownership, Placement, Uncancelled, Untouched,
         NEW i \in Irps, Decide(i)
  PROVE  Balanced
  <1>0. /\ TypeOK /\ Sections /\ OneOwner /\ Undecided /\ AtCurrent /\ cs \in SectionType
        /\ cs.ret \in Statuses /\ None \notin Irps
        /\ q.current # None => q.current \in Irps
    BY PlacementFacts
  <1>1. ASSUME NEW st \in {"CANCELLED", "INVALID_PARAMETER", "SUCCESS"},
               Deciding(i), Refuse(i, st)
        PROVE  Balanced
    <2>1. /\ armed[i] /\ disp[i] = "busy" /\ completed[i] = 0 /\ i \notin Accounted
          /\ \A j \in Irps : Deciding(j) => j = i
      BY <1>1, DecidingFacts
    <2>2. /\ lock[1] = "dispatch" /\ lock[2] = i
      BY <1>1, ThreadFacts DEF Deciding
    <2>3. /\ disp' = [disp EXCEPT ![i] = "finish"] /\ lock' = None
          /\ result' = [result EXCEPT ![i] = st]
          /\ UNCHANGED <<completed, info, amount>>
      BY <1>1, <2>1, <2>2 DEF Refuse, NoPending, Leave
    <2>4. \A j \in Irps : ~Deciding(j)'
      BY <2>3 DEF Deciding, At
    <2>5. \A j \in Irps \ {i} : disp'[j] = disp[j] /\ result'[j] = result[j]
      BY <1>0, <2>3 DEF TypeOK
    <2>6. result'[i] = st
      BY <1>0, <2>3 DEF TypeOK
    <2>7. Accounted' = Accounted
      BY <2>1, <2>3, <2>4, <2>5, <2>6 DEF Accounted, InDriver
    <2> QED  BY <2>3, <2>7 DEF Balanced
  <1>2. CASE RefuseCancelled(i) \/ RefuseSecond(i) \/ FlushBehindCounter(i)
    BY <1>1, <1>2 DEF RefuseCancelled, RefuseSecond, FlushBehindCounter, MustQueue
  <1>3. ASSUME Deciding(i), \A j \in Irps : ~Deciding(j)',
               \/ UNCHANGED <<disp, result>>
               \/ /\ disp' = [disp EXCEPT ![i] = "finish"]
                  /\ result' = [result EXCEPT ![i] = "PENDING"],
               UNCHANGED <<completed, info>>, amount' = amount + WriteLength(i)
        PROVE  Balanced
    <2>1. /\ disp[i] = "busy" /\ completed[i] = 0 /\ result[i] = "none" /\ i \notin Accounted
          /\ \A j \in Irps : Deciding(j) => j = i
          /\ info[i] = 0
      BY <1>3, DecidingFacts DEF Untouched
    <2>2. \A j \in Irps \ {i} : disp'[j] = disp[j] /\ result'[j] = result[j]
      BY <1>0, <1>3 DEF TypeOK
    <2>3. disp'[i] # "new" /\ result'[i] \in {"none", "PENDING"}
      BY <1>0, <1>3, <2>1 DEF TypeOK
    <2>4. Accounted' = Accounted \cup {i}
      BY <1>3, <2>1, <2>2, <2>3 DEF Accounted, InDriver
    <2> QED  BY <1>3, <2>1, <2>4 DEF Balanced
  <1>4. ~SupersedeCounter(i)
    BY <1>0 DEF SupersedeCounter, MustQueue, Counting, TypeOK
  <1>5. CASE StartAtOnce(i) \/ StartImmediate(i)
    <2>1. /\ Deciding(i) /\ UNCHANGED <<disp, result, completed, info, lock>>
          /\ amount' = amount + WriteLength(i)
          /\ \E s, n : StartIrp(i, s, n)
      BY <1>5 DEF StartAtOnce, StartImmediate, StartIrp
    <2>2. cs'.pc = "process"
      BY <1>0, <2>1, TurnEffects
    <2> QED  BY <1>3, <2>1, <2>2 DEF Deciding, At
  <1>6. CASE Enqueue(i)
    <2>1. Deciding(i) /\ lock[1] = "dispatch" /\ lock[2] = i
      BY <1>6, ThreadFacts DEF Enqueue, MustQueue, Deciding
    <2>2. /\ disp' = [disp EXCEPT ![i] = "finish"] /\ lock' = None
          /\ result' = [result EXCEPT ![i] = "PENDING"]
          /\ UNCHANGED <<completed, info>> /\ amount' = amount + WriteLength(i)
      BY <1>6, <2>1 DEF Enqueue, Leave
    <2> QED  BY <1>3, <2>1, <2>2 DEF Deciding, At
  <1>7. ASSUME At("started"), lock = Dispatch(i)
        PROVE  /\ lock # None /\ lock[1] = "dispatch" /\ lock[2] = i
               /\ disp[i] = "busy" /\ result[i] = "none"
               /\ \A j \in Irps : ~Deciding(j)
    BY <1>0, <1>7, ThreadFacts DEF At, Deciding, Sections
  <1>8. CASE StartedPending(i)
    <2>1. /\ disp' = [disp EXCEPT ![i] = "finish"] /\ lock' = None
          /\ result' = [result EXCEPT ![i] = "PENDING"]
          /\ UNCHANGED <<completed, info, amount>>
          /\ disp[i] = "busy" /\ result[i] = "none"
          /\ \A j \in Irps : ~Deciding(j)
      BY <1>7, <1>8 DEF StartedPending, Leave
    <2>2. \A j \in Irps : ~Deciding(j)'
      BY <2>1 DEF Deciding, At
    <2>3. /\ \A j \in Irps : disp'[j] = "new" <=> disp[j] = "new"
          /\ \A j \in Irps : result'[j] \in {"none", "PENDING"}
                               <=> result[j] \in {"none", "PENDING"}
      BY <1>0, <2>1 DEF TypeOK
    <2>4. Accounted' = Accounted
      BY <2>1, <2>2, <2>3 DEF Accounted, InDriver
    <2> QED  BY <2>1, <2>4 DEF Balanced
  <1>9. CASE StartedDone(i)
    <2>1. armed[i]
      BY <1>0, <1>9 DEF StartedDone, Undecided, Cancelled, Uncancelled
    <2>2. /\ disp' = [disp EXCEPT ![i] = "finish"] /\ lock' = None
          /\ result' = [result EXCEPT ![i] = cs.ret] /\ cs.ret # "PENDING"
          /\ UNCHANGED <<completed, info>>
          /\ amount' = amount - (WriteLength(i) - info[i])
          /\ disp[i] = "busy" /\ result[i] = "none"
          /\ \A j \in Irps : ~Deciding(j)
      BY <1>7, <1>9, <2>1 DEF StartedDone, Leave, NoPending
    <2>3. completed[i] = 0
      BY <1>0, <2>1 DEF OneOwner, Owned
    <2>4. \A j \in Irps : ~Deciding(j)'
      BY <2>2 DEF Deciding, At
    <2>5. \A j \in Irps \ {i} : disp'[j] = disp[j] /\ result'[j] = result[j]
      BY <1>0, <2>2 DEF TypeOK
    <2>6. result'[i] = cs.ret /\ cs.ret # "none"
      BY <1>0, <2>2 DEF TypeOK, Statuses
    <2>7. i \in Accounted /\ Accounted' = Accounted \ {i}
      BY <2>2, <2>3, <2>4, <2>5, <2>6 DEF Accounted, InDriver
    <2> QED  BY <2>2, <2>7 DEF Balanced
  <1> QED  BY <1>2, <1>4, <1>5, <1>6, <1>8, <1>9 DEF Decide

\* An IRP that is completed outside the lock was in the account until then.
LEMMA CompleteBalanced ==
  ASSUME Ownership, Placement, Uncancelled, IsWriteQueue,
         NEW t \in Threads, NEW i \in Irps, CompleteQueued(t, i)
  PROVE  Balanced
  <1>0. TypeOK /\ Sections /\ OneOwner /\ Returned
    BY PlacementFacts
  <1>1. /\ Listed(i) /\ completed' = [completed EXCEPT ![i] = @ + 1]
        /\ UNCHANGED <<disp, result, info, lock, cs>>
        /\ amount' = amount - (WriteLength(i) - info[i])
    BY DEF CompleteQueued, Listed
  <1>2. /\ disp[i] # "new" /\ ~armed[i] /\ ~Finishing(i) /\ completed[i] = 0
    BY <1>0, <1>1 DEF OneOwner, Owned
  <1>3. ~Deciding(i)
    BY <1>2, DecidingFacts
  <1>4. result[i] \in {"none", "PENDING"}
    BY <1>0, <1>2 DEF Sections, Returned, Finishing, TypeOK
  <1>5. i \in Accounted
    BY <1>2, <1>3, <1>4 DEF Accounted, InDriver
  <1>6. completed'[i] = 1 /\ \A j \in Irps \ {i} : completed'[j] = completed[j]
    BY <1>0, <1>1, <1>2 DEF TypeOK
  <1>7. \A j \in Irps : Deciding(j)' <=> Deciding(j)
    BY <1>1 DEF Deciding, At
  <1>8. Accounted' = Accounted \ {i}
    BY <1>1, <1>5, <1>6, <1>7 DEF Accounted, InDriver
  <1> QED  BY <1>1, <1>5, <1>8 DEF Balanced

\* The other steps leave the account alone, but for the bytes that a pass moves.
LEMMA OtherBalanced ==
  ASSUME Ownership, Placement, IsWriteQueue, [Next]_vars,
         ~(\E i \in Irps : Decide(i)),
         ~(\E t \in Threads, i \in Irps : CompleteQueued(t, i))
  PROVE  Balanced
  <1>0. /\ TypeOK /\ Sections /\ AtCurrent /\ Undecided /\ None \notin Irps
    BY PlacementFacts
  <1>1. ASSUME NEW i \in Irps, Submit(i) PROVE Balanced
    <2>1. /\ disp[i] = "new" /\ disp' = [disp EXCEPT ![i] = "busy"]
          /\ UNCHANGED <<completed, result, info, amount>>
          /\ lock = None /\ lock' = Dispatch(i) /\ cs'.pc = "decide"
      BY <1>1, LockEffects DEF Submit, Labels
    <2>2. Deciding(i)' /\ \A j \in Irps \ {i} : ~Deciding(j)'
      BY <2>1, ThreadNames DEF Deciding, At
    <2>3. \A j \in Irps : ~Deciding(j)
      BY <2>1 DEF Deciding, At
    <2>4. \A j \in Irps \ {i} : disp'[j] = disp[j]
      BY <1>0, <2>1 DEF TypeOK
    <2>5. Accounted' = Accounted
      BY <2>1, <2>2, <2>3, <2>4 DEF Accounted, InDriver
    <2> QED  BY <2>1, <2>5 DEF Balanced
  <1>2. ASSUME NEW i \in Irps, Return(i) PROVE Balanced
    <2>1. /\ disp[i] = "finish" /\ disp' = [disp EXCEPT ![i] = "done"]
          /\ UNCHANGED <<result, info, amount, lock, cs>>
          /\ \/ result[i] = "PENDING" /\ completed' = completed
             \/ /\ result[i] # "PENDING"
                /\ completed' = [completed EXCEPT ![i] = @ + 1]
      BY <1>2 DEF Return
    <2>2. \A j \in Irps : Deciding(j)' <=> Deciding(j)
      BY <2>1 DEF Deciding, At
    <2>3. \A j \in Irps \ {i} : disp'[j] = disp[j] /\ completed'[j] = completed[j]
      BY <1>0, <2>1 DEF TypeOK
    <2>4. disp'[i] # "new" /\ result[i] # "none"
      BY <1>0, <2>1 DEF TypeOK, Sections
    <2>5. CASE result[i] = "PENDING"
      BY <2>1, <2>2, <2>3, <2>4, <2>5 DEF Accounted, InDriver, Balanced
    <2>6. CASE result[i] # "PENDING"
      <3>1. i \notin Accounted /\ i \notin Accounted'
        BY <2>1, <2>4, <2>6 DEF Accounted, InDriver
      <3>2. Accounted' = Accounted
        BY <2>1, <2>2, <2>3, <3>1 DEF Accounted, InDriver
      <3> QED  BY <2>1, <3>2 DEF Balanced
    <2> QED  BY <2>5, <2>6
  <1>3. ASSUME ~(\E i \in Irps : Submit(i) \/ Return(i))
        PROVE  UNCHANGED <<completed, result, disp>>
    <2>1. ASSUME PassEnd \/ PurgeEnd PROVE UNCHANGED <<completed, result, disp>>
      <3>1. CASE lock[1] = "dispatch"
        BY <1>0, <2>1, <3>1 DEF PassEnd, PurgeEnd, At, Sections
      <3>2. CASE lock[1] # "dispatch"
        BY <2>1, <3>2 DEF PassEnd, PurgeEnd, Leave
      <3> QED  BY <3>1, <3>2
    <2> QED
      BY <1>3, <2>1
      DEF Next, vars, Critical, Pass, NextTaken, NextSkipped, NextNone, Transfer, Hold,
          Satisfy, Move, StartWaitOnMask, StopStarted, StopStartedCounter, StopTaken,
          RecheckCancelled, RecheckPending, CounterOut, CounterFlush, CounterMoreWrites,
          CounterInstall, CountDown, OverrunAbort, PassAgain, PurgeCurrent, IoCancelIrp,
          TakeCancelRoutine, CancelRoutine, Serve, ServeReceive, CancelQueue,
          TimeoutRoutine, TimerFires
  <1>4. ASSUME NEW j \in Irps, Deciding(j), ~(\E i \in Irps : Submit(i) \/ Return(i))
        PROVE  Deciding(j)'
    <2>1. lock # None /\ cs.pc = "decide"
      BY <1>4 DEF Deciding, At
    <2>2. UNCHANGED <<lock, cs>>
      BY <1>4, <2>1
      DEF Next, vars, Critical, Pass, At, Acquire, AcquireForPass, NextTaken, NextSkipped,
          NextNone, Transfer, Hold, Satisfy, StartWaitOnMask, StopStarted,
          StopStartedCounter, StopTaken, RecheckCancelled, RecheckPending, CounterOut,
          CounterFlush, CounterMoreWrites, CounterInstall, CountDown, OverrunAbort,
          PassAgain, PassEnd, PurgeCurrent, PurgeEnd, IoCancelIrp, TakeCancelRoutine,
          CancelRoutine, Serve, ServeReceive, CancelQueue, TimeoutRoutine, TimerFires
    <2> QED  BY <1>4, <2>2 DEF Deciding, At
  <1>5. ASSUME ~(\E i \in Irps : Submit(i) \/ Return(i)) PROVE Accounted' = Accounted
    BY <1>3, <1>4, <1>5, HistoryCases, AccountedSame
  <1>6. ASSUME ~(\E i \in Irps : Submit(i) \/ Return(i)),
               At("process"), NEW n \in Int, NEW st \in Statuses, Move(n, st)
        PROVE  Balanced
    <2>1. /\ lock # None /\ cs.pc = "process" /\ cs.irp = q.current /\ cs.irp \in Irps
          /\ info' = [info EXCEPT ![cs.irp] = @ + n] /\ amount' = amount - n
      BY <1>0, <1>6 DEF At, AtCurrent, Sections, AtIrp, Move
    <2>2. cs.irp \in Accounted
      BY <1>0, <2>1, PlacementFacts, QueuedFacts DEF Accounted, Deciding, At
    <2> QED  BY <1>5, <1>6, <2>1, <2>2 DEF Balanced
  <1>7. ASSUME ~(\E i \in Irps : Submit(i) \/ Return(i)), ~Transfer, ~Hold, ~Satisfy
        PROVE  UNCHANGED <<info, amount>>
    BY <1>7
    DEF Next, vars, Critical, Pass, NextTaken, NextSkipped, NextNone, StartWaitOnMask,
        StopStarted, StopStartedCounter, StopTaken, RecheckCancelled, RecheckPending,
        CounterOut, CounterFlush, CounterMoreWrites, CounterInstall, CountDown,
        OverrunAbort, PassAgain, PassEnd, PurgeCurrent, PurgeEnd, IoCancelIrp,
        TakeCancelRoutine, CancelRoutine, Serve, ServeReceive, CancelQueue,
        TimeoutRoutine, TimerFires
  <1>8. ASSUME ~(\E i \in Irps : Submit(i) \/ Return(i)) PROVE Balanced
    <2>1. CASE Transfer \/ Hold \/ Satisfy
      BY <1>0, <1>6, <1>8, <2>1, MoveCases
    <2>2. CASE ~(Transfer \/ Hold \/ Satisfy)
      BY <1>5, <1>7, <1>8, <2>2 DEF Balanced
    <2> QED  BY <2>1, <2>2
  <1> QED  BY <1>1, <1>2, <1>8

\* The account is inductive.
LEMMA AccountsStep ==
  ASSUME "XOFF_COUNTER" \notin Kinds, IsFiniteSet(Irps), Ownership, Ownership', Placement,
         Uncancelled, Accounts, [Next]_vars
  PROVE  Accounts'
  <1>1. kind' = kind /\ (IsWriteQueue' <=> IsWriteQueue)
    BY HistoryCases DEF IsWriteQueue
  <1> SUFFICES ASSUME IsWriteQueue PROVE Accounts'
    BY <1>1 DEF Accounts
  <1>2. TypeOK /\ TypeOK' /\ Untouched /\ amount = SumFunctionOnSet(Owed, Accounted)
    BY DEF Ownership, Accounts, Untouched
  <1>3. Balanced
    BY <1>2, DecideBalanced, CompleteBalanced, OtherBalanced
  <1>4. amount' = SumFunctionOnSet(Owed', Accounted')
    BY <1>1, <1>2, <1>3, AmountFollows
  <1>5. Untouched'
    BY <1>2, UntouchedStep
  <1> QED  BY <1>4, <1>5 DEF Accounts, Untouched

\* As long as no IRP is cancelled and no XOFF_COUNTER comes, amountInWriteQueue is exactly
\* what the queue owes: the bytes accepted and neither sent nor given back.
THEOREM AmountIsExact ==
  ASSUME "XOFF_COUNTER" \notin Kinds, Cancellable = {}, IsFiniteSet(Irps)
  PROVE  Spec => []AmountExact
  <1>0. NoPreemptedCounter
    BY DEF NoPreemptedCounter
  <1>1. Init => Uncancelled /\ Accounts
    <2> SUFFICES ASSUME Init PROVE Uncancelled /\ Accounts
      OBVIOUS
    <2>1. Accounted = {} /\ amount = 0
      BY DEF Init, Accounted, InDriver
    <2>2. \A i \in Irps : info[i] = 0
      BY DEF Init
    <2> QED  BY <2>1, <2>2, SumEmpty DEF Init, Uncancelled, Accounts
  <1>2. /\ Ownership /\ Ownership' /\ Placement /\ Uncancelled /\ Accounts /\ [Next]_vars
           => Uncancelled' /\ Accounts'
    BY AccountsStep, UncancelledStep
  <1>3. Accounts => AmountExact
    <2> SUFFICES ASSUME Accounts, lock = None, IsWriteQueue
                 PROVE  amount = SumFunctionOnSet(Owed, {i \in Irps : InDriver(i)})
      BY DEF AmountExact
    <2>1. Accounted = {i \in Irps : InDriver(i)}
      BY DEF Accounted, Deciding, At
    <2> QED  BY <2>1 DEF Accounts
  <1>4. Spec => []Ownership
    BY OwnershipInvariant
  <1>5. Spec => []Placement
    BY <1>0, PlacementInvariant
  <1> QED  BY <1>1, <1>2, <1>3, <1>4, <1>5, PTL DEF Spec

=============================================================================
