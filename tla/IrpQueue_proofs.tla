--------------------------- MODULE IrpQueue_proofs ---------------------------
(***************************************************************************)
(* Theorems about IrpQueue, for every set of IRPs, of workers and of kinds *)
(* of request, every length and every number of turns of ReadWrite: who    *)
(* may complete an IRP (Ownership), and where the IRPs are (Placement): no *)
(* IRP is forgotten, and none is in two places.                            *)
(***************************************************************************)
EXTENDS IrpQueue, TLAPS

-----------------------------------------------------------------------------
(* The queue operators keep the type of the queue *)

\* ShiftQueue leaves a well-formed queue.
LEMMA ShiftType == ASSUME NEW s \in QueueType PROVE Shift(s) \in QueueType
  <1>1. CASE s.list = <<>>
    BY <1>1 DEF Shift, QueueType
  <1>2. CASE s.list # <<>>
    <2>1. s.list \in Seq(Irps)  BY DEF QueueType
    <2>2. Head(s.list) \in Irps /\ Tail(s.list) \in Seq(Irps)  BY <1>2, <2>1
    <2> QED  BY <1>2, <2>2 DEF Shift, QueueType
  <1> QED  BY <1>1, <1>2

\* Making an IRP current, linking it and pushing the current one back leave a
\* well-formed queue.
LEMMA LinkType ==
  ASSUME NEW s \in QueueType, NEW i \in Irps
  PROVE  /\ MakeCurrent(s, i) \in QueueType
         /\ InsertTail(s, i) \in QueueType
         /\ s.current # None => PushBack(s) \in QueueType
  <1>1. s.list \in Seq(Irps)  BY DEF QueueType
  <1>2. Append(s.list, i) \in Seq(Irps)  BY <1>1
  <1>3. s.current # None => <<s.current>> \o s.list \in Seq(Irps)
    BY <1>1 DEF QueueType
  <1> QED  BY <1>1, <1>2, <1>3 DEF MakeCurrent, InsertTail, PushBack, QueueType

\* RemoveEntryList leaves a well-formed queue.
LEMMA UnlinkType ==
  ASSUME NEW s \in QueueType, NEW i \in Irps
  PROVE  Unlink(s, i) \in QueueType
  <1>1. s.list \in Seq(Irps) /\ Len(s.list) \in Nat  BY DEF QueueType
  <1>2. Without(s.list, i) \in Seq(Irps)
    <2>1. CASE Len(s.list) = 0
      <3>1. Without(s.list, i) = <<>>  BY <2>1 DEF Without
      <3> QED  BY <3>1
    <2>2. CASE Len(s.list) # 0
      <3>1. Len(s.list) - 1 \in Nat  BY <1>1, <2>2
      <3>2. \A k \in 1..(Len(s.list) - 1) :
              s.list[k] \in Irps /\ s.list[k + 1] \in Irps
        BY <1>1, <3>1
      <3>3. Without(s.list, i) \in [1..(Len(s.list) - 1) -> Irps]
        BY <3>2 DEF Without
      <3> QED  BY <3>1, <3>3
    <2> QED  BY <2>1, <2>2
  <1> QED  BY <1>2 DEF Unlink, QueueType

-----------------------------------------------------------------------------
(* Types of the other operators *)

\* The threads are threads, and their names tell them apart.
LEMMA ThreadFacts ==
  /\ \A i \in Irps : /\ Dispatch(i) \in Threads /\ Canceller(i) \in Threads
                     /\ Dispatch(i)[1] = "dispatch" /\ Dispatch(i)[2] = i
                     /\ Canceller(i)[1] # "dispatch"
  /\ \A w \in Workers : Worker(w) \in Threads /\ Worker(w)[1] # "dispatch"
  /\ \A t \in Threads : t # None /\ (t[1] = "dispatch" => t[2] \in Irps)
  BY BoundsAssumption DEF Threads, Dispatch, Canceller, Worker

\* An IRP never asks for more bytes than Length.
LEMMA LengthFacts ==
  ASSUME TypeOK, NEW i \in Irps
  PROVE  WriteLength(i) \in 0..Length /\ RequestLength(i) \in 0..Length
  BY BoundsAssumption DEF TypeOK, WriteLength, RequestLength

\* What SetIrpTimeout gives is a status, a set of timers and a set of flags.
LEMMA TimeoutFacts ==
  ASSUME TypeOK, NEW i \in Irps
  PROVE  /\ IrpTimeoutStatus(i) \in Statuses
         /\ IrpTimeoutTimers(i) \in SUBSET Timers
         /\ IrpTimeoutFlags(i) \in SUBSET Flags
  <1>1. IrpTimeoutStatus(i) \in Statuses
    BY DEF IrpTimeoutStatus, Statuses
  <1>2. IrpTimeoutTimers(i) \in SUBSET Timers
    BY DEF TypeOK, IrpTimeoutTimers, Timers
  <1>3. IrpTimeoutFlags(i) \in SUBSET Flags
    BY DEF IrpTimeoutFlags, Flags
  <1> QED  BY <1>1, <1>2, <1>3

\* The queue holds IRPs.
LEMMA QueuedType == q \in QueueType => Queued \in SUBSET Irps
  BY DEF Queued, Members, QueueType, Range

\* CompleteIrp keeps the types of what it changes.
LEMMA CompleteIrpType ==
  ASSUME TypeOK, lock # None, NEW i \in Irps, NEW st \in Statuses,
         CompleteIrp(i, st)
  PROVE  /\ status' \in [Irps -> Statuses]
         /\ armed' \in [Irps -> BOOLEAN]
         /\ toComplete' \in [Threads -> SUBSET Irps]
  <1>1. CASE armed[i]
    <2>1. status' = [status EXCEPT ![i] = st]
      BY <1>1 DEF CompleteIrp, ToComplete
    <2>2. armed' = [armed EXCEPT ![i] = FALSE]
      BY <1>1 DEF CompleteIrp
    <2>3. toComplete' = [toComplete EXCEPT ![lock] = @ \cup {i}]
      BY <1>1 DEF CompleteIrp, ToComplete
    <2>4. status' \in [Irps -> Statuses] /\ armed' \in [Irps -> BOOLEAN]
      BY <2>1, <2>2 DEF TypeOK
    <2>5. toComplete' \in [Threads -> SUBSET Irps]
      BY <2>3 DEF TypeOK
    <2> QED  BY <2>4, <2>5
  <1>2. CASE ~armed[i]
    BY <1>2 DEF TypeOK, CompleteIrp
  <1> QED  BY <1>1, <1>2

\* The initial section is one.
LEMMA IdleType == Idle \in SectionType
  BY BoundsAssumption DEF Idle, SectionType, Labels, Statuses


-----------------------------------------------------------------------------
(* The critical section *)

\* Moving to another label changes nothing else.
LEMMA GotoFacts ==
  ASSUME cs \in SectionType, NEW pc \in Labels, Goto(pc)
  PROVE  /\ cs' \in SectionType /\ cs'.pc = pc /\ cs'.irp = cs.irp
         /\ cs'.start = cs.start /\ cs'.passes = cs.passes
  BY DEF Goto, SectionType

\* Ending the turn of an IRP keeps the number of turns.
LEMMA TurnFacts ==
  ASSUME cs \in SectionType, NEW ret \in Statuses
  PROVE  /\ GotoNext(ret) => /\ cs' \in SectionType /\ cs'.pc = "next"
                             /\ cs'.passes = cs.passes
         /\ GotoEnd(ret) => /\ cs' \in SectionType /\ cs'.pc = "passend"
                            /\ cs'.passes = cs.passes
  <1>1. ASSUME GotoNext(ret)
        PROVE  cs' \in SectionType /\ cs'.pc = "next" /\ cs'.passes = cs.passes
    BY <1>1 DEF GotoNext, Idle, SectionType, Labels, Statuses
  <1>2. ASSUME GotoEnd(ret)
        PROVE  cs' \in SectionType /\ cs'.pc = "passend" /\ cs'.passes = cs.passes
    BY <1>2 DEF GotoEnd, Idle, SectionType, Labels, Statuses
  <1> QED  BY <1>1, <1>2

\* Who takes the lock holds it, at the label asked for.
LEMMA AcquireFacts ==
  ASSUME NEW t, NEW pc \in Labels
  PROVE  /\ Acquire(t, pc) => /\ lock = None /\ lock' = t
                              /\ cs' \in SectionType /\ cs'.pc = pc
         /\ AcquireForPass(t, pc) => /\ lock = None /\ lock' = t
                                     /\ cs' \in SectionType /\ cs'.pc = pc
  <1> DEFINE b == pc = "next"
  <1>1. ASSUME Acquire(t, pc) PROVE cs' \in SectionType /\ cs'.pc = pc
    BY <1>1, IdleType DEF Acquire, SectionType
  <1>2. ASSUME AcquireForPass(t, pc) PROVE cs' \in SectionType /\ cs'.pc = pc
    <2>1. cs' = [Idle EXCEPT !.pc = pc, !.first = b, !.passes = 1]
      BY <1>2 DEF AcquireForPass
    <2>2. b \in BOOLEAN /\ 1 \in 0..MaxPasses  BY BoundsAssumption
    <2> HIDE DEF b
    <2> QED  BY <2>1, <2>2, IdleType DEF SectionType
  <1> QED  BY <1>1, <1>2 DEF Acquire, AcquireForPass

\* StartIrp begins the turn of its IRP.
LEMMA StartFacts ==
  ASSUME cs \in SectionType, NEW i \in Irps, NEW s, NEW n, StartIrp(i, s, n)
  PROVE  /\ cs' \in SectionType /\ cs'.pc = "process" /\ cs'.irp = i
         /\ cs'.start = TRUE /\ cs'.passes = 1
  <1>1. 1 \in 0..MaxPasses  BY BoundsAssumption
  <1> QED  BY <1>1 DEF StartIrp, SectionType, Labels

\* StartCurrentIrp, a transfer, StartIrpWaitOnMask and another turn of
\* ReadWrite: what becomes of the label, the IRP and the number of turns.
LEMMA PassFacts ==
  ASSUME cs \in SectionType, q \in QueueType
  PROVE  /\ NextTaken => /\ cs' \in SectionType /\ cs'.pc = "process"
                         /\ cs'.irp = q.current /\ cs'.passes = cs.passes
                         /\ cs'.irp \in Irps
         /\ NextSkipped => /\ cs' \in SectionType /\ cs'.pc = "next"
                           /\ cs'.passes = cs.passes
         /\ StartWaitOnMask => /\ cs' \in SectionType /\ cs'.pc = "started"
                               /\ cs'.passes = cs.passes
         /\ PassAgain => /\ cs' \in SectionType /\ cs'.pc = "next"
                         /\ cs'.passes # 0
  <1>1. ASSUME NextTaken
        PROVE  /\ cs' \in SectionType /\ cs'.pc = "process"
               /\ cs'.irp = q.current /\ cs'.passes = cs.passes
               /\ cs'.irp \in Irps
    <2>1. q.current \in Irps  BY <1>1 DEF NextTaken, QueueType
    <2>2. cs' = [cs EXCEPT !.pc = "process", !.irp = q.current]
      BY <1>1 DEF NextTaken
    <2> DEFINE i == q.current
    <2> HIDE DEF i
    <2>3. i \in Irps /\ cs' = [cs EXCEPT !.pc = "process", !.irp = i]
      BY <2>1, <2>2 DEF i
    <2>4. /\ cs' \in SectionType /\ cs'.pc = "process"
          /\ cs'.irp = i /\ cs'.passes = cs.passes
      BY <2>3 DEF SectionType, Labels
    <2> QED  BY <2>3, <2>4 DEF i
  <1>2. ASSUME NextSkipped
        PROVE  cs' \in SectionType /\ cs'.pc = "next" /\ cs'.passes = cs.passes
    <2>1. cs' = [cs EXCEPT !.first = FALSE] /\ cs.pc = "next"
      BY <1>2 DEF NextSkipped, At
    <2> QED  BY <2>1 DEF SectionType
  <1>3. ASSUME StartWaitOnMask
        PROVE  /\ cs' \in SectionType /\ cs'.pc = "started"
               /\ cs'.passes = cs.passes
    <2>1. PICK st \in Statuses : cs' = [cs EXCEPT !.pc = "started", !.ret = st]
      BY <1>3 DEF StartWaitOnMask, Statuses
    <2> QED  BY <2>1 DEF SectionType, Labels
  <1>4. ASSUME PassAgain
        PROVE  cs' \in SectionType /\ cs'.pc = "next" /\ cs'.passes # 0
    <2> DEFINE n == cs.passes + 1
    <2>1. n \in 0..MaxPasses /\ n # 0
      BY <1>4, BoundsAssumption DEF PassAgain, SectionType
    <2>2. cs' = [cs EXCEPT !.pc = "next", !.first = TRUE, !.passes = n]
      BY <1>4 DEF PassAgain
    <2> HIDE DEF n
    <2> QED  BY <2>1, <2>2 DEF SectionType, Labels
  <1> QED  BY <1>1, <1>2, <1>3, <1>4

\* A transfer ends in the stop half of the turn of the same IRP.
LEMMA MoveFacts ==
  ASSUME cs \in SectionType, NEW n \in Int, NEW st \in Statuses, Move(n, st)
  PROVE  /\ cs' \in SectionType /\ cs'.pc = "stop" /\ cs'.irp = cs.irp
         /\ cs'.start = cs.start /\ cs'.passes = cs.passes
  <1> DEFINE b == n > 0
  <1>1. cs' = [cs EXCEPT !.pc = "stop", !.done = b, !.st = st] /\ b \in BOOLEAN
    BY DEF Move
  <1> HIDE DEF b
  <1> QED  BY <1>1 DEF SectionType, Labels


-----------------------------------------------------------------------------
(* Type correctness *)

\* A step of the lock's holder or of anyone else keeps the type of cs.
LEMMA SectionStep ==
  ASSUME TypeOK, Sections, Next PROVE cs' \in SectionType
  <1> USE DEF TypeOK, Labels, Statuses
  <1>1. ASSUME NEW i \in Irps, Submit(i) PROVE cs' \in SectionType
    BY <1>1, AcquireFacts DEF Submit
  <1>2. ASSUME NEW i \in Irps, CancelRoutine(i) PROVE cs' \in SectionType
    BY <1>2, AcquireFacts DEF CancelRoutine
  <1>3. ASSUME NEW i \in Irps, Decide(i) PROVE cs' \in SectionType
    <2>1. ASSUME NEW s, NEW n, StartIrp(i, s, n) PROVE cs' \in SectionType
      BY <2>1, StartFacts
    <2>2. ASSUME Leave PROVE cs' \in SectionType
      BY <2>2, IdleType DEF Leave
    <2> QED
      BY <1>3, <2>1, <2>2
      DEF Decide, RefuseCancelled, RefuseSecond, Refuse, StartAtOnce,
          StartImmediate, Enqueue, FlushBehindCounter, SupersedeCounter,
          StartedPending, StartedDone
  <1>4. CASE NextTaken \/ NextSkipped \/ StartWaitOnMask \/ PassAgain
    BY <1>4, PassFacts
  <1>5. CASE Transfer \/ Hold \/ Satisfy
    <2>1. ASSUME NEW n \in Int, NEW st \in Statuses, Move(n, st)
          PROVE  cs' \in SectionType
      BY <2>1, MoveFacts
    <2>2. CASE Transfer
      <3>1. At("process")  BY <2>2 DEF Transfer
      <3>2. cs.irp \in Irps  BY <3>1 DEF At, Sections, AtIrp
      <3>3. info[cs.irp] \in Int /\ RequestLength(cs.irp) \in Int
        BY <3>2, LengthFacts
      <3> QED  BY <2>1, <2>2, <3>3 DEF Transfer
    <2>3. CASE Hold \/ Satisfy
      BY <2>1, <2>3 DEF Hold, Satisfy
    <2> QED  BY <1>5, <2>2, <2>3
  <1>6. ASSUME NEW pc \in Labels, Goto(pc) PROVE cs' \in SectionType
    BY <1>6, GotoFacts
  <1>7. ASSUME NEW ret \in Statuses, GotoNext(ret) \/ GotoEnd(ret)
        PROVE  cs' \in SectionType
    BY <1>7, TurnFacts
  <1>8. cs.ret \in Statuses  BY DEF SectionType
  <1>9. CASE StopStarted
    <2>1. cs.irp \in Irps  BY <1>9 DEF StopStarted, At, Sections, AtIrp
    <2> DEFINE st == IF cs.st = "PENDING" THEN IrpTimeoutStatus(cs.irp) ELSE cs.st
    <2>2. st \in Statuses  BY <2>1, TimeoutFacts DEF SectionType
    <2>3. GotoEnd(st) \/ GotoNext(st)  BY <1>9 DEF StopStarted
    <2> HIDE DEF st
    <2> QED  BY <1>7, <2>2, <2>3
  <1>10. CASE StopTaken
    <2>1. Goto("recheck") \/ GotoNext(cs.ret)  BY <1>10 DEF StopTaken
    <2> QED  BY <1>6, <1>7, <1>8, <2>1
  <1>11. CASE NextNone \/ StopStartedCounter \/ RecheckCancelled
              \/ RecheckPending \/ CounterOut \/ CounterFlush
              \/ CounterMoreWrites \/ CounterInstall \/ CountDown
              \/ OverrunAbort \/ PassEnd \/ PurgeCurrent \/ PurgeEnd
    <2>1. \/ GotoNext(cs.ret) \/ GotoEnd(cs.ret) \/ GotoEnd("PENDING")
          \/ Goto("counter") \/ Goto("flushes") \/ Goto("purge")
          \/ Goto("passend") \/ Goto("started") \/ Leave \/ UNCHANGED cs
      BY <1>11
      DEF NextNone, StopStartedCounter, RecheckCancelled, RecheckPending,
          CounterOut, CounterFlush, CounterMoreWrites, CounterInstall,
          CountDown, OverrunAbort, PassEnd, PurgeCurrent, PurgeEnd
    <2> QED  BY <1>6, <1>7, <1>8, <2>1, IdleType DEF Leave
  <1>12. ASSUME NEW w \in Workers,
                \/ Serve(w) \/ ServeReceive(w) \/ CancelQueue(w)
                \/ \E t \in Timers : TimeoutRoutine(w, t)
         PROVE  cs' \in SectionType
    BY <1>12, AcquireFacts DEF Serve, ServeReceive, CancelQueue, TimeoutRoutine
  <1> QED
    BY <1>1, <1>2, <1>3, <1>4, <1>5, <1>9, <1>10, <1>11, <1>12
    DEF Next, Critical, Pass, Return, IoCancelIrp, TakeCancelRoutine,
        TimerFires, CompleteQueued

\* Every step keeps every variable in its type.
LEMMA TypeStep == TypeOK /\ Sections /\ [Next]_vars => TypeOK'
  <1> SUFFICES ASSUME TypeOK, Sections, Next PROVE TypeOK'
    BY DEF TypeOK, vars
  <1>0. cs' \in SectionType
    BY SectionStep
  <1> USE BoundsAssumption, ThreadFacts DEF TypeOK, Statuses
  <1>1. ASSUME NEW i \in Irps, Submit(i) PROVE TypeOK'
    <2>1. ahead' \in [Irps -> SUBSET Irps]
      BY <1>1, QueuedType DEF Submit
    <2> QED
      BY <1>0, <1>1, <2>1 DEF Submit, Acquire
  <1>2. ASSUME NEW i \in Irps, Return(i) PROVE TypeOK'
    <2>1. result[i] \in Statuses
      BY <1>2 DEF Return, Sections
    <2>2. status' \in [Irps -> Statuses] /\ completed' \in [Irps -> Nat]
      <3>1. CASE result[i] = "PENDING"
        BY <1>2, <3>1 DEF Return
      <3>2. CASE result[i] # "PENDING"
        BY <1>2, <2>1, <3>2 DEF Return
      <3> QED
        BY <3>1, <3>2
    <2> QED
      BY <1>0, <1>2, <2>2 DEF Return
  <1>3. ASSUME NEW i \in Irps, IoCancelIrp(i) PROVE TypeOK'
    BY <1>0, <1>3 DEF IoCancelIrp
  <1>4. ASSUME NEW i \in Irps, TakeCancelRoutine(i) PROVE TypeOK'
    BY <1>0, <1>4 DEF TakeCancelRoutine
  <1>5. ASSUME NEW i \in Irps, CancelRoutine(i) PROVE TypeOK'
    BY <1>0, <1>5, ShiftType, UnlinkType DEF CancelRoutine, AcquireForPass
  <1>6. ASSUME NEW i \in Irps, RefuseCancelled(i) PROVE TypeOK'
    BY <1>0, <1>6 DEF RefuseCancelled, Deciding, Refuse, NoPending, Leave
  <1>7. ASSUME NEW i \in Irps, RefuseSecond(i) PROVE TypeOK'
    BY <1>0, <1>7 DEF RefuseSecond, Deciding, Refuse, NoPending, Leave
  <1>8. ASSUME NEW i \in Irps, StartAtOnce(i) PROVE TypeOK'
    BY <1>0, <1>8, LinkType, LengthFacts DEF StartAtOnce, StartIrp
  <1>9. ASSUME NEW i \in Irps, StartImmediate(i) PROVE TypeOK'
    <2>1. PushBack(q) \in QueueType
      BY <1>9, LinkType DEF StartImmediate
    <2>2. MakeCurrent(PushBack(q), i) \in QueueType
      BY <2>1, LinkType
    <2>3. WriteLength(i) \in Int
      BY LengthFacts
    <2> QED
      BY <1>0, <1>9, <2>2, <2>3 DEF StartImmediate, StartIrp
  <1>10. ASSUME NEW i \in Irps, Enqueue(i) PROVE TypeOK'
    BY <1>0, <1>10, LinkType, LengthFacts DEF Enqueue, MustQueue, Deciding, Leave
  <1>11. ASSUME NEW i \in Irps, FlushBehindCounter(i) PROVE TypeOK'
    BY <1>0, <1>11 DEF FlushBehindCounter, MustQueue, Deciding, Refuse, NoPending, Leave
  <1>12. ASSUME NEW i \in Irps, SupersedeCounter(i) PROVE TypeOK'
    <2>1. q.current \in Irps /\ lock # None
      BY <1>12 DEF SupersedeCounter, MustQueue, Deciding, At, QueueType
    <2>2. CompleteIrp(q.current, "MORE_WRITES")
      BY <1>12 DEF SupersedeCounter
    <2>3. /\ status' \in [Irps -> Statuses]
          /\ armed' \in [Irps -> BOOLEAN]
          /\ toComplete' \in [Threads -> SUBSET Irps]
      BY <2>1, <2>2, CompleteIrpType
    <2>4. Shift(InsertTail(q, i)) \in QueueType
      BY LinkType, ShiftType
    <2>5. MakeCurrent(Shift(InsertTail(q, i)), i) \in QueueType
      BY <2>4, LinkType
    <2>6. WriteLength(i) \in Int
      BY LengthFacts
    <2> QED
      BY <1>0, <1>12, <2>3, <2>5, <2>6 DEF SupersedeCounter, StartIrp
  <1>13. ASSUME NEW i \in Irps, StartedPending(i) PROVE TypeOK'
    BY <1>0, <1>13 DEF StartedPending, Leave
  <1>14. ASSUME NEW i \in Irps, StartedDone(i) PROVE TypeOK'
    <2>1. q' \in QueueType
      BY <1>14, ShiftType DEF StartedDone
    <2>2. amount' \in Int
      BY <1>14, LengthFacts DEF StartedDone
    <2>3. /\ armed' \in [Irps -> BOOLEAN]
          /\ result' \in [Irps -> Statuses \cup {"none"}]
      BY <1>14 DEF StartedDone, NoPending, SectionType
    <2> QED
      BY <1>0, <1>14, <2>1, <2>2, <2>3 DEF StartedDone, Leave
  <1>15. CASE NextTaken
    BY <1>0, <1>15 DEF NextTaken
  <1>16. CASE NextSkipped
    BY <1>0, <1>16, ShiftType DEF NextSkipped
  <1>17. CASE NextNone
    BY <1>0, <1>17 DEF NextNone
  <1>18. CASE Transfer
    <2>1. cs.irp \in Irps
      BY <1>18 DEF Transfer, At, Sections, AtIrp
    <2> QED
      BY <1>0, <1>18, <2>1, LengthFacts DEF Transfer, Move
  <1>19. CASE Hold
    <2>1. cs.irp \in Irps
      BY <1>19 DEF Hold, At, Sections, AtIrp
    <2> QED
      BY <1>0, <1>19, <2>1 DEF Hold, Move
  <1>20. CASE Satisfy
    <2>1. cs.irp \in Irps
      BY <1>20 DEF Satisfy, At, Sections, AtIrp
    <2> QED
      BY <1>0, <1>20, <2>1 DEF Satisfy, Move
  <1>21. CASE StartWaitOnMask
    BY <1>0, <1>21 DEF StartWaitOnMask
  <1>22. CASE StopStarted
    <2>1. cs.irp \in Irps
      BY <1>22 DEF StopStarted, At, Sections, AtIrp
    <2> QED
      BY <1>0, <1>22, <2>1, ShiftType, TimeoutFacts DEF StopStarted
  <1>23. CASE StopStartedCounter
    BY <1>0, <1>23 DEF StopStartedCounter
  <1>24. CASE StopTaken
    <2>1. cs.irp \in Irps
      BY <1>24 DEF StopTaken, At, Sections, AtIrp
    <2>2. timers' \in SUBSET Timers
      BY <1>24, <2>1, TimeoutFacts DEF StopTaken, Timers
    <2>3. flags' \in [Irps -> SUBSET Flags]
      BY <1>24, <2>1, TimeoutFacts DEF StopTaken
    <2>4. armed' = [armed EXCEPT ![cs.irp] = TRUE] \/ UNCHANGED armed
      BY <1>24 DEF StopTaken
    <2>5. armed' \in [Irps -> BOOLEAN]
      BY <2>4
    <2>6. q' \in QueueType
      BY <1>24, ShiftType DEF StopTaken
    <2>7. /\ status' \in [Irps -> Statuses]
          /\ toComplete' \in [Threads -> SUBSET Irps]
      <3>1. CASE UNCHANGED <<status, toComplete>>
        BY <3>1
      <3>2. ASSUME NEW st \in Statuses, ToComplete(cs.irp, st)
            PROVE  /\ status' \in [Irps -> Statuses]
                   /\ toComplete' \in [Threads -> SUBSET Irps]
        BY <2>1, <3>2 DEF ToComplete
      <3>3. cs.st \in Statuses /\ IrpTimeoutStatus(cs.irp) \in Statuses
        BY <2>1, TimeoutFacts DEF SectionType
      <3> QED
        BY <1>24, <3>1, <3>2, <3>3 DEF StopTaken
    <2> QED
      BY <1>0, <1>24, <2>2, <2>3, <2>5, <2>7, <2>6 DEF StopTaken
  <1>25. CASE RecheckCancelled
    <2>1. cs.irp \in Irps /\ lock # None
      BY <1>25 DEF RecheckCancelled, At, Sections, AtIrp
    <2>2. /\ status' \in [Irps -> Statuses]
          /\ armed' \in [Irps -> BOOLEAN]
          /\ toComplete' \in [Threads -> SUBSET Irps]
      BY <1>25, <2>1, CompleteIrpType DEF RecheckCancelled
    <2> QED
      BY <1>0, <1>25, <2>2, ShiftType DEF RecheckCancelled
  <1>26. CASE RecheckPending
    BY <1>0, <1>26 DEF RecheckPending
  <1>27. CASE CounterOut
    BY <1>0, <1>27, ShiftType DEF CounterOut
  <1>28. CASE CounterFlush
    <2>1. q.current \in Irps /\ lock # None
      BY <1>28 DEF CounterFlush, At, QueueType
    <2>2. /\ status' \in [Irps -> Statuses]
          /\ armed' \in [Irps -> BOOLEAN]
          /\ toComplete' \in [Threads -> SUBSET Irps]
      BY <1>28, <2>1, CompleteIrpType DEF CounterFlush
    <2> QED
      BY <1>0, <1>28, <2>2, ShiftType DEF CounterFlush
  <1>29. CASE CounterMoreWrites
    <2>1. cs.irp \in Irps /\ lock # None
      BY <1>29 DEF CounterMoreWrites, At, Sections, AtIrp
    <2>2. /\ status' \in [Irps -> Statuses]
          /\ armed' \in [Irps -> BOOLEAN]
          /\ toComplete' \in [Threads -> SUBSET Irps]
      BY <1>29, <2>1, CompleteIrpType DEF CounterMoreWrites
    <2> QED
      BY <1>0, <1>29, <2>2, ShiftType DEF CounterMoreWrites
  <1>30. CASE CounterInstall
    <2>1. cs.irp \in Irps
      BY <1>30 DEF CounterInstall, At, Sections, AtIrp
    <2> QED
      BY <1>0, <1>30, <2>1, LinkType DEF CounterInstall, Timers
  <1>31. CASE CountDown
    <2>1. q.current \in Irps /\ lock # None
      BY <1>31 DEF CountDown, At, QueueType
    <2>2. /\ status' \in [Irps -> Statuses]
          /\ armed' \in [Irps -> BOOLEAN]
          /\ toComplete' \in [Threads -> SUBSET Irps]
      BY <1>31, <2>1, CompleteIrpType DEF CountDown
    <2> QED
      BY <1>0, <1>31, <2>2, ShiftType DEF CountDown
  <1>32. CASE OverrunAbort
    BY <1>0, <1>32 DEF OverrunAbort
  <1>33. CASE PassAgain
    BY <1>0, <1>33 DEF PassAgain
  <1>34. CASE PassEnd
    BY <1>0, <1>34 DEF PassEnd, Leave
  <1>35. CASE PurgeCurrent
    <2>1. q.current \in Irps /\ lock # None
      BY <1>35 DEF PurgeCurrent, At, QueueType
    <2>2. /\ status' \in [Irps -> Statuses]
          /\ armed' \in [Irps -> BOOLEAN]
          /\ toComplete' \in [Threads -> SUBSET Irps]
      BY <1>35, <2>1, CompleteIrpType DEF PurgeCurrent
    <2> QED
      BY <1>0, <1>35, <2>2, ShiftType DEF PurgeCurrent
  <1>36. CASE PurgeEnd
    BY <1>0, <1>36 DEF PurgeEnd, Leave
  <1>37. ASSUME NEW w \in Workers, Serve(w) PROVE TypeOK'
    BY <1>0, <1>37 DEF Serve, AcquireForPass, Acquire
  <1>38. ASSUME NEW w \in Workers, ServeReceive(w) PROVE TypeOK'
    BY <1>0, <1>38 DEF ServeReceive, AcquireForPass, Acquire
  <1>39. ASSUME NEW w \in Workers, CancelQueue(w) PROVE TypeOK'
    BY <1>0, <1>39 DEF CancelQueue, AcquireForPass, Acquire
  <1>40. ASSUME NEW w \in Workers, NEW t \in Timers, TimeoutRoutine(w, t)
       PROVE  TypeOK'
    <2>1. flags' \in [Irps -> SUBSET Flags]
      <3>1. {"EXPIRED"} \in SUBSET Flags
        BY DEF Flags
      <3> QED
        BY <1>40, <3>1 DEF TimeoutRoutine
    <2>2. lock' \in Threads \cup {None}
      BY <1>40 DEF TimeoutRoutine, AcquireForPass
    <2> QED
      BY <1>0, <1>40, <2>1, <2>2 DEF TimeoutRoutine
  <1>41. ASSUME NEW t \in Timers, TimerFires(t) PROVE TypeOK'
    BY <1>41 DEF TimerFires
  <1>42. ASSUME NEW t \in Threads, NEW i \in Irps, CompleteQueued(t, i)
       PROVE  TypeOK'
    BY <1>42, LengthFacts DEF CompleteQueued
  <1> QED
    BY <1>1, <1>2, <1>3, <1>4, <1>5, <1>6, <1>7, <1>8, <1>9, <1>10, <1>11, <1>12, <1>13, <1>14, <1>15, <1>16, <1>17, <1>18, <1>19, <1>20, <1>21, <1>22, <1>23, <1>24, <1>25, <1>26, <1>27, <1>28, <1>29, <1>30, <1>31, <1>32, <1>33, <1>34, <1>35, <1>36, <1>37, <1>38, <1>39, <1>40, <1>41, <1>42 DEF Next, Critical, Pass, Decide


-----------------------------------------------------------------------------
(* Critical sections *)

\* Every step keeps the place in the critical section and the locals in step.
LEMMA SectionsStep == TypeOK /\ Sections /\ [Next]_vars => Sections'
  <1> SUFFICES ASSUME TypeOK, Sections, Next PROVE Sections'
    BY DEF Sections, vars
  <1>0. cs \in SectionType /\ cs.ret \in Statuses /\ q \in QueueType
    BY DEF TypeOK, SectionType
  <1> USE DEF Labels, Statuses, AtIrp
  \* Leaving without a lock, or keeping the lock at a label with no IRP.
  <1>1. ASSUME lock' = None, UNCHANGED <<disp, result>> PROVE Sections'
    BY <1>1 DEF Sections
  <1>2. ASSUME lock # None, UNCHANGED <<lock, disp, result>>, cs.pc # "decide",
               cs'.pc \in AtIrp => cs'.irp \in Irps, cs'.passes = cs.passes
        PROVE  Sections'
    BY <1>2 DEF Sections
  <1>3. ASSUME NEW t \in Threads, t[1] # "dispatch", lock' = t,
               cs'.pc \notin AtIrp, UNCHANGED <<disp, result>>
        PROVE  Sections'
    BY <1>3 DEF Sections
  <1>4. ASSUME UNCHANGED <<lock, cs, disp, result>> PROVE Sections'
    BY <1>4 DEF Sections
  <1>5. ASSUME NEW i \in Irps, Submit(i) PROVE Sections'
    <2>1. lock' = Dispatch(i) /\ cs'.pc = "decide"
      BY <1>5, AcquireFacts DEF Submit
    <2>2. disp' = [disp EXCEPT ![i] = "busy"] /\ UNCHANGED result /\ disp[i] = "new"
      BY <1>5 DEF Submit
    <2> QED  BY <2>1, <2>2, ThreadFacts DEF Sections, TypeOK
  <1>6. ASSUME NEW i \in Irps, lock = Dispatch(i), Leave, result'[i] # "none",
               result' = [result EXCEPT ![i] = result'[i]]
        PROVE  Sections'
    <2>1. disp' = [disp EXCEPT ![i] = "finish"] /\ lock' = None
      BY <1>6, ThreadFacts DEF Leave
    <2> QED  BY <1>6, <2>1 DEF Sections, TypeOK
  <1>7. ASSUME NEW i \in Irps, NEW s, NEW n, StartIrp(i, s, n),
               UNCHANGED <<lock, disp, result>>, lock # None
        PROVE  Sections'
    <2>1. cs'.irp = i /\ cs'.passes = 1
      BY <1>0, <1>7, StartFacts
    <2> QED  BY <1>7, <2>1 DEF Sections
  <1>8. ASSUME NEW i \in Irps, Decide(i) PROVE Sections'
    <2>1. CASE StartAtOnce(i) \/ StartImmediate(i) \/ SupersedeCounter(i)
      BY <1>7, <2>1
      DEF StartAtOnce, StartImmediate, SupersedeCounter, MustQueue, Deciding, At
    <2>2. CASE RefuseCancelled(i) \/ RefuseSecond(i) \/ FlushBehindCounter(i)
               \/ Enqueue(i) \/ StartedPending(i) \/ StartedDone(i)
      <3>1. lock = Dispatch(i) /\ Leave
        BY <2>2 DEF RefuseCancelled, RefuseSecond, FlushBehindCounter, Enqueue,
                    StartedPending, StartedDone, MustQueue, Deciding, Refuse
      <3>2. \E r \in Statuses : result' = [result EXCEPT ![i] = r]
        BY <1>0, <2>2
        DEF RefuseCancelled, RefuseSecond, FlushBehindCounter, Enqueue,
            StartedPending, StartedDone, Refuse, NoPending
      <3>3. /\ result'[i] # "none"
            /\ result' = [result EXCEPT ![i] = result'[i]]
        BY <3>2 DEF TypeOK
      <3> QED  BY <1>6, <3>1, <3>3
    <2> QED  BY <1>8, <2>1, <2>2 DEF Decide
  <1>9. CASE Pass
    <2>1. CASE NextTaken \/ NextSkipped \/ StartWaitOnMask
      BY <1>0, <1>2, <2>1, PassFacts DEF NextTaken, NextSkipped, StartWaitOnMask, At
    <2>2. CASE PassAgain
      BY <1>0, <2>2, PassFacts DEF PassAgain, At, Sections
    <2>3. CASE Transfer \/ Hold \/ Satisfy
      <3>1. At("process") /\ cs.irp \in Irps
        BY <2>3 DEF Transfer, Hold, Satisfy, At, Sections
      <3>2. info[cs.irp] \in Int /\ RequestLength(cs.irp) \in Int
        BY <3>1, LengthFacts DEF TypeOK
      <3>3. PICK n \in Int, st \in Statuses : Move(n, st)
        <4>1. CASE Transfer
          BY <3>2, <4>1 DEF Transfer
        <4>2. CASE Hold \/ Satisfy
          BY <4>2 DEF Hold, Satisfy
        <4> QED  BY <2>3, <4>1, <4>2
      <3>4. cs'.irp = cs.irp /\ cs'.passes = cs.passes
        BY <1>0, <3>3, MoveFacts
      <3> QED  BY <1>2, <3>1, <3>3, <3>4 DEF Move, At
    <2>4. ASSUME lock # None, UNCHANGED <<lock, disp, result>>, cs.pc # "decide",
                 NEW pc \in Labels, Goto(pc), pc \in AtIrp => cs.pc \in AtIrp
          PROVE  Sections'
      <3>1. cs'.pc = pc /\ cs'.irp = cs.irp /\ cs'.passes = cs.passes
        BY <1>0, <2>4, GotoFacts
      <3> QED  BY <1>2, <2>4, <3>1 DEF Sections
    <2>5. ASSUME lock # None, UNCHANGED <<lock, disp, result>>, cs.pc # "decide",
                 NEW ret \in Statuses, GotoNext(ret) \/ GotoEnd(ret)
          PROVE  Sections'
      BY <1>0, <1>2, <2>5, TurnFacts
    <2>6. CASE StopStarted
      <3>1. cs.irp \in Irps
        BY <2>6 DEF StopStarted, At, Sections
      <3> DEFINE st == IF cs.st = "PENDING" THEN IrpTimeoutStatus(cs.irp) ELSE cs.st
      <3>2. st \in Statuses
        BY <1>0, <3>1, TimeoutFacts DEF SectionType
      <3>3. GotoEnd(st) \/ GotoNext(st)
        BY <2>6 DEF StopStarted
      <3> HIDE DEF st
      <3> QED  BY <2>5, <2>6, <3>2, <3>3 DEF StopStarted, At
    <2>7. CASE NextNone \/ StopStartedCounter \/ StopTaken \/ RecheckCancelled
               \/ RecheckPending \/ CounterOut \/ CounterMoreWrites
               \/ CounterInstall \/ OverrunAbort
      <3>1. /\ lock # None /\ cs.pc # "decide" /\ UNCHANGED <<lock, disp, result>>
            /\ \/ GotoNext(cs.ret) \/ GotoEnd(cs.ret) \/ GotoEnd("PENDING")
               \/ Goto("counter") /\ cs.pc \in AtIrp
               \/ Goto("recheck") /\ cs.pc \in AtIrp
               \/ Goto("flushes") /\ cs.pc \in AtIrp
               \/ Goto("purge")
        BY <2>7
        DEF NextNone, StopStartedCounter, StopTaken, RecheckCancelled,
            RecheckPending, CounterOut, CounterMoreWrites, CounterInstall,
            OverrunAbort, At
      <3> QED  BY <1>0, <2>4, <2>5, <3>1
    <2>8. CASE CounterFlush \/ CountDown \/ PurgeCurrent
      BY <1>4, <2>8 DEF CounterFlush, CountDown, PurgeCurrent
    <2>9. CASE PassEnd \/ PurgeEnd
      <3>1. \/ /\ Goto("started") \/ Goto("passend")
               /\ UNCHANGED <<lock, disp>>
            \/ lock[1] # "dispatch" /\ Leave
        BY <2>9 DEF PassEnd, PurgeEnd, At, Sections
      <3>2. lock # None /\ cs.pc # "decide" /\ UNCHANGED result
        BY <2>9 DEF PassEnd, PurgeEnd, At
      <3>3. CASE (Goto("started") \/ Goto("passend")) /\ UNCHANGED <<lock, disp>>
        BY <2>4, <3>2, <3>3
      <3>4. CASE lock[1] # "dispatch" /\ Leave
        BY <1>1, <3>2, <3>4 DEF Leave
      <3> QED  BY <3>1, <3>3, <3>4
    <2> QED
      BY <1>9, <2>1, <2>2, <2>3, <2>6, <2>7, <2>8, <2>9 DEF Pass
  <1>10. ASSUME NEW i \in Irps, CancelRoutine(i) PROVE Sections'
    <2>1. UNCHANGED <<disp, result>>
      BY <1>10 DEF CancelRoutine
    <2>2. CASE AcquireForPass(Canceller(i), "next")
      BY <1>3, <2>1, <2>2, AcquireFacts, ThreadFacts
    <2>3. CASE UNCHANGED <<lock, cs>>
      BY <1>4, <2>1, <2>3
    <2> QED  BY <1>10, <2>2, <2>3 DEF CancelRoutine
  <1>11. ASSUME NEW i \in Irps, Return(i) PROVE Sections'
    <2>1. UNCHANGED <<lock, cs, result>> /\ disp[i] = "finish"
          /\ disp' = [disp EXCEPT ![i] = "done"]
      BY <1>11 DEF Return
    <2> QED  BY <2>1, ThreadFacts DEF Sections, TypeOK
  <1>12. ASSUME NEW w \in Workers,
                \/ Serve(w) \/ ServeReceive(w) \/ CancelQueue(w)
                \/ \E t \in Timers : TimeoutRoutine(w, t)
         PROVE  Sections'
    <2>1. UNCHANGED <<disp, result>>
      BY <1>12 DEF Serve, ServeReceive, CancelQueue, TimeoutRoutine
    <2>2. \/ AcquireForPass(Worker(w), "next") \/ AcquireForPass(Worker(w), "passend")
          \/ Acquire(Worker(w), "purge") \/ UNCHANGED <<lock, cs>>
      BY <1>12 DEF Serve, ServeReceive, CancelQueue, TimeoutRoutine
    <2>3. CASE UNCHANGED <<lock, cs>>
      BY <1>4, <2>1, <2>3
    <2> QED  BY <1>3, <2>1, <2>2, <2>3, AcquireFacts, ThreadFacts
  <1> QED
    BY <1>4, <1>5, <1>8, <1>9, <1>10, <1>11, <1>12
    DEF Next, Critical, IoCancelIrp, TakeCancelRoutine, TimerFires, CompleteQueued


-----------------------------------------------------------------------------
(* One owner *)

\* An IRP that gains no claim in a step and is not completed by it keeps at
\* most one owner.
LEMMA NoNewClaim ==
  ASSUME NEW i \in Irps, Owned(i), completed'[i] = completed[i],
         armed'[i] => armed[i],
         canceller'[i] = "routine" => canceller[i] = "routine",
         Moving(i)' => Moving(i),
         Finishing(i)' => Finishing(i),
         disp'[i] = "new" => disp[i] = "new",
         \A t \in Threads : i \in toComplete'[t] => i \in toComplete[t]
  PROVE  Owned(i)'
  <1>1. Listed(i)' => Listed(i)
    BY DEF Listed
  <1>2. \A t, u \in Threads : i \in toComplete'[t] /\ i \in toComplete'[u] => t = u
    BY DEF Owned
  <1> QED  BY <1>1, <1>2 DEF Owned

\* CompleteIrp turns the cancel routine into an entry of queueToComplete.
LEMMA ListClaim ==
  ASSUME TypeOK, OneOwner, lock # None, NEW i \in Irps, NEW st \in Statuses,
         CompleteIrp(i, st), UNCHANGED <<completed, canceller, disp, result>>,
         NEW j \in Irps, Moving(j)' => Moving(j)
  PROVE  Owned(j)'
  <1>1. Owned(j) /\ Owned(i)
    BY DEF OneOwner
  <1>2. Finishing(j)' => Finishing(j)
    BY DEF Finishing
  <1>3. CASE ~armed[i] \/ j # i
    <2>1. armed'[j] => armed[j]
      BY <1>3 DEF TypeOK, CompleteIrp
    <2>2. \A t \in Threads : j \in toComplete'[t] => j \in toComplete[t]
      BY <1>3 DEF TypeOK, CompleteIrp, ToComplete
    <2> QED  BY <1>1, <1>2, <2>1, <2>2, NoNewClaim
  <1>4. CASE armed[i] /\ j = i
    <2>1. ~armed'[j]
      BY <1>4 DEF TypeOK, CompleteIrp
    <2>2. ~Listed(j) /\ ~Moving(j) /\ ~Finishing(j) /\ completed[j] = 0
          /\ canceller[j] # "routine" /\ disp[j] # "new"
      BY <1>1, <1>4 DEF Owned
    <2>3. \A t \in Threads : j \in toComplete'[t] => t = lock
      BY <1>4, <2>2 DEF TypeOK, CompleteIrp, ToComplete, Listed
    <2> QED  BY <1>2, <2>1, <2>2, <2>3 DEF Owned
  <1> QED  BY <1>3, <1>4

\* Every step keeps at most one owner for every IRP.
LEMMA OwnerStep == Ownership /\ [Next]_vars => OneOwner'
  <1> SUFFICES ASSUME Ownership, [Next]_vars PROVE OneOwner'
    OBVIOUS
  <1> USE DEF Labels
  <1>0. /\ TypeOK /\ Sections /\ OneOwner /\ cs \in SectionType
        /\ q \in QueueType /\ cs.ret \in Statuses
    BY DEF Ownership, TypeOK, SectionType
  \* The step touches no claim, except that nothing moves any more.
  <1>1. ASSUME UNCHANGED <<disp, result, armed, canceller, completed, toComplete>>,
               \A j \in Irps : Moving(j)' => Moving(j)
        PROVE  OneOwner'
    <2> SUFFICES ASSUME NEW j \in Irps PROVE Owned(j)'
      BY DEF OneOwner
    <2>1. Finishing(j)' => Finishing(j)
      BY <1>1 DEF Finishing
    <2> QED  BY <1>0, <1>1, <2>1, NoNewClaim DEF OneOwner
  <1>2. ASSUME lock' = None \/ cs'.pc \notin {"process", "stop"}
        PROVE  \A j \in Irps : ~Moving(j)'
    BY <1>2 DEF Moving
  <1>3. ASSUME NEW i \in Irps, Submit(i) PROVE OneOwner'
    <2> SUFFICES ASSUME NEW j \in Irps PROVE Owned(j)'
      BY DEF OneOwner
    <2>1. cs'.pc = "decide" /\ UNCHANGED <<result, canceller, completed, toComplete>>
      BY <1>3, AcquireFacts DEF Submit
    <2>2. ~Moving(j)'
      BY <1>2, <2>1
    <2>3. /\ disp' = [disp EXCEPT ![i] = "busy"] /\ disp[i] = "new"
          /\ armed' = [armed EXCEPT ![i] = TRUE]
      BY <1>3 DEF Submit
    <2>4. Finishing(j)' => Finishing(j)
      BY <1>0, <2>1, <2>3 DEF Finishing, TypeOK
    <2>5. CASE j # i
      BY <1>0, <2>1, <2>2, <2>3, <2>4, <2>5, NoNewClaim DEF OneOwner, TypeOK
    <2>6. CASE j = i
      <3>1. ~Listed(j)' /\ ~Finishing(j)' /\ canceller'[j] # "routine"
            /\ completed'[j] = 0 /\ disp'[j] = "busy"
        BY <1>0, <2>1, <2>3, <2>6 DEF OneOwner, Owned, Listed, Finishing, TypeOK
      <3> QED  BY <2>2, <3>1 DEF Owned, Listed
    <2> QED  BY <2>5, <2>6
  <1>4. ASSUME NEW i \in Irps, lock = Dispatch(i), Leave,
               UNCHANGED <<canceller, completed, toComplete>>,
               NEW st \in Statuses,
               \/ NoPending(i, st)
               \/ result' = [result EXCEPT ![i] = "PENDING"] /\ UNCHANGED armed
        PROVE  OneOwner'
    <2> SUFFICES ASSUME NEW j \in Irps PROVE Owned(j)'
      BY DEF OneOwner
    <2>1. disp' = [disp EXCEPT ![i] = "finish"] /\ lock' = None
      BY <1>4, ThreadFacts DEF Leave
    <2>2. ~Moving(j)'
      BY <1>2, <2>1
    <2>3. armed'[j] => armed[j]
      BY <1>0, <1>4 DEF NoPending, TypeOK
    <2>4. disp'[j] = "new" => disp[j] = "new"
      BY <1>0, <2>1 DEF TypeOK
    <2>5. CASE Finishing(j)' => Finishing(j)
      BY <1>0, <1>4, <2>2, <2>3, <2>4, <2>5, NoNewClaim DEF OneOwner
    <2>6. CASE Finishing(j)' /\ ~Finishing(j)
      <3>1. j = i
        BY <1>0, <1>4, <2>1, <2>6 DEF Finishing, TypeOK, NoPending
      <3>2. result'[j] # "PENDING"
        BY <2>6 DEF Finishing
      <3>3. armed[j] /\ ~armed'[j]
        BY <1>0, <1>4, <3>1, <3>2 DEF TypeOK, NoPending
      <3>4. ~Listed(j) /\ completed[j] = 0 /\ canceller[j] # "routine"
        BY <1>0, <3>3 DEF OneOwner, Owned
      <3>5. disp'[j] = "finish"
        BY <1>0, <2>1, <3>1 DEF TypeOK
      <3> QED  BY <1>4, <2>2, <3>3, <3>4, <3>5 DEF Owned, Listed
    <2> QED  BY <2>5, <2>6
  <1>5. ASSUME NEW i \in Irps, NEW s, NEW n, StartIrp(i, s, n)
        PROVE  \A j \in Irps : ~Moving(j)'
    BY <1>0, <1>5, StartFacts DEF Moving
  <1>6. ASSUME NEW i \in Irps, NEW st \in Statuses, lock # None,
               CompleteIrp(i, st), UNCHANGED <<completed, canceller, disp, result>>,
               \A j \in Irps : Moving(j)' => Moving(j)
        PROVE  OneOwner'
    BY <1>0, <1>6, ListClaim DEF OneOwner
  <1>7. ASSUME NEW i \in Irps, Decide(i) PROVE OneOwner'
    <2>1. CASE StartAtOnce(i) \/ StartImmediate(i)
      BY <1>1, <1>5, <2>1 DEF StartAtOnce, StartImmediate
    <2>2. CASE SupersedeCounter(i)
      <3>1. q.current \in Irps /\ lock # None
        BY <1>0, <2>2
        DEF SupersedeCounter, MustQueue, Deciding, At, QueueType
      <3> QED  BY <1>5, <1>6, <2>2, <3>1 DEF SupersedeCounter, Statuses
    <2>3. CASE RefuseCancelled(i) \/ RefuseSecond(i) \/ FlushBehindCounter(i)
      BY <1>4, <2>3
      DEF RefuseCancelled, RefuseSecond, FlushBehindCounter, MustQueue,
          Deciding, Refuse, Statuses
    <2>4. CASE Enqueue(i) \/ StartedPending(i)
      BY <1>4, <2>4 DEF Enqueue, StartedPending, MustQueue, Deciding, Statuses
    <2>5. CASE StartedDone(i)
      BY <1>0, <1>4, <2>5 DEF StartedDone
    <2> QED  BY <1>7, <2>1, <2>2, <2>3, <2>4, <2>5 DEF Decide
  <1>8. CASE NextTaken
    <2> SUFFICES ASSUME NEW j \in Irps PROVE Owned(j)'
      BY DEF OneOwner
    <2>1. /\ UNCHANGED <<disp, result, canceller, completed, toComplete>>
          /\ armed' = [armed EXCEPT ![q.current] = FALSE] /\ armed[q.current]
      BY <1>8 DEF NextTaken
    <2>2. cs'.irp = q.current
      BY <1>0, <1>8, PassFacts
    <2>3. Finishing(j)' => Finishing(j)
      BY <2>1 DEF Finishing
    <2>4. CASE j # q.current
      <3>1. ~Moving(j)'
        BY <2>2, <2>4 DEF Moving
      <3> QED
        BY <1>0, <2>1, <2>3, <2>4, <3>1, NoNewClaim DEF OneOwner, TypeOK
    <2>5. CASE j = q.current
      <3>1. /\ ~armed'[j] /\ canceller[j] # "routine" /\ ~Listed(j)
            /\ ~Finishing(j) /\ completed[j] = 0 /\ disp[j] # "new"
        BY <1>0, <2>1, <2>5 DEF OneOwner, Owned, TypeOK
      <3> QED  BY <2>1, <2>3, <3>1 DEF Owned, Listed
    <2> QED  BY <2>4, <2>5
  <1>9. CASE Transfer \/ Hold \/ Satisfy
    <2>1. At("process") /\ cs.irp \in Irps
      BY <1>0, <1>9 DEF Transfer, Hold, Satisfy, At, Sections, AtIrp
    <2>2. info[cs.irp] \in Int /\ RequestLength(cs.irp) \in Int
      BY <1>0, <2>1, LengthFacts DEF TypeOK
    <2>3. PICK n \in Int, st \in Statuses : Move(n, st)
      <3>1. CASE Transfer
        BY <2>2, <3>1 DEF Transfer, Statuses
      <3>2. CASE Hold \/ Satisfy
        BY <3>2 DEF Hold, Satisfy, Statuses
      <3> QED  BY <1>9, <3>1, <3>2
    <2>4. cs'.irp = cs.irp /\ cs'.start = cs.start
      BY <1>0, <2>3, MoveFacts
    <2>5. UNCHANGED <<lock, disp, result, armed, canceller, completed, toComplete>>
      BY <2>3 DEF Move
    <2>6. \A j \in Irps : Moving(j)' => Moving(j)
      BY <2>1, <2>4, <2>5 DEF Moving, At
    <2> QED  BY <1>1, <2>5, <2>6
  <1>10. CASE StopTaken
    <2> SUFFICES ASSUME NEW j \in Irps PROVE Owned(j)'
      BY DEF OneOwner
    <2>1. cs.irp \in Irps /\ Moving(cs.irp) /\ lock # None
      BY <1>0, <1>10 DEF StopTaken, At, Sections, AtIrp, Moving
    <2>2. UNCHANGED <<disp, result, canceller, completed>>
      BY <1>10 DEF StopTaken
    <2>3. Goto("recheck") \/ GotoNext(cs.ret)
      BY <1>10 DEF StopTaken
    <2>4. ~Moving(j)'
      BY <1>0, <1>2, <2>3, GotoFacts, TurnFacts
    <2>5. Finishing(j)' => Finishing(j)
      BY <2>2 DEF Finishing
    <2>6. \/ armed' = [armed EXCEPT ![cs.irp] = TRUE] /\ UNCHANGED toComplete
          \/ /\ toComplete' = [toComplete EXCEPT ![lock] = @ \cup {cs.irp}]
             /\ UNCHANGED armed
      BY <1>10 DEF StopTaken, ToComplete
    <2>7. CASE j # cs.irp
      <3>1. armed'[j] = armed[j]
        BY <1>0, <2>6, <2>7 DEF TypeOK
      <3>2. \A t \in Threads : j \in toComplete'[t] => j \in toComplete[t]
        BY <1>0, <2>6, <2>7 DEF TypeOK
      <3> QED
        BY <1>0, <2>2, <2>4, <2>5, <3>1, <3>2, NoNewClaim DEF OneOwner
    <2>8. CASE j = cs.irp
      <3>1. /\ ~armed[j] /\ canceller[j] # "routine" /\ ~Listed(j)
            /\ ~Finishing(j) /\ completed[j] = 0 /\ disp[j] # "new"
        BY <1>0, <2>1, <2>8 DEF OneOwner, Owned
      <3>2. CASE UNCHANGED toComplete
        <4>1. ~Listed(j)'
          BY <3>1, <3>2 DEF Listed
        <4> QED  BY <2>2, <2>4, <2>5, <3>1, <4>1 DEF Owned, Listed
      <3>3. CASE UNCHANGED armed
        <4>1. \A t \in Threads : j \in toComplete'[t] => t = lock
          BY <1>0, <2>6, <3>1 DEF TypeOK, Listed
        <4>2. ~armed'[j]
          BY <3>1, <3>3
        <4> QED  BY <2>2, <2>4, <2>5, <3>1, <4>1, <4>2 DEF Owned
      <3> QED  BY <2>6, <3>2, <3>3
    <2> QED  BY <2>7, <2>8
  <1>11. CASE RecheckCancelled \/ CounterMoreWrites
    <2>1. cs.irp \in Irps /\ lock # None
      BY <1>0, <1>11 DEF RecheckCancelled, CounterMoreWrites, At, Sections, AtIrp
    <2>2. GotoNext(cs.ret) /\ UNCHANGED <<completed, canceller, disp, result>>
      BY <1>11 DEF RecheckCancelled, CounterMoreWrites
    <2>3. PICK st \in Statuses : CompleteIrp(cs.irp, st)
      BY <1>11 DEF RecheckCancelled, CounterMoreWrites, Statuses
    <2>4. \A j \in Irps : ~Moving(j)'
      BY <1>0, <1>2, <2>2, TurnFacts
    <2> QED  BY <1>6, <2>1, <2>2, <2>3, <2>4
  <1>12. CASE CounterFlush \/ CountDown \/ PurgeCurrent
    <2>1. q.current \in Irps /\ lock # None
      BY <1>0, <1>12 DEF CounterFlush, CountDown, PurgeCurrent, At, QueueType
    <2>2. UNCHANGED <<completed, canceller, disp, result, lock, cs>>
      BY <1>12 DEF CounterFlush, CountDown, PurgeCurrent
    <2>3. PICK st \in Statuses : CompleteIrp(q.current, st)
      BY <1>12 DEF CounterFlush, CountDown, PurgeCurrent, Statuses
    <2>4. \A j \in Irps : Moving(j)' => Moving(j)
      BY <2>2 DEF Moving
    <2> QED  BY <1>6, <2>1, <2>2, <2>3, <2>4
  <1>13. CASE NextSkipped \/ StartWaitOnMask \/ PassAgain
    <2>1. cs'.pc \in {"next", "started"}
      BY <1>0, <1>13, PassFacts
    <2> QED  BY <1>1, <1>2, <1>13, <2>1 DEF NextSkipped, StartWaitOnMask, PassAgain
  <1>14. CASE StopStarted
    <2>1. cs.irp \in Irps
      BY <1>0, <1>14 DEF StopStarted, At, Sections, AtIrp
    <2> DEFINE st == IF cs.st = "PENDING" THEN IrpTimeoutStatus(cs.irp) ELSE cs.st
    <2>2. st \in Statuses
      BY <1>0, <2>1, TimeoutFacts DEF SectionType
    <2>3. GotoEnd(st) \/ GotoNext(st)
      BY <1>14 DEF StopStarted
    <2> HIDE DEF st
    <2>4. \A j \in Irps : ~Moving(j)'
      BY <1>0, <1>2, <2>2, <2>3, TurnFacts
    <2> QED  BY <1>1, <1>14, <2>4 DEF StopStarted
  <1>15. CASE NextNone \/ StopStartedCounter \/ RecheckPending \/ CounterOut
              \/ CounterInstall \/ OverrunAbort \/ PassEnd \/ PurgeEnd
    <2>1. \/ GotoNext(cs.ret) \/ GotoEnd(cs.ret) \/ GotoEnd("PENDING")
          \/ Goto("counter") \/ Goto("flushes") \/ Goto("purge")
          \/ Goto("started") \/ Goto("passend") \/ Leave
      BY <1>15
      DEF NextNone, StopStartedCounter, RecheckPending, CounterOut,
          CounterInstall, OverrunAbort, PassEnd, PurgeEnd
    <2>2. \A j \in Irps : ~Moving(j)'
      BY <1>0, <1>2, <2>1, GotoFacts, TurnFacts DEF Leave, Statuses
    <2>3. UNCHANGED <<disp, result, armed, canceller, completed, toComplete>>
      BY <1>0, <1>15
      DEF NextNone, StopStartedCounter, RecheckPending, CounterOut,
          CounterInstall, OverrunAbort, PassEnd, PurgeEnd, Leave, At, Sections
    <2> QED  BY <1>1, <2>2, <2>3
  <1>16. ASSUME NEW i \in Irps, IoCancelIrp(i) PROVE OneOwner'
    <2> SUFFICES ASSUME NEW j \in Irps PROVE Owned(j)'
      BY DEF OneOwner
    <2>1. UNCHANGED <<lock, cs, disp, result, armed, completed, toComplete>>
      BY <1>16 DEF IoCancelIrp
    <2>2. canceller'[j] = "routine" => canceller[j] = "routine"
      BY <1>0, <1>16 DEF IoCancelIrp, TypeOK
    <2>3. (Moving(j)' => Moving(j)) /\ (Finishing(j)' => Finishing(j))
      BY <2>1 DEF Moving, Finishing
    <2> QED  BY <1>0, <2>1, <2>2, <2>3, NoNewClaim DEF OneOwner
  <1>17. ASSUME NEW i \in Irps, TakeCancelRoutine(i) PROVE OneOwner'
    <2> SUFFICES ASSUME NEW j \in Irps PROVE Owned(j)'
      BY DEF OneOwner
    <2>1. UNCHANGED <<lock, cs, disp, result, completed, toComplete>>
      BY <1>17 DEF TakeCancelRoutine
    <2>2. (Moving(j)' => Moving(j)) /\ (Finishing(j)' => Finishing(j))
      BY <2>1 DEF Moving, Finishing
    <2>3. armed' = [armed EXCEPT ![i] = FALSE]
      BY <1>17 DEF TakeCancelRoutine
    <2>4. canceller'[j] = "routine" =>
            canceller[j] = "routine" \/ (j = i /\ armed[j])
      BY <1>0, <1>17 DEF TakeCancelRoutine, TypeOK
    <2>5. CASE canceller'[j] = "routine" => canceller[j] = "routine"
      BY <1>0, <2>1, <2>2, <2>3, <2>5, NoNewClaim DEF OneOwner, TypeOK
    <2>6. CASE j = i /\ armed[j]
      <3>1. /\ ~armed'[j] /\ ~Moving(j) /\ ~Listed(j)
            /\ ~Finishing(j) /\ completed[j] = 0 /\ disp[j] # "new"
        BY <1>0, <2>3, <2>6 DEF OneOwner, Owned, TypeOK
      <3> QED  BY <2>1, <2>2, <3>1 DEF Owned, Listed
    <2> QED  BY <2>4, <2>5, <2>6
  <1>18. ASSUME NEW i \in Irps, CancelRoutine(i) PROVE OneOwner'
    <2> SUFFICES ASSUME NEW j \in Irps PROVE Owned(j)'
      BY DEF OneOwner
    <2>1. /\ UNCHANGED <<disp, result, armed, completed>>
          /\ canceller[i] = "routine"
          /\ canceller' = [canceller EXCEPT ![i] = "done"]
          /\ toComplete' = [toComplete EXCEPT ![Canceller(i)] = {i}]
      BY <1>18 DEF CancelRoutine
    <2>2. ~Moving(j)'
      <3>1. CASE AcquireForPass(Canceller(i), "next")
        BY <1>2, <3>1, AcquireFacts
      <3>2. CASE lock = None /\ UNCHANGED lock
        BY <1>2, <3>2
      <3> QED  BY <1>18, <3>1, <3>2 DEF CancelRoutine
    <2>3. Finishing(j)' => Finishing(j)
      BY <2>1 DEF Finishing
    <2>4. CASE j # i
      <3>1. canceller'[j] = canceller[j]
        BY <1>0, <2>1, <2>4 DEF TypeOK
      <3>2. \A t \in Threads : j \in toComplete'[t] => j \in toComplete[t]
        BY <1>0, <2>1, <2>4, ThreadFacts DEF TypeOK
      <3> QED
        BY <1>0, <2>1, <2>2, <2>3, <3>1, <3>2, NoNewClaim DEF OneOwner
    <2>5. CASE j = i
      <3>1. /\ ~armed[j] /\ ~Listed(j) /\ ~Finishing(j)
            /\ completed[j] = 0 /\ disp[j] # "new"
        BY <1>0, <2>1, <2>5 DEF OneOwner, Owned
      <3>2. \A t \in Threads : j \in toComplete'[t] => t = Canceller(i)
        BY <1>0, <2>1, <3>1, ThreadFacts DEF TypeOK, Listed
      <3>3. canceller'[j] # "routine"
        BY <1>0, <2>1, <2>5 DEF TypeOK
      <3> QED  BY <2>1, <2>2, <2>3, <3>1, <3>2, <3>3 DEF Owned
    <2> QED  BY <2>4, <2>5
  <1>19. ASSUME NEW i \in Irps, Return(i) PROVE OneOwner'
    <2> SUFFICES ASSUME NEW j \in Irps PROVE Owned(j)'
      BY DEF OneOwner
    <2>1. /\ UNCHANGED <<lock, cs, result, armed, canceller, toComplete>>
          /\ disp[i] = "finish" /\ disp' = [disp EXCEPT ![i] = "done"]
      BY <1>19 DEF Return
    <2>2. Moving(j)' => Moving(j)
      BY <2>1 DEF Moving
    <2>3. Finishing(j)' => Finishing(j)
      BY <1>0, <2>1 DEF Finishing, TypeOK
    <2>4. disp'[j] = "new" => disp[j] = "new"
      BY <1>0, <2>1 DEF TypeOK
    <2>5. CASE completed'[j] = completed[j]
      BY <1>0, <2>1, <2>2, <2>3, <2>4, <2>5, NoNewClaim DEF OneOwner
    <2>6. CASE completed'[j] # completed[j]
      <3>1. j = i /\ Finishing(j) /\ completed'[j] = completed[j] + 1
        BY <1>0, <1>19, <2>6 DEF Return, TypeOK, Finishing
      <3>2. /\ ~armed[j] /\ canceller[j] # "routine" /\ ~Moving(j) /\ ~Listed(j)
            /\ completed[j] = 0 /\ disp[j] # "new"
        BY <1>0, <2>1, <3>1 DEF OneOwner, Owned
      <3>3. ~Finishing(j)'
        BY <1>0, <2>1, <3>1 DEF Finishing, TypeOK
      <3> QED  BY <2>1, <2>2, <2>4, <3>1, <3>2, <3>3 DEF Owned, Listed
    <2> QED  BY <2>5, <2>6
  <1>20. ASSUME NEW w \in Workers,
                \/ Serve(w) \/ ServeReceive(w) \/ CancelQueue(w)
                \/ \E t \in Timers : TimeoutRoutine(w, t)
         PROVE  OneOwner'
    <2>1. UNCHANGED <<disp, result, armed, canceller, completed, toComplete>>
      BY <1>20 DEF Serve, ServeReceive, CancelQueue, TimeoutRoutine
    <2>2. \/ AcquireForPass(Worker(w), "next") \/ AcquireForPass(Worker(w), "passend")
          \/ Acquire(Worker(w), "purge") \/ (lock = None /\ UNCHANGED <<lock, cs>>)
      BY <1>20 DEF Serve, ServeReceive, CancelQueue, TimeoutRoutine
    <2>3. \A j \in Irps : ~Moving(j)'
      BY <1>2, <2>2, AcquireFacts
    <2> QED  BY <1>1, <2>1, <2>3
  <1>21. ASSUME NEW t \in Threads, NEW i \in Irps, CompleteQueued(t, i)
         PROVE  OneOwner'
    <2> SUFFICES ASSUME NEW j \in Irps PROVE Owned(j)'
      BY DEF OneOwner
    <2>1. /\ UNCHANGED <<lock, cs, disp, result, armed, canceller>>
          /\ i \in toComplete[t]
          /\ toComplete' = [toComplete EXCEPT ![t] = @ \ {i}]
          /\ completed' = [completed EXCEPT ![i] = @ + 1]
      BY <1>21 DEF CompleteQueued
    <2>2. (Moving(j)' => Moving(j)) /\ (Finishing(j)' => Finishing(j))
      BY <2>1 DEF Moving, Finishing
    <2>3. \A u \in Threads : j \in toComplete'[u] => j \in toComplete[u]
      BY <1>0, <2>1 DEF TypeOK
    <2>4. CASE j # i
      <3>1. completed'[j] = completed[j]
        BY <1>0, <2>1, <2>4 DEF TypeOK
      <3> QED
        BY <1>0, <2>1, <2>2, <2>3, <3>1, NoNewClaim DEF OneOwner
    <2>5. CASE j = i
      <3>1. Listed(j)
        BY <2>1, <2>5 DEF Listed
      <3>2. /\ ~armed[j] /\ canceller[j] # "routine" /\ ~Moving(j)
            /\ ~Finishing(j) /\ completed[j] = 0 /\ disp[j] # "new"
        BY <1>0, <3>1 DEF OneOwner, Owned
      <3>3. \A u \in Threads : j \notin toComplete'[u]
        <4>1. \A u \in Threads : j \in toComplete[u] => u = t
          BY <1>0, <2>1, <2>5 DEF OneOwner, Owned
        <4> QED  BY <1>0, <2>1, <2>3, <2>5, <4>1 DEF TypeOK
      <3>4. completed'[j] = 1
        BY <1>0, <2>1, <2>5, <3>2 DEF TypeOK
      <3> QED  BY <2>1, <2>2, <3>2, <3>3, <3>4 DEF Owned, Listed
    <2> QED  BY <2>4, <2>5
  <1>22. CASE UNCHANGED vars \/ \E t \in Timers : TimerFires(t)
    <2>1. UNCHANGED <<lock, cs, disp, result, armed, canceller, completed, toComplete>>
      BY <1>22 DEF vars, TimerFires
    <2>2. \A j \in Irps : Moving(j)' => Moving(j)
      BY <2>1 DEF Moving
    <2> QED  BY <1>1, <2>1, <2>2
  <1> QED
    BY <1>3, <1>7, <1>8, <1>9, <1>10, <1>11, <1>12, <1>13, <1>14, <1>15, <1>16,
       <1>17, <1>18, <1>19, <1>20, <1>21, <1>22
    DEF Next, Critical, Pass

-----------------------------------------------------------------------------
(* The theorems *)

\* The inductive invariant holds: types, the shape of the critical sections
\* and at most one owner for every IRP.
THEOREM OwnershipInvariant == Spec => []Ownership
  <1>1. Init => Ownership
    <2> SUFFICES ASSUME Init PROVE Ownership
      OBVIOUS
    <2>1. TypeOK
      <3>1. EmptyQueue \in QueueType
        BY DEF EmptyQueue, QueueType
      <3> QED
        BY <3>1, IdleType, BoundsAssumption DEF Init, TypeOK, Statuses
    <2>2. Sections
      BY DEF Init, Sections
    <2>3. OneOwner
      BY DEF Init, OneOwner, Owned, Moving, Listed, Finishing
    <2> QED  BY <2>1, <2>2, <2>3 DEF Ownership
  <1>2. Ownership /\ [Next]_vars => Ownership'
    BY TypeStep, SectionsStep, OwnerStep DEF Ownership
  <1> QED  BY <1>1, <1>2, PTL DEF Spec

\* Every variable keeps its type, whatever the IRPs, the processors, the
\* kinds of request and the timeouts are.
THEOREM TypeCorrect == Spec => []TypeOK
  <1>1. Ownership => TypeOK
    BY DEF Ownership
  <1> QED  BY <1>1, OwnershipInvariant, PTL

\* No IRP is completed twice, for any number of IRPs and processors: the
\* interlocked exchange of the cancel routine hands the right to complete an
\* IRP to exactly one of the dispatch routine, the pass, the purge and the
\* cancel routine.
THEOREM CompletedAtMostOnce == Spec => []AtMostOnce
  <1>1. Ownership => AtMostOnce
    BY DEF Ownership, OneOwner, Owned, AtMostOnce
  <1> QED  BY <1>1, OwnershipInvariant, PTL

-----------------------------------------------------------------------------
(* What the queue operators do to the members and the order of a queue *)

\* The entries of a list are what is at its places.
LEMMA ListFacts ==
  ASSUME NEW l \in Seq(Irps)
  PROVE  /\ Len(l) \in Nat /\ DOMAIN l = 1..Len(l)
         /\ \A k \in 1..Len(l) : l[k] \in Range(l) /\ l[k] \in Irps
         /\ \A i : i \in Range(l) => \E k \in 1..Len(l) : l[k] = i
         /\ Range(l) \subseteq Irps
         /\ l = <<>> <=> Range(l) = {}
         /\ l # <<>> => Len(l) # 0 /\ 1 \in 1..Len(l) /\ Head(l) = l[1]
  <1>1. Len(l) \in Nat /\ DOMAIN l = 1..Len(l) /\ \A k \in 1..Len(l) : l[k] \in Irps
    OBVIOUS
  <1>2. Range(l) = {l[k] : k \in 1..Len(l)}
    BY <1>1 DEF Range
  <1>3. l # <<>> => Len(l) # 0 /\ 1 \in 1..Len(l) /\ Head(l) = l[1]
    OBVIOUS
  <1>4. l = <<>> => Len(l) = 0
    OBVIOUS
  <1>5. l = <<>> <=> Range(l) = {}
    BY <1>1, <1>2, <1>3, <1>4
  <1> QED  BY <1>1, <1>2, <1>3, <1>5

\* Nothing is in the empty list.
LEMMA EmptyRange == Range(<<>>) = {}
  <1>1. <<>> \in Seq(Irps)
    OBVIOUS
  <1> QED  BY <1>1, ListFacts

\* A queue that is well linked has no IRP twice.
LEMMA LinkedFacts ==
  ASSUME NEW s \in QueueType, Linked(s)
  PROVE  /\ s.list \in Seq(Irps)
         /\ s.current # None => s.current \in Irps /\ s.current \in Members(s)
         /\ Members(s) \subseteq Irps
         /\ Range(s.list) \subseteq Members(s)
         /\ s.inQueue = Range(s.list) /\ s.isCurrent = {s.current} \ {None}
         /\ s.current \notin Range(s.list)
         /\ s.current = None => Members(s) = {} /\ s.list = <<>>
         /\ Members(s) \subseteq Range(s.list) \cup {s.current}
  <1>1. s.list \in Seq(Irps) /\ s.current \in Irps \cup {None}
    BY DEF QueueType
  <1>2. Range(s.list) \subseteq Irps
    BY <1>1, ListFacts
  <1>3. s.current = None => Range(s.list) = {}
    BY <1>1, ListFacts DEF Linked
  <1> QED  BY <1>1, <1>2, <1>3 DEF Linked, Members

\* ShiftQueue takes the current IRP out and makes the head of the list current.
LEMMA ShiftLinked ==
  ASSUME NEW s \in QueueType, Linked(s), s.current # None
  PROVE  /\ Linked(Shift(s))
         /\ Members(Shift(s)) = Members(s) \ {s.current}
         /\ Shift(s).current # s.current
         /\ Shift(s).current # None => Shift(s).current \in Range(s.list)
         /\ Range(Shift(s).list) \subseteq Range(s.list)
         /\ s.list = <<>> => Shift(s).current = None /\ Shift(s).list = <<>>
         /\ s.list # <<>> => /\ Shift(s).current = s.list[1]
                             /\ Len(Shift(s).list) = Len(s.list) - 1
                             /\ \A k \in 1..Len(Shift(s).list) :
                                  Shift(s).list[k] = s.list[k + 1]
  <1>1. s.list \in Seq(Irps) /\ s.current \in Irps /\ None \notin Irps
    BY BoundsAssumption DEF QueueType
  <1>2. CASE s.list = <<>>
    <2>1. Shift(s) = [s EXCEPT !.current = None, !.isCurrent = @ \ {s.current}]
      BY <1>2 DEF Shift
    <2>2. /\ Shift(s).current = None /\ Shift(s).list = s.list
          /\ Shift(s).isCurrent = s.isCurrent \ {s.current}
          /\ Shift(s).inQueue = s.inQueue
      BY <2>1 DEF QueueType
    <2>3. Range(s.list) = {}
      BY <1>1, <1>2, ListFacts
    <2>4. Linked(Shift(s))
      BY <1>1, <1>2, <2>2, <2>3 DEF Linked
    <2> QED  BY <1>1, <1>2, <2>2, <2>3, <2>4 DEF Members, Linked
  <1>3. CASE s.list # <<>>
    <2> DEFINE h == Head(s.list)
               l == Tail(s.list)
    <2>1. /\ Shift(s).current = h /\ Shift(s).list = l
          /\ Shift(s).isCurrent = (s.isCurrent \ {s.current}) \cup {h}
          /\ Shift(s).inQueue = s.inQueue \ {h}
      BY <1>3 DEF Shift, QueueType
    <2>2. /\ h = s.list[1] /\ h \in Irps /\ l \in Seq(Irps)
          /\ Len(s.list) \in Nat /\ Len(s.list) # 0 /\ Len(l) = Len(s.list) - 1
          /\ \A k \in 1..Len(l) : l[k] = s.list[k + 1]
      BY <1>1, <1>3
    <2> HIDE DEF h, l
    <2>3. 1 \in 1..Len(s.list) /\ \A k \in 1..Len(l) : k + 1 \in 1..Len(s.list) /\ k + 1 # 1
      BY <2>2
    <2>4. \A j, k \in 1..Len(l) : l[j] = l[k] => j = k
      <3> SUFFICES ASSUME NEW j \in 1..Len(l), NEW k \in 1..Len(l), l[j] = l[k]
                   PROVE  j = k
        OBVIOUS
      <3>1. s.list[j + 1] = s.list[k + 1]
        BY <2>2
      <3>2. j + 1 = k + 1
        BY <2>3, <3>1 DEF Linked
      <3> QED  BY <3>2
    <2>5. Range(l) = Range(s.list) \ {h}
      <3>1. Range(l) \subseteq Range(s.list)
        BY <1>1, <2>2, <2>3, ListFacts
      <3>2. h \notin Range(l)
        <4> SUFFICES ASSUME h \in Range(l) PROVE FALSE
          OBVIOUS
        <4>1. PICK k \in 1..Len(l) : l[k] = h
          BY <2>2, ListFacts
        <4>2. s.list[k + 1] = s.list[1]
          BY <2>2, <4>1
        <4> QED  BY <2>3, <4>2 DEF Linked
      <3>3. ASSUME NEW i \in Range(s.list), i # h PROVE i \in Range(l)
        <4>1. PICK k \in 1..Len(s.list) : s.list[k] = i
          BY <1>1, ListFacts
        <4>2. k # 1
          BY <2>2, <3>3, <4>1
        <4>3. k - 1 \in 1..Len(l) /\ (k - 1) + 1 = k
          BY <2>2, <4>2
        <4>4. l[k - 1] = i
          BY <2>2, <4>1, <4>3
        <4> QED  BY <2>2, <4>3, <4>4, ListFacts
      <3> QED  BY <3>1, <3>2, <3>3
    <2>6. h \in Range(s.list) /\ h # None /\ h # s.current
      BY <1>1, <2>2, <2>3, ListFacts DEF Linked
    <2>7. Linked(Shift(s))
      <3>1. Shift(s).isCurrent = {h} \ {None}
        BY <2>1, <2>6 DEF Linked
      <3>2. Shift(s).inQueue = Range(l) /\ h \notin Range(l)
        BY <2>1, <2>5 DEF Linked
      <3> QED  BY <2>1, <2>4, <2>6, <3>1, <3>2 DEF Linked
    <2>8. Members(Shift(s)) = Members(s) \ {s.current}
      BY <1>1, <2>1, <2>5, <2>6 DEF Members, Linked
    <2> QED  BY <1>3, <2>1, <2>2, <2>5, <2>6, <2>7, <2>8
  <1> QED  BY <1>2, <1>3

\* An IRP that is linked at the tail becomes a member behind all others.
LEMMA TailLinked ==
  ASSUME NEW s \in QueueType, Linked(s), s.current # None,
         NEW i \in Irps, i \notin Members(s)
  PROVE  /\ Linked(InsertTail(s, i))
         /\ Members(InsertTail(s, i)) = Members(s) \cup {i}
         /\ InsertTail(s, i).current = s.current
         /\ Range(InsertTail(s, i).list) = Range(s.list) \cup {i}
         /\ Len(InsertTail(s, i).list) = Len(s.list) + 1
         /\ InsertTail(s, i).list[Len(s.list) + 1] = i
         /\ \A k \in 1..Len(s.list) : InsertTail(s, i).list[k] = s.list[k]
  <1> DEFINE l == Append(s.list, i)
  <1>1. s.list \in Seq(Irps) /\ s.current \in Irps /\ None \notin Irps
    BY BoundsAssumption DEF QueueType
  <1>2. /\ InsertTail(s, i).current = s.current /\ InsertTail(s, i).list = l
        /\ InsertTail(s, i).isCurrent = s.isCurrent
        /\ InsertTail(s, i).inQueue = s.inQueue \cup {i}
    BY DEF InsertTail, QueueType
  <1>3. /\ l \in Seq(Irps) /\ Len(s.list) \in Nat /\ Len(l) = Len(s.list) + 1
        /\ l[Len(s.list) + 1] = i
        /\ \A k \in 1..Len(s.list) : l[k] = s.list[k]
    BY <1>1
  <1> HIDE DEF l
  <1>4. \A k \in 1..Len(l) : k \in 1..Len(s.list) \/ k = Len(s.list) + 1
    BY <1>3
  <1>4a. 1..Len(s.list) \subseteq 1..Len(l) /\ Len(s.list) + 1 \in 1..Len(l)
    BY <1>3
  <1>5. i \notin Range(s.list) /\ i # s.current
    BY <1>1 DEF Members
  <1>5a. \A k \in 1..Len(s.list) : s.list[k] # i
    BY <1>1, <1>5, ListFacts
  <1>6. \A j, k \in 1..Len(l) : l[j] = l[k] => j = k
    BY <1>3, <1>4, <1>5a DEF Linked
  <1>7. Range(l) = Range(s.list) \cup {i}
    <2>1. \A j \in Range(l) : j \in Range(s.list) \/ j = i
      BY <1>1, <1>3, <1>4, ListFacts
    <2>2. \A j \in Range(s.list) : j \in Range(l)
      BY <1>1, <1>3, <1>4a, ListFacts
    <2>3. i \in Range(l)
      BY <1>3, <1>4a, ListFacts
    <2> QED  BY <2>1, <2>2, <2>3
  <1>8. Linked(InsertTail(s, i))
    BY <1>1, <1>2, <1>5, <1>6, <1>7 DEF Linked
  <1> QED  BY <1>2, <1>3, <1>7, <1>8 DEF Members

\* An IRP that preempts the current one becomes current, with that one first in the list.
LEMMA PushLinked ==
  ASSUME NEW s \in QueueType, Linked(s), s.current # None,
         NEW i \in Irps, i \notin Members(s)
  PROVE  LET r == MakeCurrent(PushBack(s), i)
         IN  /\ Linked(r)
             /\ Members(r) = Members(s) \cup {i}
             /\ r.current = i
             /\ Range(r.list) = Range(s.list) \cup {s.current}
             /\ Len(r.list) = Len(s.list) + 1
             /\ r.list[1] = s.current
             /\ \A k \in 1..Len(s.list) : r.list[k + 1] = s.list[k]
  <1> DEFINE r == MakeCurrent(PushBack(s), i)
             l == <<s.current>> \o s.list
  <1>1. s.list \in Seq(Irps) /\ s.current \in Irps /\ None \notin Irps
    BY BoundsAssumption DEF QueueType
  <1>2. /\ r.current = i /\ r.list = l
        /\ r.isCurrent = (s.isCurrent \ {s.current}) \cup {i}
        /\ r.inQueue = s.inQueue \cup {s.current}
    BY DEF MakeCurrent, PushBack, QueueType
  <1>3. /\ l \in Seq(Irps) /\ Len(s.list) \in Nat /\ Len(l) = Len(s.list) + 1
        /\ l[1] = s.current
        /\ \A k \in 1..Len(s.list) : l[k + 1] = s.list[k]
    BY <1>1
  <1> HIDE DEF l, r
  <1>4. \A k \in 1..Len(l) : k = 1 \/ (k - 1 \in 1..Len(s.list) /\ (k - 1) + 1 = k)
    BY <1>3
  <1>5. 1 \in 1..Len(l) /\ \A k \in 1..Len(s.list) : k + 1 \in 1..Len(l)
    BY <1>3
  <1>6. \A k \in 1..Len(l) : k = 1 \/ l[k] = s.list[k - 1]
    BY <1>3, <1>4
  <1>7. \A k \in 1..Len(s.list) : s.list[k] # s.current
    BY <1>1, ListFacts DEF Linked
  <1>8. \A j, k \in 1..Len(l) : l[j] = l[k] => j = k
    <2> SUFFICES ASSUME NEW j \in 1..Len(l), NEW k \in 1..Len(l), l[j] = l[k]
                 PROVE  j = k
      OBVIOUS
    <2>1. CASE j = 1 \/ k = 1
      BY <1>3, <1>4, <1>6, <1>7, <2>1
    <2>2. CASE j # 1 /\ k # 1
      <3>1. s.list[j - 1] = s.list[k - 1]
        BY <1>6, <2>2
      <3>2. j - 1 = k - 1
        BY <1>4, <2>2, <3>1 DEF Linked
      <3> QED  BY <3>2
    <2> QED  BY <2>1, <2>2
  <1>9. Range(l) = Range(s.list) \cup {s.current}
    <2>1. ASSUME NEW j \in Range(l) PROVE j \in Range(s.list) \/ j = s.current
      <3>1. PICK k \in 1..Len(l) : l[k] = j
        BY <1>3, ListFacts
      <3>2. j = s.current \/ (k - 1 \in 1..Len(s.list) /\ s.list[k - 1] = j)
        BY <1>3, <1>4, <1>6, <3>1
      <3> QED  BY <1>1, <3>2, ListFacts
    <2>2. ASSUME NEW j \in Range(s.list) PROVE j \in Range(l)
      <3>1. PICK k \in 1..Len(s.list) : s.list[k] = j
        BY <1>1, ListFacts
      <3>2. k + 1 \in 1..Len(l) /\ l[k + 1] = j
        BY <1>3, <1>5, <3>1
      <3> QED  BY <1>3, <3>2, ListFacts
    <2>3. s.current \in Range(l)
      BY <1>3, <1>5, ListFacts
    <2> QED  BY <2>1, <2>2, <2>3
  <1>10. i # s.current /\ i \notin Range(s.list) /\ i # None
    BY <1>1 DEF Members
  <1>11. r.isCurrent = {i} \ {None}
    BY <1>2, <1>10 DEF Linked
  <1>12. Linked(r)
    BY <1>2, <1>8, <1>9, <1>10, <1>11 DEF Linked
  <1>13. Members(r) = Members(s) \cup {i}
    BY <1>1, <1>2, <1>9, <1>10 DEF Members
  <1> QED  BY <1>2, <1>3, <1>9, <1>12, <1>13 DEF r

\* An IRP becomes current in an empty queue.
LEMMA InstallLinked ==
  ASSUME NEW s \in QueueType, Linked(s), s.current = None, NEW i \in Irps
  PROVE  /\ Linked(MakeCurrent(s, i))
         /\ Members(MakeCurrent(s, i)) = {i}
         /\ MakeCurrent(s, i).current = i
         /\ MakeCurrent(s, i).list = <<>>
  <1>1. /\ MakeCurrent(s, i).current = i /\ MakeCurrent(s, i).list = s.list
        /\ MakeCurrent(s, i).isCurrent = s.isCurrent \cup {i}
        /\ MakeCurrent(s, i).inQueue = s.inQueue
    BY DEF MakeCurrent, QueueType
  <1>2. s.list = <<>> /\ Range(s.list) = {} /\ i # None /\ s.isCurrent = {}
    BY LinkedFacts, ListFacts, BoundsAssumption DEF Linked
  <1>3. s.inQueue = {}
    BY <1>2 DEF Linked
  <1> QED  BY <1>1, <1>2, <1>3 DEF Linked, Members

\* The IRP that ends the only one in the queue takes its place.
LEMMA SupersedeLinked ==
  ASSUME NEW s \in QueueType, Linked(s), s.current # None, s.list = <<>>,
         NEW i \in Irps, i \notin Members(s)
  PROVE  LET r == MakeCurrent(Shift(InsertTail(s, i)), i)
         IN  Linked(r) /\ Members(r) = {i} /\ r.current = i /\ r.list = <<>>
  <1> DEFINE u == InsertTail(s, i)
             v == Shift(u)
             r == MakeCurrent(v, i)
  <1>1. /\ u \in QueueType /\ Linked(u) /\ u.current = s.current /\ u.current # None
        /\ Members(u) = Members(s) \cup {i}
        /\ Len(u.list) = Len(s.list) + 1 /\ u.list[Len(s.list) + 1] = i
    BY LinkType, TailLinked
  <1>2. Len(s.list) = 0
    OBVIOUS
  <1>3. u.list \in Seq(Irps) /\ Len(u.list) = 1 /\ u.list[1] = i /\ u.list # <<>>
    BY <1>1, <1>2 DEF QueueType
  <1> HIDE DEF u
  <1>4. /\ v \in QueueType /\ Linked(v) /\ v.current = i /\ Len(v.list) = 0
        /\ Members(v) = Members(u) \ {s.current}
    BY <1>1, <1>3, ShiftType, ShiftLinked
  <1> HIDE DEF v
  <1>5. v.list = <<>>
    BY <1>4 DEF QueueType
  <1>6. Members(v) = {i}
    BY <1>4, <1>5, BoundsAssumption, ListFacts, LinkedFacts
  <1>7. /\ r.current = i /\ r.list = v.list /\ r.isCurrent = v.isCurrent \cup {i}
        /\ r.inQueue = v.inQueue
    BY <1>4 DEF MakeCurrent, QueueType
  <1> HIDE DEF r
  <1>8. v.isCurrent \cup {i} = v.isCurrent
    BY <1>4, BoundsAssumption DEF Linked
  <1>9. Linked(r) /\ Members(r) = {i} /\ r.current = i /\ r.list = <<>>
    BY <1>4, <1>5, <1>6, <1>7, <1>8 DEF Linked, Members
  <1> QED  BY <1>9 DEF r, v, u

\* RemoveEntryList takes one IRP out and keeps the order of the others.
LEMMA WithoutFacts ==
  ASSUME NEW l \in Seq(Irps), NEW p \in 1..Len(l),
         \A j, k \in 1..Len(l) : l[j] = l[k] => j = k
  PROVE  /\ Without(l, l[p]) \in Seq(Irps)
         /\ Len(Without(l, l[p])) = Len(l) - 1
         /\ \A k \in 1..(Len(l) - 1) :
              /\ k < p => Without(l, l[p])[k] = l[k]
              /\ k >= p => Without(l, l[p])[k] = l[k + 1]
  <1> DEFINE m == Without(l, l[p])
             i == l[p]
  <1>1. Len(l) \in Nat /\ Len(l) - 1 \in Nat /\ p \in Nat /\ i \in Irps
    OBVIOUS
  <1>2. \A k \in 1..(Len(l) - 1) : l[k] \in Irps /\ l[k + 1] \in Irps
    BY <1>1
  <1>3. m = [k \in 1..(Len(l) - 1) |->
               IF \E j \in 1..k : l[j] = i THEN l[k + 1] ELSE l[k]]
    BY DEF Without
  <1> HIDE DEF i, m
  <1>4. m \in [1..(Len(l) - 1) -> Irps]
    BY <1>2, <1>3
  <1>5. m \in Seq(Irps) /\ Len(m) = Len(l) - 1
    BY <1>1, <1>4
  <1>6. ASSUME NEW k \in 1..(Len(l) - 1)
        PROVE  (\E j \in 1..k : l[j] = i) <=> k >= p
    <2>1. \A j \in 1..k : j \in 1..Len(l)
      BY <1>1
    <2>2. \A j \in 1..k : l[j] = i => j = p
      BY <2>1 DEF i
    <2>3. k >= p => p \in 1..k
      BY <1>1
    <2>4. p \in 1..k => k >= p
      BY <1>1
    <2> QED  BY <2>2, <2>3, <2>4 DEF i
  <1>7. \A k \in 1..(Len(l) - 1) : k < p <=> ~(k >= p)
    BY <1>1
  <1>8. \A k \in 1..(Len(l) - 1) : m[k] = IF k >= p THEN l[k + 1] ELSE l[k]
    BY <1>3, <1>6
  <1> QED  BY <1>5, <1>7, <1>8 DEF m, i

\* RemoveEntryList leaves a well-linked queue.
LEMMA UnlinkLinked ==
  ASSUME NEW s \in QueueType, Linked(s), NEW i \in Range(s.list)
  PROVE  /\ Linked(Unlink(s, i))
         /\ Members(Unlink(s, i)) = Members(s) \ {i}
         /\ Unlink(s, i).current = s.current
         /\ Range(Unlink(s, i).list) = Range(s.list) \ {i}
         /\ \A a \in 1..Len(Unlink(s, i).list) :
              \E b \in 1..Len(s.list) :
                /\ Unlink(s, i).list[a] = s.list[b]
                /\ b = a \/ b = a + 1
  <1> DEFINE l == s.list
             m == Without(s.list, i)
             n == Len(l)
  <1>1. l \in Seq(Irps) /\ n \in Nat /\ i \in Irps /\ s.current # None
    BY ListFacts, LinkedFacts DEF QueueType
  <1>2. PICK p \in 1..n : l[p] = i
    BY <1>1, ListFacts
  <1>3. /\ Unlink(s, i).current = s.current /\ Unlink(s, i).list = m
        /\ Unlink(s, i).isCurrent = s.isCurrent
        /\ Unlink(s, i).inQueue = s.inQueue \ {i}
    BY DEF Unlink, QueueType
  <1>4. \A j, k \in 1..n : l[j] = l[k] => j = k
    BY DEF Linked
  <1>5. /\ m \in Seq(Irps) /\ Len(m) = n - 1
        /\ \A k \in 1..(n - 1) : /\ k < p => m[k] = l[k]
                                 /\ k >= p => m[k] = l[k + 1]
    BY <1>1, <1>2, <1>4, WithoutFacts
  <1> HIDE DEF m, l, n
  <1> DEFINE at(k) == IF k < p THEN k ELSE k + 1
  <1>6. \A k \in 1..(n - 1) :
          at(k) \in 1..n /\ at(k) # p /\ (at(k) = k \/ at(k) = k + 1)
    BY <1>1, <1>2
  <1>6a. \A j, k \in 1..(n - 1) : at(j) = at(k) => j = k
    BY <1>1, <1>2
  <1>6b. \A b \in 1..n : b # p => \E k \in 1..(n - 1) : at(k) = b
    <2> SUFFICES ASSUME NEW b \in 1..n, b # p PROVE \E k \in 1..(n - 1) : at(k) = b
      OBVIOUS
    <2>1. CASE b < p
      BY <1>1, <1>2, <2>1
    <2>2. CASE b > p
      <3>1. b - 1 \in 1..(n - 1) /\ at(b - 1) = b
        BY <1>1, <1>2, <2>2
      <3> QED  BY <3>1
    <2> QED  BY <1>1, <1>2, <2>1, <2>2
  <1>6c. ASSUME NEW k \in 1..(n - 1) PROVE m[k] = l[at(k)]
    <2>0. (k < p => m[k] = l[k]) /\ (k >= p => m[k] = l[k + 1])
      BY <1>5
    <2>1. k < p => at(k) = k
      OBVIOUS
    <2>2. k >= p => at(k) = k + 1
      BY <1>1, <1>2
    <2>3. k < p \/ k >= p
      BY <1>1, <1>2
    <2> QED  BY <2>0, <2>1, <2>2, <2>3
  <1> HIDE DEF at
  <1>7. \A j, k \in 1..(n - 1) : m[j] = m[k] => j = k
    BY <1>4, <1>6, <1>6a, <1>6c
  <1>8. ASSUME NEW j \in Range(m) PROVE j \in Range(l) /\ j # i
    <2>1. PICK k \in 1..(n - 1) : m[k] = j
      BY <1>5, ListFacts
    <2>2. at(k) \in 1..n /\ at(k) # p /\ l[at(k)] = j
      BY <1>6, <1>6c, <2>1
    <2>3. j \in Range(l)
      BY <1>1, <2>2, ListFacts DEF n
    <2> QED  BY <1>2, <1>4, <2>2, <2>3
  <1>9. ASSUME NEW j \in Range(l), j # i PROVE j \in Range(m)
    <2>1. PICK b \in 1..n : l[b] = j
      BY <1>1, ListFacts DEF n
    <2>2. b # p
      BY <1>2, <1>9, <2>1
    <2>3. PICK k \in 1..(n - 1) : at(k) = b
      BY <1>6b, <2>2
    <2>4. k \in 1..Len(m) /\ m[k] = j
      BY <1>5, <1>6c, <2>1, <2>3
    <2> QED  BY <1>5, <2>4, ListFacts
  <1>10. Range(m) = Range(l) \ {i}
    BY <1>8, <1>9
  <1>11. Linked(Unlink(s, i))
    BY <1>1, <1>3, <1>5, <1>7, <1>10 DEF Linked, l
  <1>12. Members(Unlink(s, i)) = Members(s) \ {i}
    <2>1. i # s.current
      BY DEF Linked
    <2> QED  BY <1>3, <1>10, <2>1 DEF Members, l
  <1>13. \A a \in 1..(n - 1) : \E b \in 1..n : m[a] = l[b] /\ (b = a \/ b = a + 1)
    BY <1>6, <1>6c
  <1> QED  BY <1>3, <1>5, <1>10, <1>11, <1>12, <1>13 DEF l, m, n

-----------------------------------------------------------------------------
(* What a step does to the critical section and to the rights on IRPs *)

\* A turn of a pass goes on at another label, or ends with a result.
LEMMA GotoEffects ==
  ASSUME cs \in SectionType
  PROVE  /\ \A pc \in Labels : Goto(pc) =>
              /\ cs'.pc = pc /\ cs'.irp = cs.irp /\ cs'.start = cs.start
              /\ cs'.done = cs.done /\ cs'.st = cs.st /\ cs'.ret = cs.ret
         /\ \A ret \in Statuses : GotoNext(ret) =>
              cs'.pc = "next" /\ ~cs'.start /\ cs'.ret = ret
         /\ \A ret \in Statuses : GotoEnd(ret) =>
              cs'.pc = "passend" /\ ~cs'.start /\ cs'.ret = ret
  BY DEF Goto, GotoNext, GotoEnd, Idle, SectionType

\* A thread that takes the lock has no IRP and no result yet.
LEMMA LockEffects ==
  ASSUME NEW t, NEW pc \in Labels
  PROVE  /\ Acquire(t, pc) =>
              /\ lock = None /\ lock' = t
              /\ cs'.pc = pc /\ ~cs'.start /\ cs'.ret = "PENDING"
         /\ AcquireForPass(t, pc) =>
              /\ lock = None /\ lock' = t
              /\ cs'.pc = pc /\ ~cs'.start /\ cs'.ret = "PENDING"
  BY DEF Acquire, AcquireForPass, Idle

\* StartIrp and StartCurrentIrp begin the turn of an IRP.
LEMMA TurnEffects ==
  ASSUME cs \in SectionType
  PROVE  /\ \A i \in Irps : \A s, n : StartIrp(i, s, n) =>
              /\ q' = MakeCurrent(s, i)
              /\ cs'.pc = "process" /\ cs'.irp = i /\ cs'.start
              /\ cs'.ret = cs.ret
         /\ NextTaken =>
              /\ cs'.pc = "process" /\ cs'.irp = q.current
              /\ cs'.start = cs.start /\ cs'.ret = cs.ret
         /\ NextSkipped => /\ cs'.pc = "next" /\ cs'.start = cs.start
                           /\ cs'.ret = cs.ret
         /\ PassAgain => /\ cs'.pc = "next" /\ cs'.start = cs.start
                         /\ cs'.ret = cs.ret
  BY DEF StartIrp, NextTaken, NextSkipped, PassAgain, At, SectionType

\* The transfer of n bytes.
LEMMA MoveEffects ==
  ASSUME cs \in SectionType, NEW n \in Int, NEW st \in Statuses, Move(n, st)
  PROVE  /\ cs'.pc = "stop" /\ cs'.irp = cs.irp /\ cs'.start = cs.start
         /\ cs'.done = (n > 0) /\ cs'.st = st /\ cs'.ret = cs.ret
  <1> DEFINE b == n > 0
  <1>1. cs' = [cs EXCEPT !.pc = "stop", !.done = b, !.st = st]
    BY DEF Move
  <1> HIDE DEF b
  <1>2. /\ cs'.pc = "stop" /\ cs'.irp = cs.irp /\ cs'.start = cs.start
        /\ cs'.done = b /\ cs'.st = st /\ cs'.ret = cs.ret
    BY <1>1 DEF SectionType
  <1> QED  BY <1>2 DEF b

\* Different threads have different names.
LEMMA ThreadNames ==
  /\ \A i, j \in Irps : /\ Dispatch(i) = Dispatch(j) => i = j
                        /\ Canceller(i) = Canceller(j) => i = j
                        /\ Dispatch(i) # Canceller(j)
                        /\ Dispatch(i) # None /\ Canceller(i) # None
  /\ \A w \in Workers, i \in Irps : Worker(w) # Dispatch(i) /\ Worker(w) # Canceller(i)
  /\ \A w \in Workers : Worker(w) # None
  BY ThreadFacts DEF Dispatch, Canceller, Worker

\* Whoever completes an IRP that could be cancelled has it listed, unless IoCancelIrp
\* was faster; no other IRP is concerned.
LEMMA CompleteEffects ==
  ASSUME TypeOK, lock # None, NEW i \in Irps, NEW st \in Statuses,
         CompleteIrp(i, st), UNCHANGED canceller, Cancelled(i)
  PROVE  /\ canceller'[i] = "routine" \/ Listed(i)'
         /\ \A j \in Irps : Listed(j) => Listed(j)'
         /\ \A j \in Irps : j # i /\ Cancelled(j) => Cancelled(j)'
         /\ \A t \in Threads : t # lock => toComplete'[t] = toComplete[t]
  <1>1. CASE armed[i]
    <2>1. /\ toComplete' = [toComplete EXCEPT ![lock] = @ \cup {i}]
          /\ armed' = [armed EXCEPT ![i] = FALSE]
          /\ lock \in Threads
      BY <1>1 DEF CompleteIrp, ToComplete, TypeOK
    <2> QED  BY <2>1 DEF TypeOK, Listed, Cancelled
  <1>2. CASE ~armed[i]
    BY <1>2 DEF CompleteIrp, Cancelled, Listed
  <1> QED  BY <1>1, <1>2

-----------------------------------------------------------------------------
(* Groups of steps that keep the placement of the IRPs *)

\* The conjuncts of the invariant and the types they rest on.
LEMMA PlacementFacts ==
  ASSUME Ownership, Placement
  PROVE  /\ TypeOK /\ Sections /\ OneOwner
         /\ cs \in SectionType /\ q \in QueueType /\ cs.ret \in Statuses
         /\ Linked(q) /\ AtCurrent /\ CountsAlone /\ Claimed /\ Kept /\ Undecided
         /\ Returned /\ Uncalled
         /\ Queued \subseteq Irps /\ None \notin Irps
         /\ q.current # None => q.current \in Irps /\ q.current \in Queued
         /\ Range(q.list) \subseteq Queued
  <1>1. q \in QueueType /\ Linked(q)
    BY DEF Ownership, TypeOK, Placement
  <1> QED
    BY <1>1, LinkedFacts, BoundsAssumption
    DEF Ownership, TypeOK, Placement, SectionType, Queued

\* What ShiftQueue leaves of the queue: nothing that counts becomes current.
LEMMA ShiftEffects ==
  ASSUME Ownership, Placement, q.current # None, q' = Shift(q)
  PROVE  /\ Linked(q') /\ Queued' = Queued \ {q.current}
         /\ Range(q'.list) \subseteq Range(q.list)
         /\ q'.current # None => /\ q'.current \in Range(q.list)
                                 /\ ~Counting(q'.current)
  <1>1. /\ Linked(q') /\ Members(q') = Members(q) \ {q.current}
        /\ Range(q'.list) \subseteq Range(q.list)
        /\ q'.current # None => q'.current \in Range(q.list)
    BY PlacementFacts, ShiftLinked
  <1> QED  BY <1>1, PlacementFacts DEF Queued, CountsAlone, Counting

\* The current IRP leaves the queue; who took it lists it for completion, unless
\* its cancel routine runs or its dispatch routine will complete it.
LEMMA CurrentLeaves ==
  ASSUME Ownership, Placement, lock # None, NEW c \in Irps, c = q.current, q' = Shift(q),
         UNCHANGED <<kind, disp, result, completed, info, canceller, lock>>,
         \A j \in Irps : j # c /\ Cancelled(j) => Cancelled(j)',
         \A j \in Irps : Listed(j) => Listed(j)',
         \A t \in Threads : t # lock => toComplete'[t] = toComplete[t],
         cs.pc \in {"next", "stop", "recheck", "flushes", "passend", "purge"},
         \/ UNCHANGED cs /\ cs.pc \in {"flushes", "passend", "purge"}
         \/ cs'.pc = "next" /\ ~cs'.start /\ cs.pc # "flushes",
         \/ /\ cs'.ret = cs.ret
            /\ canceller'[c] = "routine" \/ Listed(c)'
         \/ /\ lock = Dispatch(c) /\ cs.ret = "PENDING"
            /\ cs'.ret # "PENDING" /\ Cancelled(c)'
  PROVE  Placement'
  <1>0. /\ TypeOK /\ Linked(q) /\ AtCurrent /\ CountsAlone /\ Claimed /\ Kept
        /\ Undecided /\ Returned /\ Uncalled /\ Queued \subseteq Irps
        /\ c \in Queued /\ q.current # None
    BY PlacementFacts, BoundsAssumption
  <1>1. /\ Linked(q') /\ Queued' = Queued \ {c}
        /\ Range(q'.list) \subseteq Range(q.list)
        /\ q'.current # None => q'.current \in Range(q.list) /\ ~Counting(q'.current)
    BY <1>0, ShiftEffects
  <1>2. \A j \in Irps : ~Moving(j)' /\ ~JustSent'
    BY DEF Moving, JustSent
  <1>3. \A j \in Irps : TakenOut(j) => TakenOut(j)' /\ UNCHANGED cs
    BY DEF TakenOut
  <1>4. AtCurrent'
    <2>1. CASE UNCHANGED cs /\ cs.pc \in {"flushes", "passend", "purge"}
      <3>1. cs.pc = "flushes" => cs.irp \in Irps /\ cs.irp # c
        BY <1>0, PlacementFacts DEF AtCurrent, Sections, AtIrp
      <3> QED  BY <1>0, <1>1, <2>1, <3>1 DEF AtCurrent
    <2>2. CASE cs'.pc = "next" /\ ~cs'.start
      BY <2>2 DEF AtCurrent
    <2> QED  BY <2>1, <2>2
  <1>5. CountsAlone'
    <2>1. ~(cs'.pc = "decide")
      OBVIOUS
    <2> QED  BY <1>0, <1>1, <1>2, <2>1 DEF CountsAlone, Counting
  <1>6. Claimed'
    <2>1. \A j \in Queued : j # c => Cancelled(j)
      BY <1>0 DEF Claimed, Moving, AtCurrent
    <2> QED  BY <1>0, <1>1, <2>1 DEF Claimed
  <1>7. Kept'
    <2> SUFFICES ASSUME NEW j \in Irps, InDriver(j)',
                        lock' = Dispatch(j) => cs'.pc # "decide" /\ cs'.ret = "PENDING"
                 PROVE  Held(j)'
      BY DEF Kept
    <2>1. InDriver(j)
      BY DEF InDriver
    <2>2. CASE j = c
      BY <2>2 DEF Held
    <2>3. CASE j # c
      <3>1. lock = Dispatch(j) => cs.pc # "decide" /\ cs.ret = "PENDING"
        OBVIOUS
      <3>2. Held(j)
        BY <1>0, <2>1, <3>1 DEF Kept
      <3> QED  BY <1>1, <1>3, <2>3, <3>2 DEF Held
    <2> QED  BY <2>2, <2>3
  <1>8. Undecided'
    <2> SUFFICES ASSUME NEW j \in Irps, lock = Dispatch(j), cs'.ret # "PENDING"
                 PROVE  Cancelled(j)' /\ j \notin Queued'
      BY DEF Undecided
    <2>1. CASE cs'.ret = cs.ret
      <3>1. Cancelled(j) /\ j \notin Queued
        BY <1>0, <2>1 DEF Undecided
      <3> QED  BY <1>0, <1>1, <3>1
    <2>2. CASE lock = Dispatch(c) /\ Cancelled(c)'
      <3>1. j = c
        BY <1>0, <2>2, ThreadNames
      <3> QED  BY <1>1, <2>2, <3>1
    <2> QED  BY <2>1, <2>2
  <1>9. Returned' /\ Uncalled'
    <2>1. Returned'
      BY <1>0 DEF Returned
    <2>2. Uncalled'
      BY <1>0, ThreadFacts DEF Uncalled
    <2> QED  BY <2>1, <2>2
  <1> QED  BY <1>1, <1>4, <1>5, <1>6, <1>7, <1>8, <1>9 DEF Placement

\* Nothing happens to the queue, and the section goes on at a label where it works on
\* no IRP, or on the XOFF_COUNTER whose character it has just sent.
LEMMA SectionMoves ==
  ASSUME Ownership, Placement, lock # None,
         UNCHANGED <<kind, disp, result, completed, info, canceller, armed,
                     toComplete, q, lock>>,
         cs.pc \in {"next", "stop", "recheck", "passend", "purge"},
         cs'.pc \in {"next", "counter", "passend", "purge", "started"},
         cs'.ret = cs.ret,
         cs.pc = "stop" => cs.start,
         cs'.start => cs.start /\ cs'.pc = "counter",
         cs'.pc = "counter" =>
           /\ cs.pc \in {"stop", "recheck"}
           /\ cs'.irp = cs.irp /\ kind[cs.irp] = "XOFF_COUNTER",
         JustSent /\ cs'.pc # "counter" => kind[cs.irp] # "XOFF_COUNTER"
  PROVE  Placement'
  <1>0. /\ TypeOK /\ Linked(q) /\ AtCurrent /\ CountsAlone /\ Claimed /\ Kept
        /\ Undecided /\ Returned /\ Uncalled /\ Queued \subseteq Irps
        /\ q.current # None => q.current \in Irps /\ q.current \in Queued
    BY PlacementFacts
  <1>1. UNCHANGED Queued
    BY DEF Queued
  <1>2. \A j \in Irps : ~Moving(j)' /\ ~TakenOut(j) /\ ~TakenOut(j)'
    BY DEF Moving, TakenOut
  <1>3. \A j \in Irps : (Cancelled(j)' <=> Cancelled(j)) /\ (Listed(j)' <=> Listed(j))
                       /\ (InDriver(j)' <=> InDriver(j))
    BY DEF Cancelled, Listed, InDriver
  <1>4. AtCurrent'
    BY <1>0 DEF AtCurrent
  <1>5. CountsAlone'
    <2>1. /\ cs'.pc # "decide" /\ q'.current = q.current /\ q'.list = q.list
          /\ \A j \in Irps : Counting(j)' <=> Counting(j)
      BY DEF Counting
    <2>2. ASSUME q.current # None, Counting(q.current), ~JustSent' PROVE q.list = <<>>
      <3>1. CASE JustSent
        <4>1. cs.irp = q.current
          BY <1>0, <3>1 DEF AtCurrent, JustSent
        <4>2. cs'.pc # "counter"
          BY <2>2 DEF JustSent
        <4> QED  BY <2>2, <3>1, <4>1, <4>2 DEF Counting
      <3>2. CASE ~JustSent
        BY <1>0, <2>2, <3>2 DEF CountsAlone
      <3> QED  BY <3>1, <3>2
    <2>3. ASSUME q'.current # None, Counting(q.current)', ~JustSent' PROVE q'.list = <<>>
      BY <1>0, <2>1, <2>2, <2>3
    <2>4. JustSent' => cs'.pc = "counter"
      BY DEF JustSent
    <2>5. \A i \in Irps : i \in Range(q'.list) \/ disp'[i] = "new"
                           => info'[i] = 0 \/ kind'[i] # "XOFF_COUNTER"
      BY <1>0 DEF CountsAlone
    <2> QED  BY <2>1, <2>3, <2>4, <2>5 DEF CountsAlone
  <1>6. Claimed'
    <2>1. \A j \in Queued : Cancelled(j)
      BY <1>0 DEF Claimed, Moving
    <2> QED  BY <1>0, <1>1, <1>3, <2>1 DEF Claimed
  <1>7. Kept'
    <2> SUFFICES ASSUME NEW j \in Irps, InDriver(j)',
                        lock' = Dispatch(j) => cs'.pc # "decide" /\ cs'.ret = "PENDING"
                 PROVE  Held(j)'
      BY DEF Kept
    <2>1. Held(j)
      BY <1>0, <1>3 DEF Kept
    <2> QED  BY <1>1, <1>2, <1>3, <2>1 DEF Held
  <1>8. Undecided'
    BY <1>0, <1>1, <1>3 DEF Undecided
  <1>9. Linked(q') /\ Returned' /\ Uncalled'
    BY <1>0 DEF Returned, Uncalled
  <1> QED  BY <1>4, <1>5, <1>6, <1>7, <1>8, <1>9 DEF Placement

\* A step outside the lock, or one that takes it or gives it back, that leaves the
\* queue and every right alone.
LEMMA NothingMoves ==
  ASSUME Ownership, Placement, UNCHANGED <<kind, info, q>>,
         \/ UNCHANGED <<lock, cs>>
         \/ lock = None /\ lock' = None
         \/ /\ lock # None /\ lock[1] # "dispatch" /\ cs.pc \in {"passend", "purge"}
            /\ lock' = None
         \/ /\ lock = None /\ cs'.pc \in {"next", "passend", "purge"}
            /\ ~cs'.start /\ \A j \in Irps : lock' # Dispatch(j) /\ lock' # Canceller(j),
         \A j \in Irps :
           /\ Cancelled(j) => Cancelled(j)'
           /\ InDriver(j)' => InDriver(j) /\ (Held(j) => Held(j)')
           /\ disp'[j] = "new" => disp[j] = "new"
           /\ disp'[j] = "done" /\ result'[j] # "PENDING" =>
                completed'[j] > 0 \/ (disp[j] = "done" /\ result[j] # "PENDING"
                                     /\ completed'[j] = completed[j])
           /\ canceller'[j] # "done" => canceller[j] # "done"
           /\ toComplete'[Canceller(j)] \subseteq toComplete[Canceller(j)]
  PROVE  Placement'
  <1>0. /\ TypeOK /\ Linked(q) /\ AtCurrent /\ CountsAlone /\ Claimed /\ Kept
        /\ Undecided /\ Returned /\ Uncalled /\ Queued \subseteq Irps
        /\ q.current # None => q.current \in Irps /\ q.current \in Queued
    BY PlacementFacts
  <1>1. UNCHANGED Queued
    BY DEF Queued
  <1>2. \A j \in Irps : lock' = Dispatch(j) => lock = Dispatch(j) /\ UNCHANGED cs
    BY ThreadNames
  <1>3. \A j \in Irps : lock' = Canceller(j) => lock = Canceller(j)
    BY ThreadNames
  <1>4. AtCurrent'
    <2>1. CASE UNCHANGED <<lock, cs>>
      <3>1. lock # None /\ cs.pc = "flushes" => cs.irp \in Irps
        BY PlacementFacts DEF Sections, AtIrp
      <3> QED  BY <1>0, <1>1, <2>1, <3>1 DEF AtCurrent
    <2>2. CASE lock' = None
      BY <2>2 DEF AtCurrent
    <2>3. CASE cs'.pc \in {"next", "passend", "purge"} /\ ~cs'.start
      BY <2>3 DEF AtCurrent
    <2> QED  BY <2>1, <2>2, <2>3
  <1>5. CountsAlone'
    <2>1. JustSent' <=> JustSent
      BY DEF JustSent
    <2>2. JustSent' => UNCHANGED <<lock, cs>>
      BY DEF JustSent
    <2>3. \A j \in Irps : Counting(j)' <=> Counting(j)
      BY DEF Counting
    <2> QED  BY <1>0, <1>2, <2>1, <2>2, <2>3 DEF CountsAlone
  <1>6. Claimed'
    <2>1. \A j \in Irps : Moving(j) => Moving(j)'
      BY DEF Moving
    <2> QED  BY <1>0, <1>1, <2>1 DEF Claimed
  <1>7. Kept'
    <2> SUFFICES ASSUME NEW j \in Irps, InDriver(j)',
                        lock' = Dispatch(j) => cs'.pc # "decide" /\ cs'.ret = "PENDING"
                 PROVE  Held(j)'
      BY DEF Kept
    <2>1. lock = Dispatch(j) => lock' = Dispatch(j) /\ UNCHANGED cs
      BY ThreadFacts, ThreadNames
    <2>2. Held(j)
      BY <1>0, <2>1 DEF Kept
    <2> QED  BY <2>2
  <1>8. Undecided'
    BY <1>0, <1>1, <1>2 DEF Undecided
  <1>9. Linked(q') /\ Returned' /\ Uncalled'
    <2>1. Returned'
      BY <1>0 DEF Returned
    <2>2. Uncalled'
      BY <1>0, <1>3 DEF Uncalled
    <2> QED  BY <1>0, <2>1, <2>2
  <1> QED  BY <1>4, <1>5, <1>6, <1>7, <1>8, <1>9 DEF Placement

\* A dispatch routine that decided on its IRP, or ended its start, gives the lock back.
LEMMA DispatchLeaves ==
  ASSUME Ownership, Placement, NEW i \in Irps, lock = Dispatch(i), Leave,
         cs.pc \in {"decide", "started"},
         UNCHANGED <<kind, info, completed, canceller, toComplete>>,
         \A j \in Irps : j # i => armed'[j] = armed[j] /\ result'[j] = result[j],
         \A j \in Irps : j # i => (j \in Queued' <=> j \in Queued),
         q' \in QueueType, Linked(q'),
         \A j \in Range(q'.list) : j \in Range(q.list) \/ (j = i /\ cs.pc = "decide"),
         q'.current # None /\ Counting(q'.current) => q'.list = <<>>,
         i \in Queued' => Cancelled(i)',
         InDriver(i)' => Held(i)'
  PROVE  Placement'
  <1>0. /\ TypeOK /\ AtCurrent /\ CountsAlone /\ Claimed /\ Kept /\ Undecided
        /\ Returned /\ Uncalled /\ Queued \subseteq Irps
    BY PlacementFacts
  <1>1. lock # None /\ lock' = None /\ disp' = [disp EXCEPT ![i] = "finish"]
    BY ThreadFacts DEF Leave
  <1>1a. disp'[i] = "finish" /\ \A j \in Irps : j # i => disp'[j] = disp[j]
    BY <1>0, <1>1 DEF TypeOK
  <1>2. Queued' \subseteq Irps
    BY LinkedFacts DEF Queued
  <1>3. AtCurrent' /\ Undecided'
    BY <1>1, ThreadNames DEF AtCurrent, Undecided
  <1>4. CountsAlone'
    <2>1. ~JustSent' /\ \A j \in Irps : lock' # Dispatch(j)
      BY <1>1, ThreadNames DEF JustSent
    <2>2. \A j \in Irps : disp'[j] # "new" \/ disp[j] = "new"
      BY <1>0, <1>1 DEF TypeOK
    <2>3. \A j \in Irps :
             j \in Range(q'.list) \/ disp'[j] = "new"
               => info[j] = 0 \/ kind[j] # "XOFF_COUNTER"
      BY <1>0, <2>2 DEF CountsAlone
    <2> QED  BY <2>1, <2>3 DEF CountsAlone, Counting
  <1>5. Claimed'
    <2>1. \A j \in Queued : Cancelled(j)
      BY <1>0 DEF Claimed, Moving
    <2>2. ASSUME NEW j \in Queued' PROVE Cancelled(j)'
      <3>1. CASE j = i
        BY <3>1
      <3>2. CASE j # i
        <4>1. j \in Irps /\ Cancelled(j)
          BY <1>2, <2>1, <3>2
        <4> QED  BY <3>2, <4>1 DEF Cancelled
      <3> QED  BY <3>1, <3>2
    <2> QED  BY <2>2 DEF Claimed
  <1>6. Kept'
    <2> SUFFICES ASSUME NEW j \in Irps, j # i, InDriver(j)' PROVE Held(j)'
      BY DEF Kept
    <2>1. InDriver(j)
      BY <1>1a DEF InDriver
    <2>2. Held(j)
      BY <1>0, <2>1, ThreadNames DEF Kept
    <2> QED  BY <2>2 DEF Held, Listed, TakenOut
  <1>7. Returned' /\ Uncalled'
    <2>1. Returned'
      BY <1>0, <1>1a DEF Returned
    <2>2. Uncalled'
      BY <1>0, <1>1, ThreadNames DEF Uncalled
    <2> QED  BY <2>1, <2>2
  <1> QED  BY <1>3, <1>4, <1>5, <1>6, <1>7 DEF Placement

\* StartIrp puts the IRP of a dispatch routine in front of the queue.
LEMMA DispatchStarts ==
  ASSUME Ownership, Placement, NEW i \in Irps, Deciding(i),
         NEW s, NEW n, StartIrp(i, s, n),
         UNCHANGED <<kind, disp, result, info, completed, canceller, lock>>,
         Linked(q'), q'.current = i, i \in Queued',
         \A j \in Irps : j # i /\ j \in Queued => j \in Queued' \/ canceller[j] = "routine"
                                                           \/ Listed(j)',
         \A j \in Queued' : j = i \/ (j \in Queued /\ Cancelled(j)'),
         \A j \in Range(q'.list) : info[j] = 0 \/ kind[j] # "XOFF_COUNTER",
         Cancelled(i)',
         \A j \in Irps : Listed(j) => Listed(j)',
         \A t \in Threads : t # lock => toComplete'[t] = toComplete[t]
  PROVE  Placement'
  <1>0. /\ TypeOK /\ AtCurrent /\ CountsAlone /\ Claimed /\ Kept /\ Undecided
        /\ Returned /\ Uncalled /\ Queued \subseteq Irps /\ cs \in SectionType
    BY PlacementFacts
  <1>1. /\ lock = Dispatch(i) /\ lock # None /\ cs.pc = "decide"
        /\ cs'.pc = "process" /\ cs'.irp = i /\ cs'.start /\ cs'.ret = "PENDING"
    BY <1>0, TurnEffects DEF Deciding, At, AtCurrent
  <1>2. \A j \in Irps : lock = Dispatch(j) => j = i
    BY <1>1, ThreadNames
  <1>3. info[i] = 0 \/ kind[i] # "XOFF_COUNTER"
    BY <1>0, <1>1 DEF CountsAlone
  <1>4. AtCurrent' /\ Undecided'
    BY <1>1, <1>2 DEF AtCurrent, Undecided
  <1>5. CountsAlone'
    BY <1>0, <1>1, <1>3 DEF CountsAlone, Counting, JustSent
  <1>6. Claimed'
    BY DEF Claimed
  <1>7. Kept'
    <2> SUFFICES ASSUME NEW j \in Irps, j # i, InDriver(j)' PROVE Held(j)'
      BY DEF Kept, Held
    <2>1. Held(j)
      BY <1>0, <1>2 DEF Kept, InDriver
    <2>2. ~TakenOut(j)
      BY <1>1 DEF TakenOut
    <2> QED  BY <2>1, <2>2 DEF Held
  <1>8. Returned' /\ Uncalled'
    <2>1. Returned'
      BY <1>0 DEF Returned
    <2>2. Uncalled'
      BY <1>0, <1>1, ThreadFacts, ThreadNames DEF Uncalled
    <2> QED  BY <2>1, <2>2
  <1> QED  BY <1>4, <1>5, <1>6, <1>7, <1>8 DEF Placement

-----------------------------------------------------------------------------
(* Every step keeps the placement *)

\* The thread that decides on its IRP.
LEMMA DecideStep ==
  ASSUME NoPreemptedCounter, Ownership, Placement, Next, NEW i \in Irps, Decide(i)
  PROVE  Placement'
  <1>0. /\ TypeOK /\ cs \in SectionType /\ q \in QueueType /\ q' \in QueueType
        /\ Linked(q) /\ AtCurrent /\ CountsAlone /\ Claimed /\ Kept /\ Undecided
        /\ Queued \subseteq Irps /\ Range(q.list) \subseteq Queued
        /\ q.current # None => q.current \in Irps /\ q.current \in Queued
    <2>1. TypeOK'
      BY TypeStep DEF Ownership
    <2> QED  BY <2>1, PlacementFacts DEF TypeOK
  <1>1. lock = Dispatch(i) /\ lock # None /\ cs.pc \in {"decide", "started"}
    BY DEF Decide, RefuseCancelled, RefuseSecond, StartAtOnce, StartImmediate, MustQueue,
           Enqueue, FlushBehindCounter, SupersedeCounter, StartedPending, StartedDone,
           Deciding, At
  <1>2. /\ ~JustSent /\ \A j \in Irps : ~Moving(j) /\ ~TakenOut(j)
        /\ \A j \in Queued : Cancelled(j)
    BY <1>0, <1>1 DEF JustSent, Moving, TakenOut, Claimed
  <1>3. q.current # None /\ Counting(q.current) => q.list = <<>>
    BY <1>0, <1>2 DEF CountsAlone
  <1>4. cs.pc = "decide" => i \notin Queued /\ Cancelled(i)
    BY <1>0, <1>1 DEF Undecided
  <1>5. CASE RefuseCancelled(i) \/ RefuseSecond(i) \/ FlushBehindCounter(i)
    <2>1. PICK st \in Statuses \ {"PENDING"} : Refuse(i, st) /\ cs.pc = "decide"
      BY <1>5 DEF RefuseCancelled, RefuseSecond, FlushBehindCounter, MustQueue, Deciding,
                  At, Statuses
    <2>2. /\ Leave /\ UNCHANGED <<kind, info, completed, canceller, toComplete, q>>
          /\ armed' = [armed EXCEPT ![i] = FALSE]
          /\ result' = [result EXCEPT ![i] = IF armed[i] THEN st ELSE "PENDING"]
      BY <2>1 DEF Refuse, NoPending
    <2>3. /\ result'[i] = IF armed[i] THEN st ELSE "PENDING"
          /\ \A j \in Irps : j # i => armed'[j] = armed[j] /\ result'[j] = result[j]
      BY <1>0, <2>2 DEF TypeOK
    <2>4. InDriver(i)' => Held(i)'
      <3>1. InDriver(i)' => canceller[i] = "routine"
        BY <1>4, <2>1, <2>3 DEF InDriver, Cancelled, Statuses
      <3> QED  BY <2>2, <3>1 DEF Held
    <2>5. UNCHANGED Queued
      BY <2>2 DEF Queued
    <2> QED  BY <1>0, <1>1, <1>3, <1>4, <2>1, <2>2, <2>3, <2>4, <2>5, DispatchLeaves
  <1>6. CASE StartedPending(i)
    <2>1. /\ Leave /\ UNCHANGED <<kind, info, completed, canceller, toComplete, q, armed>>
          /\ result' = [result EXCEPT ![i] = "PENDING"]
          /\ cs.pc = "started" /\ cs.ret = "PENDING"
      BY <1>6 DEF StartedPending, At
    <2>2. \A j \in Irps : j # i => result'[j] = result[j]
      BY <1>0, <2>1 DEF TypeOK
    <2>3. UNCHANGED Queued
      BY <2>1 DEF Queued
    <2>4. i \in Queued => Cancelled(i)'
      BY <1>2, <2>1 DEF Cancelled
    <2>5. InDriver(i)' => Held(i)'
      <3> SUFFICES ASSUME InDriver(i)' PROVE Held(i)'
        OBVIOUS
      <3>1. disp[i] = "busy" /\ result[i] = "none"
        BY <1>1, PlacementFacts, ThreadFacts DEF Sections
      <3>2. InDriver(i)
        BY <2>1, <3>1 DEF InDriver
      <3> QED  BY <3>2, <1>0, <1>1, <1>2, <2>1, <2>3 DEF Kept, Held, Listed
    <2>6. /\ \A j \in Irps : j # i => armed'[j] = armed[j] /\ result'[j] = result[j]
          /\ \A j \in Irps : j # i => (j \in Queued' <=> j \in Queued)
          /\ i \in Queued' => Cancelled(i)'
      BY <2>1, <2>2, <2>3, <2>4
    <2>7. /\ q' \in QueueType /\ Linked(q')
          /\ \A j \in Range(q'.list) : j \in Range(q.list) \/ (j = i /\ cs.pc = "decide")
          /\ q'.current # None /\ Counting(q'.current) => q'.list = <<>>
      BY <1>0, <1>3, <2>1
    <2>8. UNCHANGED <<kind, info, completed, canceller, toComplete>> /\ Leave
      BY <2>1
    <2> QED  BY <1>1, <2>5, <2>6, <2>7, <2>8, DispatchLeaves
  <1>7. CASE StartedDone(i)
    <2>1. /\ Leave /\ UNCHANGED <<kind, info, completed, canceller, toComplete>>
          /\ armed' = [armed EXCEPT ![i] = FALSE]
          /\ result' = [result EXCEPT ![i] = IF armed[i] THEN cs.ret ELSE "PENDING"]
          /\ q' = IF q.current = i THEN Shift(q) ELSE q
          /\ cs.pc = "started" /\ cs.ret # "PENDING"
      BY <1>7 DEF StartedDone, NoPending, At
    <2>2. /\ result'[i] = IF armed[i] THEN cs.ret ELSE "PENDING"
          /\ \A j \in Irps : j # i => armed'[j] = armed[j] /\ result'[j] = result[j]
      BY <1>0, <2>1 DEF TypeOK
    <2>3. Cancelled(i) /\ (i \in Queued => i = q.current)
      BY <1>0, <1>1, <2>1 DEF Undecided
    <2>4. InDriver(i)' => Held(i)'
      <3>1. cs.ret \in Statuses
        BY PlacementFacts
      <3>2. InDriver(i)' => canceller[i] = "routine"
        BY <2>1, <2>2, <2>3, <3>1 DEF InDriver, Cancelled, Statuses
      <3> QED  BY <2>1, <3>2 DEF Held
    <2>5. /\ Linked(q') /\ Queued' = Queued \ {i}
          /\ Range(q'.list) \subseteq Range(q.list)
          /\ q'.current # None /\ Counting(q'.current) => q'.list = <<>>
      <3>1. CASE q.current = i
        BY <2>1, <3>1, ShiftEffects, BoundsAssumption
      <3>2. CASE q.current # i
        <4>1. q' = q /\ i \notin Queued
          BY <2>1, <2>3, <3>2
        <4> QED  BY <1>0, <1>3, <4>1 DEF Queued
      <3> QED  BY <3>1, <3>2
    <2>6. Leave /\ UNCHANGED <<kind, info, completed, canceller, toComplete>>
      BY <2>1
    <2> QED  BY <1>0, <1>1, <2>2, <2>4, <2>5, <2>6, DispatchLeaves
  <1>8. CASE Enqueue(i)
    <2>1. /\ Leave /\ UNCHANGED <<kind, info, completed, canceller, toComplete, armed>>
          /\ q' = InsertTail(q, i) /\ result' = [result EXCEPT ![i] = "PENDING"]
          /\ cs.pc = "decide" /\ q.current # None /\ ~Counting(q.current)
      BY <1>8 DEF Enqueue, MustQueue, Deciding, At
    <2>2. \A j \in Irps : j # i => armed'[j] = armed[j] /\ result'[j] = result[j]
      BY <1>0, <2>1 DEF TypeOK
    <2>3. /\ Linked(q') /\ Queued' = Queued \cup {i} /\ q'.current = q.current
          /\ Range(q'.list) = Range(q.list) \cup {i}
      BY <1>0, <1>4, <2>1, TailLinked DEF Queued
    <2>4. Cancelled(i)' /\ Held(i)'
      BY <1>4, <2>1, <2>3 DEF Cancelled, Held
    <2>5. Leave /\ UNCHANGED <<kind, info, completed, canceller, toComplete>>
      BY <2>1
    <2> QED  BY <1>0, <1>1, <2>1, <2>2, <2>3, <2>4, <2>5, DispatchLeaves
  <1>9. CASE StartAtOnce(i)
    <2>1. /\ StartIrp(i, q, amount) /\ Deciding(i) /\ q.current = None
          /\ UNCHANGED <<kind, disp, result, info, completed, canceller, lock, armed,
                         toComplete>>
          /\ cs.pc = "decide"
      BY <1>9 DEF StartAtOnce, Deciding, At
    <2>2. /\ Linked(q') /\ Queued' = {i} /\ q'.current = i /\ q'.list = <<>>
          /\ Queued = {} /\ Range(q'.list) = {}
      <3>1. q' = MakeCurrent(q, i)
        BY <2>1 DEF StartIrp
      <3>2. Linked(q') /\ Queued' = {i} /\ q'.current = i /\ q'.list = <<>>
        BY <1>0, <2>1, <3>1, InstallLinked DEF Queued
      <3>3. Queued = {}
        BY <1>0, <2>1, LinkedFacts DEF Queued
      <3> QED  BY <3>2, <3>3, EmptyRange
    <2>3. Cancelled(i)' /\ \A j \in Irps : Listed(j) => Listed(j)'
      BY <1>4, <2>1 DEF Cancelled, Listed
    <2> QED  BY <2>1, <2>2, <2>3, DispatchStarts
  <1>10. CASE StartImmediate(i)
    <2>1. /\ StartIrp(i, PushBack(q), amount) /\ Deciding(i) /\ q.current # None
          /\ UNCHANGED <<kind, disp, result, info, completed, canceller, lock, armed,
                         toComplete>>
          /\ cs.pc = "decide" /\ kind[i] = "IMMEDIATE_CHAR"
      BY <1>10 DEF StartImmediate, Deciding, At
    <2>2. /\ Linked(q') /\ Queued' = Queued \cup {i} /\ q'.current = i
          /\ Range(q'.list) = Range(q.list) \cup {q.current}
      <3>1. q' = MakeCurrent(PushBack(q), i)
        BY <2>1 DEF StartIrp
      <3> QED  BY <1>0, <1>4, <2>1, <3>1, PushLinked DEF Queued
    <2>3. \A j \in Irps : kind[j] # "XOFF_COUNTER"
      <3>1. \A j \in Irps : kind[j] \in Kinds
        BY <1>0 DEF TypeOK
      <3> QED  BY <2>1, <3>1 DEF NoPreemptedCounter
    <2>4. Cancelled(i)' /\ \A j \in Irps : Listed(j) => Listed(j)'
      BY <1>4, <2>1 DEF Cancelled, Listed
    <2>5. \A j \in Queued : Cancelled(j)'
      BY <1>2, <2>1 DEF Cancelled
    <2>6. \A j \in Range(q'.list) : info[j] = 0 \/ kind[j] # "XOFF_COUNTER"
      BY <1>0, <2>1, <2>2, <2>3
    <2> QED  BY <2>1, <2>2, <2>4, <2>5, <2>6, DispatchStarts
  <1>11. CASE SupersedeCounter(i)
    <2>1. PICK c \in Irps : c = q.current /\ c # i
      BY <1>0, <1>4, <1>11 DEF SupersedeCounter, MustQueue, Deciding, At
    <2>2. /\ StartIrp(i, Shift(InsertTail(q, i)), amount + WriteLength(i))
          /\ Deciding(i) /\ q.current # None /\ Counting(q.current)
          /\ CompleteIrp(c, "MORE_WRITES")
          /\ UNCHANGED <<kind, disp, result, info, completed, canceller, lock>>
          /\ cs.pc = "decide"
      BY <1>11, <2>1 DEF SupersedeCounter, MustQueue, Deciding, At
    <2>3. /\ Linked(q') /\ Queued' = {i} /\ q'.current = i /\ Range(q'.list) = {}
          /\ Queued = {c}
      <3>1. q' = MakeCurrent(Shift(InsertTail(q, i)), i)
        BY <2>2 DEF StartIrp
      <3>2. q.list = <<>> /\ i \notin Queued
        BY <1>3, <1>4, <2>2
      <3>3. Linked(q') /\ Queued' = {i} /\ q'.current = i /\ q'.list = <<>>
        BY <1>0, <2>2, <3>1, <3>2, SupersedeLinked DEF Queued
      <3>4. Range(q'.list) = {} /\ Range(q.list) = {}
        BY <3>2, <3>3, EmptyRange
      <3> QED  BY <1>0, <2>1, <2>2, <3>3, <3>4 DEF Queued, Members
    <2>4. /\ canceller'[c] = "routine" \/ Listed(c)'
          /\ \A j \in Irps : Listed(j) => Listed(j)'
          /\ Cancelled(i)'
          /\ \A t \in Threads : t # lock => toComplete'[t] = toComplete[t]
      <3>1. "MORE_WRITES" \in Statuses /\ Cancelled(c)
        BY <1>2, <2>3 DEF Statuses
      <3> QED  BY <1>0, <1>1, <1>4, <2>1, <2>2, <3>1, CompleteEffects
    <2> QED  BY <2>1, <2>2, <2>3, <2>4, DispatchStarts
  <1> QED  BY <1>5, <1>6, <1>7, <1>8, <1>9, <1>10, <1>11 DEF Decide

\* StartCurrentIrp takes the cancel routine of the current IRP.
LEMMA TakenStep ==
  ASSUME Ownership, Placement, NextTaken PROVE Placement'
  <1>0. /\ TypeOK /\ cs \in SectionType /\ AtCurrent /\ CountsAlone /\ Claimed /\ Kept
        /\ Undecided /\ Returned /\ Uncalled /\ Linked(q) /\ Queued \subseteq Irps
    BY PlacementFacts
  <1>1. /\ lock # None /\ cs.pc = "next" /\ armed' = [armed EXCEPT ![q.current] = FALSE]
        /\ UNCHANGED <<kind, disp, result, canceller, info, completed, q, lock, toComplete>>
        /\ q.current \in Irps
    BY PlacementFacts DEF NextTaken, At
  <1>2. PICK c \in Irps : c = q.current
    BY <1>1
  <1>3. /\ cs'.pc = "process" /\ cs'.irp = c /\ ~cs'.start /\ cs'.ret = cs.ret
        /\ ~cs.start /\ ~JustSent /\ ~JustSent'
    BY <1>0, <1>1, <1>2, TurnEffects DEF AtCurrent, JustSent, SectionType
  <1>4. /\ UNCHANGED Queued /\ c \in Queued /\ Moving(c)'
        /\ \A j \in Irps : j # c /\ Cancelled(j) => Cancelled(j)'
    <2>1. UNCHANGED Queued /\ c \in Queued
      BY <1>0, <1>1, <1>2, PlacementFacts DEF Queued
    <2>2. Moving(c)'
      BY <1>1, <1>3 DEF Moving
    <2>3. \A j \in Irps : j # c /\ Cancelled(j) => Cancelled(j)'
      BY <1>0, <1>1, <1>2 DEF Cancelled, TypeOK
    <2> QED  BY <2>1, <2>2, <2>3
  <1>5. AtCurrent'
    BY <1>1, <1>2, <1>3 DEF AtCurrent
  <1>6. CountsAlone'
    BY <1>0, <1>1, <1>3 DEF CountsAlone, Counting
  <1>7. Claimed'
    <2>1. \A j \in Queued : Cancelled(j)
      BY <1>0, <1>1 DEF Claimed, Moving
    <2> QED  BY <1>0, <1>4, <2>1 DEF Claimed
  <1>8. Kept'
    <2> SUFFICES ASSUME NEW j \in Irps, InDriver(j)',
                        lock' = Dispatch(j) => cs'.pc # "decide" /\ cs'.ret = "PENDING"
                 PROVE  Held(j)'
      BY DEF Kept
    <2>1. Held(j) /\ ~TakenOut(j)
      BY <1>0, <1>1, <1>3 DEF Kept, InDriver, TakenOut
    <2> QED  BY <1>1, <1>4, <2>1 DEF Held, Listed
  <1>9. Undecided'
    <2>1. \A j \in Irps : lock = Dispatch(j) /\ cs.ret # "PENDING"
                            => Cancelled(j) /\ j \notin Queued
      BY <1>0, <1>1 DEF Undecided
    <2> QED  BY <1>1, <1>3, <1>4, <2>1 DEF Undecided
  <1>10. Linked(q') /\ Returned' /\ Uncalled'
    BY <1>0, <1>1 DEF Returned, Uncalled
  <1> QED  BY <1>5, <1>6, <1>7, <1>8, <1>9, <1>10 DEF Placement

\* A transfer.
LEMMA TransferStep ==
  ASSUME Ownership, Placement, Transfer \/ Hold \/ Satisfy PROVE Placement'
  <1>0. /\ TypeOK /\ cs \in SectionType /\ AtCurrent /\ CountsAlone /\ Claimed /\ Kept
        /\ Undecided /\ Returned /\ Uncalled /\ Linked(q) /\ Queued \subseteq Irps
        /\ q.current # None => q.current \in Queued
    BY PlacementFacts
  <1>1. lock # None /\ cs.pc = "process" /\ cs.irp \in Irps
    BY PlacementFacts DEF Transfer, Hold, Satisfy, At, Sections, AtIrp
  <1>2. PICK c \in Irps : c = cs.irp /\ c = q.current
    BY <1>0, <1>1 DEF AtCurrent
  <1>3. info[c] \in Int /\ info[c] >= 0 /\ RequestLength(c) \in Int
        /\ (kind[c] = "XOFF_COUNTER" => RequestLength(c) = 1)
    <2>1. info[c] \in 0..Length /\ Length \in Int /\ RequestLength(c) \in 0..Length
      BY <1>0, LengthFacts, BoundsAssumption DEF TypeOK
    <2>2. kind[c] = "XOFF_COUNTER" => RequestLength(c) = 1
      BY DEF RequestLength, WriteLength
    <2> QED  BY <2>1, <2>2
  <1>4. PICK n \in Int, st \in Statuses :
          /\ Move(n, st)
          /\ n > 0 /\ kind[c] = "XOFF_COUNTER" => st = "SUCCESS"
          /\ n = 0 \/ n > 0
    <2>1. CASE Transfer
      <3>1. PICK n \in 0..(RequestLength(c) - info[c]) :
              Move(n, IF info[c] + n = RequestLength(c) THEN "SUCCESS" ELSE "PENDING")
        BY <1>2, <2>1 DEF Transfer
      <3>2. n \in Int /\ (n = 0 \/ n > 0)
            /\ (n > 0 /\ kind[c] = "XOFF_COUNTER" => info[c] + n = RequestLength(c))
        BY <1>3
      <3>3. "SUCCESS" \in Statuses /\ "PENDING" \in Statuses
        BY DEF Statuses
      <3> QED  BY <3>1, <3>2, <3>3
    <2>2. CASE Hold \/ Satisfy
      BY <2>2 DEF Hold, Satisfy, Statuses
    <2> QED  BY <2>1, <2>2
  <1>5. /\ info' = [info EXCEPT ![c] = @ + n]
        /\ UNCHANGED <<kind, disp, result, armed, canceller, completed, q, lock, toComplete>>
        /\ cs'.pc = "stop" /\ cs'.irp = c /\ cs'.start = cs.start /\ cs'.ret = cs.ret
        /\ cs'.done = (n > 0) /\ cs'.st = st
    BY <1>0, <1>2, <1>4, MoveEffects DEF Move
  <1>6. /\ UNCHANGED Queued
        /\ \A j \in Irps : /\ Moving(j)' <=> Moving(j)
                           /\ Cancelled(j)' <=> Cancelled(j)
                           /\ InDriver(j)' <=> InDriver(j)
                           /\ ~TakenOut(j)
                           /\ Held(j) => Held(j)'
    <2>1. UNCHANGED Queued
      BY <1>5 DEF Queued
    <2>2. \A j \in Irps : /\ Moving(j)' <=> Moving(j)
                          /\ Cancelled(j)' <=> Cancelled(j)
                          /\ InDriver(j)' <=> InDriver(j)
                          /\ ~TakenOut(j)
      BY <1>1, <1>2, <1>5 DEF Moving, Cancelled, InDriver, TakenOut
    <2> QED  BY <1>5, <2>1, <2>2 DEF Held, Listed
  <1>7. AtCurrent'
    BY <1>0, <1>1, <1>2, <1>5 DEF AtCurrent
  <1>8. CountsAlone'
    <2>1. \A j \in Irps : j # c => info'[j] = info[j]
      BY <1>0, <1>5 DEF TypeOK
    <2>2. c \notin Range(q.list) /\ disp[c] # "new"
      <3>1. c \notin Range(q.list)
        BY <1>0, <1>2 DEF Linked
      <3>2. CASE cs.start
        <4>1. lock = Dispatch(c) /\ Sections
          BY <1>0, <1>1, <1>2, <3>2, PlacementFacts DEF AtCurrent
        <4> QED  BY <1>1, <3>1, <4>1, ThreadFacts DEF Sections
      <3>3. CASE ~cs.start
        <4>1. Moving(c) /\ Owned(c)
          BY <1>1, <1>2, <3>3, PlacementFacts DEF OneOwner, Moving
        <4> QED  BY <3>1, <4>1 DEF Owned
      <3> QED  BY <3>1, <3>2, <3>3
    <2>3. \A j \in Irps : j \in Range(q.list) \/ disp[j] = "new"
                            => info'[j] = 0 \/ kind[j] # "XOFF_COUNTER"
      BY <1>0, <2>1, <2>2 DEF CountsAlone
    <2>4. ASSUME n = 0 PROVE info'[c] = info[c]
      BY <1>0, <1>3, <1>5, <2>4 DEF TypeOK
    <2>5. ~(n > 0) => n = 0
      BY <1>4
    <2>6. ASSUME kind[c] = "XOFF_COUNTER", info'[c] # 0, ~JustSent' PROVE q.list = <<>>
      <3>1. n = 0
        BY <1>1, <1>5, <2>5, <2>6 DEF JustSent
      <3>2. Counting(c) /\ ~JustSent
        BY <1>1, <2>4, <2>6, <3>1 DEF Counting, JustSent
      <3>3. c # None
        BY BoundsAssumption
      <3> QED  BY <1>0, <1>2, <3>2, <3>3 DEF CountsAlone
    <2>7. JustSent' /\ kind[c] = "XOFF_COUNTER" => cs'.st = "SUCCESS"
      BY <1>4, <1>5 DEF JustSent
    <2> QED  BY <1>2, <1>5, <2>3, <2>6, <2>7 DEF CountsAlone, Counting
  <1>9. Claimed' /\ Kept' /\ Undecided'
    <2>1. Claimed'
      BY <1>0, <1>6 DEF Claimed
    <2>2. Kept'
      BY <1>0, <1>1, <1>5, <1>6 DEF Kept
    <2>3. Undecided'
      BY <1>0, <1>1, <1>5, <1>6 DEF Undecided
    <2> QED  BY <2>1, <2>2, <2>3
  <1>10. Linked(q') /\ Returned' /\ Uncalled'
    BY <1>0, <1>5 DEF Returned, Uncalled
  <1> QED  BY <1>7, <1>8, <1>9, <1>10 DEF Placement

\* StopCurrentIrp puts the cancel routine back, or the IRP on queueToComplete.
LEMMA StopTakenStep ==
  ASSUME Ownership, Placement, StopTaken PROVE Placement'
  <1>0. /\ TypeOK /\ cs \in SectionType /\ AtCurrent /\ CountsAlone /\ Claimed /\ Kept
        /\ Undecided /\ Returned /\ Uncalled /\ Linked(q) /\ Queued \subseteq Irps
        /\ q.current # None => q.current \in Queued
        /\ cs.ret \in Statuses
    BY PlacementFacts
  <1>1. lock # None /\ lock \in Threads /\ cs.pc = "stop" /\ cs.irp \in Irps /\ ~cs.start
    BY PlacementFacts DEF StopTaken, At, Sections, AtIrp, TypeOK
  <1>2. PICK c \in Irps : c = cs.irp /\ c = q.current /\ c \in Queued
    BY <1>0, <1>1, BoundsAssumption DEF AtCurrent
  <1>3. UNCHANGED <<kind, disp, result, canceller, info, completed, lock>>
    BY <1>1 DEF StopTaken
  <1>4. \/ /\ armed' = [armed EXCEPT ![c] = TRUE] /\ Goto("recheck")
           /\ UNCHANGED <<q, toComplete>>
        \/ /\ q' = Shift(q) /\ toComplete' = [toComplete EXCEPT ![lock] = @ \cup {c}]
           /\ GotoNext(cs.ret) /\ UNCHANGED armed
    BY <1>2 DEF StopTaken, ToComplete
  <1>5. CASE /\ q' = Shift(q) /\ toComplete' = [toComplete EXCEPT ![lock] = @ \cup {c}]
             /\ GotoNext(cs.ret) /\ UNCHANGED armed
    <2>1. cs'.pc = "next" /\ ~cs'.start /\ cs'.ret = cs.ret
      BY <1>0, <1>5, GotoEffects
    <2>2. /\ Listed(c)' /\ \A j \in Irps : Listed(j) => Listed(j)'
          /\ \A t \in Threads : t # lock => toComplete'[t] = toComplete[t]
      BY <1>0, <1>1, <1>5 DEF Listed, TypeOK
    <2>3. \A j \in Irps : Cancelled(j) => Cancelled(j)'
      BY <1>3, <1>5 DEF Cancelled
    <2> QED  BY <1>1, <1>2, <1>3, <1>5, <2>1, <2>2, <2>3, CurrentLeaves
  <1>6. CASE /\ armed' = [armed EXCEPT ![c] = TRUE] /\ Goto("recheck")
             /\ UNCHANGED <<q, toComplete>>
    <2>1. /\ cs'.pc = "recheck" /\ cs'.irp = cs.irp /\ ~cs'.start
          /\ cs'.done = cs.done /\ cs'.st = cs.st /\ cs'.ret = cs.ret
      BY <1>0, <1>1, <1>6, GotoEffects DEF Labels
    <2>2. UNCHANGED Queued
      BY <1>6 DEF Queued
    <2>3. /\ Cancelled(c)' /\ \A j \in Irps : Cancelled(j) => Cancelled(j)'
          /\ \A j \in Irps : Held(j) => Held(j)'
      <3>1. Cancelled(c)' /\ \A j \in Irps : Cancelled(j) => Cancelled(j)'
        BY <1>0, <1>3, <1>6 DEF Cancelled, TypeOK
      <3>2. \A j \in Irps : Held(j) => Held(j)'
        BY <1>1, <1>3, <1>6, <2>2 DEF Held, Listed, TakenOut
      <3> QED  BY <3>1, <3>2
    <2>4. AtCurrent'
      BY <1>0, <1>1, <1>2, <1>6, <2>1 DEF AtCurrent
    <2>5. CountsAlone'
      <3>1. JustSent' <=> JustSent
        BY <1>1, <1>3, <2>1 DEF JustSent
      <3> QED  BY <1>0, <1>1, <1>3, <1>6, <2>1, <3>1 DEF CountsAlone, Counting
    <2>6. Claimed' /\ Kept' /\ Undecided'
      <3>1. Claimed'
        <4>1. \A j \in Queued : j # c => Cancelled(j)
          BY <1>0, <1>2 DEF Claimed, Moving
        <4> QED  BY <1>0, <2>2, <2>3, <4>1 DEF Claimed
      <3>2. Kept'
        BY <1>0, <1>1, <1>3, <2>1, <2>3 DEF Kept, InDriver
      <3>3. Undecided'
        BY <1>0, <1>1, <1>3, <2>1, <2>2, <2>3 DEF Undecided
      <3> QED  BY <3>1, <3>2, <3>3
    <2>7. Linked(q') /\ Returned' /\ Uncalled'
      BY <1>0, <1>3, <1>6 DEF Returned, Uncalled
    <2> QED  BY <2>4, <2>5, <2>6, <2>7 DEF Placement
  <1> QED  BY <1>4, <1>5, <1>6

\* StartXoffCounter takes the XOFF_COUNTER out of the queue.
LEMMA CounterOutStep ==
  ASSUME Ownership, Placement, CounterOut PROVE Placement'
  <1>0. /\ TypeOK /\ cs \in SectionType /\ AtCurrent /\ CountsAlone /\ Claimed /\ Kept
        /\ Undecided /\ Returned /\ Uncalled /\ Linked(q) /\ Queued \subseteq Irps
        /\ q.current # None => q.current \in Queued
    BY PlacementFacts
  <1>1. /\ lock # None /\ cs.pc = "counter" /\ cs.irp \in Irps
        /\ q' = Shift(q) /\ Goto("flushes")
        /\ UNCHANGED <<kind, disp, result, armed, canceller, info, completed, lock,
                       toComplete>>
    BY PlacementFacts DEF CounterOut, At, Sections, AtIrp
  <1>2. PICK c \in Irps : c = cs.irp /\ c = q.current /\ c \in Queued
    BY <1>0, <1>1, BoundsAssumption DEF AtCurrent
  <1>3. /\ cs'.pc = "flushes" /\ cs'.irp = c /\ cs'.start = cs.start /\ cs'.ret = cs.ret
    BY <1>0, <1>1, <1>2, GotoEffects DEF Labels
  <1>4. /\ Linked(q') /\ Queued' = Queued \ {c}
        /\ Range(q'.list) \subseteq Range(q.list)
        /\ q'.current # None => q'.current \in Range(q.list) /\ ~Counting(q'.current)
    BY <1>1, <1>2, ShiftEffects, BoundsAssumption
  <1>5. \A j \in Irps : (Cancelled(j)' <=> Cancelled(j)) /\ (Listed(j)' <=> Listed(j))
                       /\ (InDriver(j)' <=> InDriver(j)) /\ ~Moving(j) /\ ~TakenOut(j)
    BY <1>1 DEF Cancelled, Listed, InDriver, Moving, TakenOut
  <1>6. Cancelled(c) /\ TakenOut(c)' /\ (lock = Dispatch(c) => cs.ret = "PENDING")
    BY <1>0, <1>1, <1>2, <1>3, <1>5 DEF Claimed, TakenOut, Undecided
  <1>7. AtCurrent'
    BY <1>0, <1>1, <1>2, <1>3, <1>4, <1>5, <1>6 DEF AtCurrent
  <1>8. CountsAlone'
    <2>1. ~JustSent'
      BY <1>3 DEF JustSent
    <2> QED  BY <1>0, <1>1, <1>3, <1>4, <2>1 DEF CountsAlone, Counting
  <1>9. Claimed' /\ Kept' /\ Undecided'
    <2>1. Claimed'
      BY <1>0, <1>4, <1>5 DEF Claimed
    <2>2. Kept'
      <3> SUFFICES ASSUME NEW j \in Irps, InDriver(j)',
                          lock' = Dispatch(j) => cs'.pc # "decide" /\ cs'.ret = "PENDING"
                   PROVE  Held(j)'
        BY DEF Kept
      <3>1. Held(j)
        BY <1>0, <1>1, <1>3, <1>5 DEF Kept
      <3> QED  BY <1>1, <1>4, <1>5, <1>6, <3>1 DEF Held
    <2>3. Undecided'
      BY <1>0, <1>1, <1>3, <1>4, <1>5 DEF Undecided
    <2> QED  BY <2>1, <2>2, <2>3
  <1>10. Returned' /\ Uncalled'
    BY <1>0, <1>1 DEF Returned, Uncalled
  <1> QED  BY <1>4, <1>7, <1>8, <1>9, <1>10 DEF Placement

\* What becomes of the XOFF_COUNTER that was taken out: it ends, or is current again.
LEMMA CounterStep ==
  ASSUME Ownership, Placement, CounterMoreWrites \/ CounterInstall PROVE Placement'
  <1>0. /\ TypeOK /\ cs \in SectionType /\ q \in QueueType
        /\ AtCurrent /\ CountsAlone /\ Claimed /\ Kept
        /\ Undecided /\ Returned /\ Uncalled /\ Linked(q) /\ Queued \subseteq Irps
        /\ q.current # None => q.current \in Queued
        /\ cs.ret \in Statuses
    BY PlacementFacts
  <1>1. /\ lock # None /\ cs.pc = "flushes" /\ cs.irp \in Irps
        /\ UNCHANGED <<kind, disp, result, canceller, info, completed, lock>>
    BY PlacementFacts DEF CounterMoreWrites, CounterInstall, At, Sections, AtIrp
  <1>2. PICK c \in Irps :
          /\ c = cs.irp /\ c \notin Queued /\ Cancelled(c)
          /\ lock = Dispatch(c) => cs.ret = "PENDING"
    BY <1>0, <1>1 DEF AtCurrent
  <1>3. /\ cs'.pc \in {"next", "passend"} /\ ~cs'.start /\ cs'.ret = cs.ret
        /\ ~JustSent /\ ~JustSent' /\ \A j \in Irps : ~Moving(j) /\ ~Moving(j)'
        /\ \A j \in Irps : TakenOut(j) => j = c
    <2>1. cs'.pc \in {"next", "passend"} /\ ~cs'.start /\ cs'.ret = cs.ret
      BY <1>0, GotoEffects DEF CounterMoreWrites, CounterInstall
    <2> QED  BY <1>1, <1>2, <2>1 DEF JustSent, Moving, TakenOut
  <1>4. /\ Linked(q') /\ Queued \subseteq Queued' /\ Queued' \subseteq Queued \cup {c}
        /\ q' = q \/ q'.list = <<>>
        /\ c \in Queued' => Cancelled(c)'
        /\ c \in Queued' \/ canceller'[c] = "routine" \/ Listed(c)'
        /\ \A j \in Irps : j # c /\ Cancelled(j) => Cancelled(j)'
        /\ \A j \in Irps : Listed(j) => Listed(j)'
        /\ \A t \in Threads : t # lock => toComplete'[t] = toComplete[t]
    <2>1. CASE CounterMoreWrites
      <3>1. CompleteIrp(c, "MORE_WRITES") /\ "MORE_WRITES" \in Statuses /\ UNCHANGED q
        BY <1>2, <2>1 DEF CounterMoreWrites, Statuses
      <3>2. UNCHANGED Queued
        BY <3>1 DEF Queued
      <3> QED  BY <1>0, <1>1, <1>2, <3>1, <3>2, CompleteEffects
    <2>2. CASE CounterInstall
      <3>1. /\ q' = MakeCurrent(q, c) /\ q.current = None /\ UNCHANGED <<armed, toComplete>>
        BY <1>2, <2>2 DEF CounterInstall
      <3>2. Linked(q') /\ Queued' = {c} /\ q'.list = <<>>
        BY <1>0, <3>1, InstallLinked DEF Queued
      <3>3. Queued = {}
        BY <1>0, <3>1, LinkedFacts DEF Queued
      <3>4. Cancelled(c)' /\ \A j \in Irps : (Cancelled(j) => Cancelled(j)') /\
                                            (Listed(j) => Listed(j)')
        BY <1>1, <1>2, <3>1 DEF Cancelled, Listed
      <3> QED  BY <3>1, <3>2, <3>3, <3>4
    <2> QED  BY <2>1, <2>2
  <1>5. AtCurrent'
    BY <1>3 DEF AtCurrent
  <1>6. CountsAlone'
    <2>1. Range(q'.list) \subseteq Range(q.list)
      BY <1>4, EmptyRange
    <2> QED  BY <1>0, <1>1, <1>3, <1>4, <2>1 DEF CountsAlone, Counting
  <1>7. Claimed' /\ Kept' /\ Undecided'
    <2>1. Claimed'
      BY <1>0, <1>2, <1>3, <1>4 DEF Claimed
    <2>2. Kept'
      <3> SUFFICES ASSUME NEW j \in Irps, InDriver(j)',
                          lock' = Dispatch(j) => cs'.pc # "decide" /\ cs'.ret = "PENDING"
                   PROVE  Held(j)'
        BY DEF Kept
      <3>1. Held(j)
        BY <1>0, <1>1, <1>3 DEF Kept, InDriver
      <3> QED  BY <1>1, <1>3, <1>4, <3>1 DEF Held
    <2>3. Undecided'
      <3> SUFFICES ASSUME NEW j \in Irps, lock = Dispatch(j), cs.ret # "PENDING"
                   PROVE  Cancelled(j)' /\ j \notin Queued'
        BY <1>1, <1>3 DEF Undecided
      <3>1. j # c /\ Cancelled(j) /\ j \notin Queued
        BY <1>0, <1>1, <1>2 DEF Undecided
      <3> QED  BY <1>4, <3>1
    <2> QED  BY <2>1, <2>2, <2>3
  <1>8. Returned' /\ Uncalled'
    <2>1. Uncalled'
      BY <1>0, <1>1, <1>4, ThreadFacts DEF Uncalled
    <2> QED  BY <1>0, <1>1, <2>1 DEF Returned
  <1> QED  BY <1>4, <1>5, <1>6, <1>7, <1>8 DEF Placement

\* StartIrpWaitOnMask decides what becomes of the WAIT_ON_MASK of the dispatch routine.
LEMMA WaitStep ==
  ASSUME Ownership, Placement, StartWaitOnMask PROVE Placement'
  <1>0. /\ TypeOK /\ cs \in SectionType /\ AtCurrent /\ CountsAlone /\ Claimed /\ Kept
        /\ Undecided /\ Returned /\ Uncalled /\ Linked(q) /\ Queued \subseteq Irps
        /\ q.current # None => q.current \in Queued
    BY PlacementFacts
  <1>1. /\ lock # None /\ cs.pc = "process" /\ cs.start /\ cs.irp \in Irps
        /\ UNCHANGED <<kind, disp, result, armed, canceller, info, completed, q, lock,
                       toComplete>>
    BY PlacementFacts DEF StartWaitOnMask, At, Sections, AtIrp
  <1>2. PICK c \in Irps : c = cs.irp /\ c = q.current /\ c \in Queued /\ lock = Dispatch(c)
    BY <1>0, <1>1, BoundsAssumption DEF AtCurrent
  <1>3. /\ cs'.pc = "started" /\ cs'.irp = c /\ cs'.start
        /\ cs.ret = "PENDING" /\ ~JustSent /\ ~JustSent'
    <2>1. cs'.pc = "started" /\ cs'.irp = cs.irp /\ cs'.start = cs.start
      BY <1>0, <1>1 DEF StartWaitOnMask, SectionType
    <2> QED  BY <1>0, <1>1, <1>2, <2>1 DEF AtCurrent, JustSent
  <1>4. UNCHANGED Queued
    BY <1>1 DEF Queued
  <1>5. \A j \in Irps : (Cancelled(j)' <=> Cancelled(j)) /\ (Listed(j)' <=> Listed(j))
                       /\ (InDriver(j)' <=> InDriver(j)) /\ ~Moving(j) /\ ~TakenOut(j)
    BY <1>1 DEF Cancelled, Listed, InDriver, Moving, TakenOut
  <1>6. AtCurrent'
    BY <1>1, <1>2, <1>3 DEF AtCurrent
  <1>7. CountsAlone'
    BY <1>0, <1>1, <1>3 DEF CountsAlone, Counting
  <1>8. Claimed' /\ Kept' /\ Undecided'
    <2>1. Claimed'
      BY <1>0, <1>4, <1>5 DEF Claimed
    <2>2. \A j \in Irps : InDriver(j) => Held(j)
      BY <1>0, <1>1, <1>3 DEF Kept
    <2>3. Kept'
      BY <1>1, <1>4, <1>5, <2>2 DEF Kept, Held
    <2>4. Undecided'
      <3> SUFFICES ASSUME NEW j \in Irps, lock = Dispatch(j)
                   PROVE  Cancelled(j)' /\ j = c
        BY <1>1, <1>2, <1>3 DEF Undecided
      <3>1. j = c
        BY <1>2, ThreadNames
      <3> QED  BY <1>0, <1>2, <1>5, <3>1 DEF Claimed
    <2> QED  BY <2>1, <2>3, <2>4
  <1>9. Linked(q') /\ Returned' /\ Uncalled'
    BY <1>0, <1>1 DEF Returned, Uncalled
  <1> QED  BY <1>6, <1>7, <1>8, <1>9 DEF Placement

\* The end of the turn of an IRP that is being started.
LEMMA StopStartedStep ==
  ASSUME Ownership, Placement, StopStarted PROVE Placement'
  <1>0. /\ TypeOK /\ cs \in SectionType /\ AtCurrent /\ CountsAlone /\ Claimed
        /\ Queued \subseteq Irps
        /\ q.current # None => q.current \in Queued
    BY PlacementFacts
  <1>1. /\ lock # None /\ cs.pc = "stop" /\ cs.start /\ cs.irp \in Irps /\ ~CharSent
        /\ UNCHANGED <<kind, disp, result, armed, canceller, info, completed, lock,
                       toComplete>>
    BY PlacementFacts DEF StopStarted, At, Sections, AtIrp
  <1>2. PICK c \in Irps : /\ c = cs.irp /\ c = q.current /\ c \in Queued
                          /\ lock = Dispatch(c) /\ cs.ret = "PENDING"
    <2>1. cs.irp = q.current /\ lock = Dispatch(cs.irp) /\ cs.ret = "PENDING"
      BY <1>0, <1>1 DEF AtCurrent
    <2> QED  BY <1>0, <1>1, <2>1, BoundsAssumption
  <1>3. PICK st \in Statuses : \/ st = "PENDING" /\ GotoEnd(st) /\ UNCHANGED q
                               \/ st # "PENDING" /\ GotoNext(st) /\ q' = Shift(q)
    <2> DEFINE s == IF cs.st = "PENDING" THEN IrpTimeoutStatus(cs.irp) ELSE cs.st
    <2>1. s \in Statuses
      BY <1>0, <1>1, TimeoutFacts DEF SectionType
    <2>2. IF s = "PENDING" THEN GotoEnd(s) /\ UNCHANGED q ELSE GotoNext(s) /\ q' = Shift(q)
      BY DEF StopStarted
    <2> HIDE DEF s
    <2> QED  BY <2>1, <2>2
  <1>4. CASE st = "PENDING" /\ GotoEnd(st) /\ UNCHANGED q
    <2>1. cs'.pc = "passend" /\ ~cs'.start /\ cs'.ret = cs.ret
      BY <1>0, <1>2, <1>4, GotoEffects
    <2>2. JustSent => kind[cs.irp] # "XOFF_COUNTER"
      BY <1>0, <1>1 DEF CountsAlone, CharSent
    <2> QED  BY <1>1, <1>4, <2>1, <2>2, SectionMoves
  <1>5. CASE st # "PENDING" /\ GotoNext(st) /\ q' = Shift(q)
    <2>1. cs'.pc = "next" /\ ~cs'.start /\ cs'.ret = st
      BY <1>0, <1>5, GotoEffects
    <2>2. Cancelled(c)' /\ \A j \in Irps : (Cancelled(j) => Cancelled(j)')
                                          /\ (Listed(j) => Listed(j)')
      BY <1>0, <1>1, <1>2 DEF Claimed, Moving, Cancelled, Listed
    <2>3. \A t \in Threads : toComplete'[t] = toComplete[t]
      BY <1>1
    <2> QED  BY <1>1, <1>2, <1>5, <2>1, <2>2, <2>3, CurrentLeaves
  <1> QED  BY <1>3, <1>4, <1>5

\* The current IRP is completed, or found to be cancelled.
LEMMA CompleteStep ==
  ASSUME Ownership, Placement,
         NextSkipped \/ RecheckCancelled \/ CounterFlush \/ CountDown \/ PurgeCurrent
  PROVE  Placement'
  <1>0. /\ TypeOK /\ cs \in SectionType /\ AtCurrent /\ Claimed
        /\ Queued \subseteq Irps /\ cs.ret \in Statuses
        /\ q.current # None => q.current \in Irps /\ q.current \in Queued
    BY PlacementFacts
  <1>1. /\ lock # None /\ q' = Shift(q)
        /\ UNCHANGED <<kind, disp, result, completed, info, canceller, lock>>
        /\ cs.pc \in {"next", "recheck", "flushes", "passend", "purge"}
    BY DEF NextSkipped, RecheckCancelled, CounterFlush, CountDown, PurgeCurrent, At
  <1>2. PICK c \in Irps : c = q.current /\ c \in Queued
    <2>1. CASE RecheckCancelled
      <3>1. cs.irp \in Irps /\ cs.irp = q.current
        BY <1>0, <2>1, PlacementFacts
        DEF RecheckCancelled, At, Sections, AtIrp, AtCurrent
      <3> QED  BY <1>0, <3>1, BoundsAssumption
    <2>2. CASE NextSkipped \/ CounterFlush \/ CountDown \/ PurgeCurrent
      BY <1>0, <2>2 DEF NextSkipped, CounterFlush, CountDown, PurgeCurrent
    <2> QED  BY <2>1, <2>2
  <1>3. Cancelled(c)
    BY <1>0, <1>1, <1>2 DEF Claimed, Moving
  <1>4. CASE NextSkipped
    <2>1. /\ cs.pc = "next" /\ cs'.pc = "next" /\ cs'.start = cs.start
          /\ cs'.ret = cs.ret /\ ~armed[c] /\ UNCHANGED <<armed, toComplete>>
      BY <1>0, <1>2, <1>4, TurnEffects DEF NextSkipped, At
    <2>2. ~cs'.start /\ canceller'[c] = "routine"
      BY <1>0, <1>1, <1>3, <2>1 DEF AtCurrent, Cancelled, SectionType
    <2>3. \A j \in Irps : (Cancelled(j) => Cancelled(j)') /\ (Listed(j) => Listed(j)')
      BY <1>1, <2>1 DEF Cancelled, Listed
    <2> QED  BY <1>1, <1>2, <2>1, <2>2, <2>3, CurrentLeaves
  <1>5. CASE RecheckCancelled \/ CounterFlush \/ CountDown \/ PurgeCurrent
    <2>1. PICK st \in Statuses : CompleteIrp(c, st)
      <3>1. CASE RecheckCancelled
        <4>1. cs.irp = c
          BY <1>0, <1>2, <3>1 DEF RecheckCancelled, At, AtCurrent
        <4> QED  BY <3>1, <4>1 DEF RecheckCancelled, Statuses
      <3>2. CASE CounterFlush \/ CountDown \/ PurgeCurrent
        BY <1>2, <3>2 DEF CounterFlush, CountDown, PurgeCurrent, Statuses
      <3> QED  BY <1>5, <3>1, <3>2
    <2>2. /\ canceller'[c] = "routine" \/ Listed(c)'
          /\ \A j \in Irps : Listed(j) => Listed(j)'
          /\ \A j \in Irps : j # c /\ Cancelled(j) => Cancelled(j)'
          /\ \A t \in Threads : t # lock => toComplete'[t] = toComplete[t]
      BY <1>0, <1>1, <1>3, <2>1, CompleteEffects
    <2>3. \/ UNCHANGED cs /\ cs.pc \in {"flushes", "passend", "purge"}
          \/ cs'.pc = "next" /\ ~cs'.start /\ cs.pc # "flushes" /\ cs'.ret = cs.ret
      <3>1. CASE RecheckCancelled
        BY <1>0, <3>1, GotoEffects DEF RecheckCancelled, At
      <3>2. CASE CounterFlush \/ CountDown \/ PurgeCurrent
        BY <3>2 DEF CounterFlush, CountDown, PurgeCurrent, At
      <3> QED  BY <1>5, <3>1, <3>2
    <2>4. cs'.ret = cs.ret
      BY <2>3
    <2> QED  BY <1>1, <1>2, <2>2, <2>3, <2>4, CurrentLeaves
  <1> QED  BY <1>4, <1>5

\* Every step of a pass.
LEMMA PassStep ==
  ASSUME Ownership, Placement, Pass PROVE Placement'
  <1>0. /\ TypeOK /\ cs \in SectionType /\ AtCurrent /\ CountsAlone
        /\ Sections /\ cs.ret \in Statuses
    BY PlacementFacts
  <1>1. CASE NextNone \/ PassAgain \/ OverrunAbort
    <2>1. /\ lock # None
          /\ UNCHANGED <<kind, disp, result, completed, info, canceller, armed,
                         toComplete, q, lock>>
          /\ cs.pc \in {"next", "passend"}
      BY <1>1 DEF NextNone, PassAgain, OverrunAbort, At
    <2>2. cs'.pc \in {"next", "passend", "purge"} /\ cs'.ret = cs.ret
          /\ (cs'.start => cs.start)
      BY <1>0, <1>1, GotoEffects, TurnEffects DEF NextNone, OverrunAbort, Labels
    <2>3. ~cs.start /\ ~JustSent
      BY <1>0, <2>1 DEF AtCurrent, JustSent
    <2> QED  BY <2>1, <2>2, <2>3, SectionMoves
  <1>2. CASE StopStartedCounter \/ RecheckPending
    <2>1. /\ lock # None /\ cs.pc \in {"stop", "recheck"} /\ (cs.pc = "stop" => cs.start)
          /\ UNCHANGED <<kind, disp, result, completed, info, canceller, armed,
                         toComplete, q, lock>>
          /\ \/ Goto("counter") /\ CharSent
             \/ GotoEnd(cs.ret) /\ ~(CharSent /\ cs.done)
      <3>1. CASE StopStartedCounter
        <4>1. cs.start /\ cs.pc = "stop" /\ lock # None
          BY <3>1 DEF StopStartedCounter, At
        <4>2. cs.ret = "PENDING"
          BY <1>0, <4>1 DEF AtCurrent
        <4> QED  BY <3>1, <4>1, <4>2 DEF StopStartedCounter
      <3>2. CASE RecheckPending
        BY <3>2 DEF RecheckPending, At
      <3> QED  BY <1>2, <3>1, <3>2
    <2>2. CASE Goto("counter") /\ CharSent
      <3>1. cs'.pc = "counter" /\ cs'.irp = cs.irp /\ cs'.start = cs.start
            /\ cs'.ret = cs.ret /\ kind[cs.irp] = "XOFF_COUNTER"
        BY <1>0, <2>2, GotoEffects DEF Labels, CharSent
      <3> QED  BY <2>1, <3>1, SectionMoves
    <2>3. CASE GotoEnd(cs.ret) /\ ~(CharSent /\ cs.done)
      <3>1. cs'.pc = "passend" /\ ~cs'.start /\ cs'.ret = cs.ret
        BY <1>0, <2>3, GotoEffects
      <3>2. JustSent => kind[cs.irp] # "XOFF_COUNTER"
        BY <1>0, <2>1, <2>3 DEF CountsAlone, JustSent, CharSent
      <3> QED  BY <2>1, <3>1, <3>2, SectionMoves
    <2> QED  BY <2>1, <2>2, <2>3
  <1>3. CASE PassEnd \/ PurgeEnd
    <2>1. /\ lock # None /\ cs.pc \in {"passend", "purge"}
          /\ UNCHANGED <<kind, result, completed, info, canceller, armed, toComplete, q>>
          /\ \/ (Goto("started") \/ Goto("passend")) /\ UNCHANGED <<lock, disp>>
             \/ Leave /\ lock[1] # "dispatch"
      <3>1. CASE PassEnd
        BY <3>1 DEF PassEnd, At
      <3>2. CASE PurgeEnd
        BY <1>0, <3>2 DEF PurgeEnd, At, Sections
      <3> QED  BY <1>3, <3>1, <3>2
    <2>2. ~cs.start /\ ~JustSent
      BY <1>0, <2>1 DEF AtCurrent, JustSent
    <2>3. CASE (Goto("started") \/ Goto("passend")) /\ UNCHANGED <<lock, disp>>
      <3>1. cs'.pc \in {"started", "passend"} /\ ~cs'.start /\ cs'.ret = cs.ret
        BY <1>0, <2>2, <2>3, GotoEffects DEF Labels
      <3> QED  BY <2>1, <2>2, <2>3, <3>1, SectionMoves
    <2>4. CASE Leave /\ lock[1] # "dispatch"
      <3>1. lock' = None /\ UNCHANGED disp
        BY <2>4 DEF Leave
      <3>2. UNCHANGED Queued
        BY <2>1 DEF Queued
      <3>3. \A j \in Irps : /\ Cancelled(j) => Cancelled(j)'
                            /\ InDriver(j)' => InDriver(j) /\ (Held(j) => Held(j)')
        BY <2>1, <3>1, <3>2 DEF Cancelled, InDriver, Held, Listed, TakenOut
      <3> QED  BY <2>1, <2>4, <3>1, <3>3, NothingMoves
    <2> QED  BY <2>1, <2>3, <2>4
  <1> QED
    BY <1>1, <1>2, <1>3, TakenStep, TransferStep, StopTakenStep, CounterOutStep, CounterStep,
       WaitStep, StopStartedStep, CompleteStep
    DEF Pass

\* FdoPortStartIrp takes the lock and sets the cancel routine.
LEMMA SubmitStep ==
  ASSUME Ownership, Placement, NEW i \in Irps, Submit(i) PROVE Placement'
  <1>0. /\ TypeOK /\ CountsAlone /\ Claimed /\ Kept /\ Undecided /\ Returned /\ Uncalled
        /\ Linked(q) /\ Queued \subseteq Irps
    BY PlacementFacts
  <1>1. /\ lock = None /\ lock' = Dispatch(i) /\ lock' # None
        /\ cs'.pc = "decide" /\ ~cs'.start /\ cs'.ret = "PENDING"
        /\ disp[i] = "new" /\ disp' = [disp EXCEPT ![i] = "busy"]
        /\ armed' = [armed EXCEPT ![i] = TRUE]
        /\ UNCHANGED <<kind, result, canceller, info, completed, q, toComplete>>
    BY ThreadNames, LockEffects DEF Submit, Labels
  <1>2. /\ ~JustSent /\ ~JustSent' /\ UNCHANGED Queued
        /\ \A j \in Irps : ~Moving(j) /\ ~TakenOut(j) /\ (lock' = Dispatch(j) <=> j = i)
    BY <1>1, ThreadNames DEF JustSent, Queued, Moving, TakenOut
  <1>3. /\ Cancelled(i)' /\ \A j \in Irps : Cancelled(j) => Cancelled(j)'
        /\ i \notin Queued
        /\ disp'[i] # "new" /\ \A j \in Irps : j # i => disp'[j] = disp[j]
    <2>1. Cancelled(i)' /\ \A j \in Irps : Cancelled(j) => Cancelled(j)'
      BY <1>0, <1>1 DEF Cancelled, TypeOK
    <2>2. ~Cancelled(i)
      BY <1>1, PlacementFacts DEF OneOwner, Owned, Cancelled
    <2>3. disp'[i] # "new" /\ \A j \in Irps : j # i => disp'[j] = disp[j]
      BY <1>0, <1>1 DEF TypeOK
    <2> QED  BY <1>0, <1>2, <2>1, <2>2, <2>3 DEF Claimed
  <1>4. AtCurrent'
    BY <1>1 DEF AtCurrent
  <1>5. CountsAlone'
    BY <1>0, <1>1, <1>2, <1>3 DEF CountsAlone, Counting
  <1>6. Claimed' /\ Kept' /\ Undecided'
    <2>1. Claimed'
      BY <1>0, <1>2, <1>3 DEF Claimed
    <2>2. Kept'
      <3> SUFFICES ASSUME NEW j \in Irps, j # i, InDriver(j)' PROVE Held(j)'
        BY <1>1 DEF Kept
      <3>1. Held(j)
        BY <1>0, <1>1, <1>3, ThreadNames DEF Kept, InDriver
      <3> QED  BY <1>1, <1>2, <3>1 DEF Held, Listed
    <2>3. Undecided'
      BY <1>1, <1>2, <1>3 DEF Undecided
    <2> QED  BY <2>1, <2>2, <2>3
  <1>7. Linked(q') /\ Returned' /\ Uncalled'
    <2>1. Returned'
      <3>1. disp'[i] = "busy"
        BY <1>0, <1>1 DEF TypeOK
      <3> QED  BY <1>0, <1>1, <1>3, <3>1 DEF Returned
    <2>2. Uncalled'
      BY <1>0, <1>1, ThreadNames DEF Uncalled
    <2> QED  BY <1>0, <1>1, <2>1, <2>2
  <1> QED  BY <1>4, <1>5, <1>6, <1>7 DEF Placement

\* CancelRoutine takes its IRP out of the queue, wherever it is.
LEMMA CancelEffects ==
  ASSUME Ownership, Placement, NEW i \in Irps, CancelRoutine(i)
  PROVE  /\ Linked(q') /\ Queued' = Queued \ {i}
         /\ Range(q'.list) \subseteq Range(q.list)
         /\ q'.current # None /\ Counting(q'.current)
              => q'.current = q.current /\ q'.list = q.list
         /\ q' = q \/ i \in Queued
  <1>0. /\ q \in QueueType /\ Linked(q) /\ None \notin Irps /\ CountsAlone
        /\ q.inQueue = Range(q.list) /\ q.isCurrent = {q.current} \ {None}
    BY PlacementFacts DEF Linked
  <1> DEFINE s == IF i \in q.inQueue THEN Unlink(q, i) ELSE q
  <1>1. q' = IF i \in q.isCurrent THEN Shift(s) ELSE s
    BY DEF CancelRoutine
  <1>2. CASE i = q.current
    <2>1. i \notin Range(q.list)
      BY <1>0, <1>2 DEF Linked
    <2>2. q' = Shift(q) /\ q.current # None
      BY <1>0, <1>1, <1>2, <2>1
    <2>3. i \in Queued
      BY <1>2, <2>2 DEF Queued, Members
    <2> QED  BY <1>2, <2>2, <2>3, ShiftEffects
  <1>3. CASE i \in Range(q.list)
    <2>1. i # q.current
      BY <1>0, <1>3 DEF Linked
    <2>2. q' = Unlink(q, i)
      BY <1>0, <1>1, <1>3, <2>1
    <2>3. /\ Linked(q') /\ Queued' = Queued \ {i} /\ q'.current = q.current
          /\ Range(q'.list) = Range(q.list) \ {i}
      BY <1>0, <1>3, <2>2, UnlinkLinked DEF Queued
    <2>4. ~(q.current # None /\ Counting(q.current))
      <3>1. ~JustSent
        BY <1>0, <2>1 DEF CancelRoutine, JustSent
      <3> QED  BY <1>0, <1>3, <3>1, EmptyRange DEF CountsAlone
    <2>5. i \in Queued
      BY <1>3 DEF Queued, Members
    <2> QED  BY <2>3, <2>4, <2>5
  <1>4. CASE i # q.current /\ i \notin Range(q.list)
    <2>1. q' = q
      BY <1>0, <1>1, <1>4
    <2>2. i \notin Queued
      BY <1>4 DEF Queued, Members
    <2> QED  BY <1>0, <2>1, <2>2 DEF Queued
  <1> QED  BY <1>2, <1>3, <1>4

\* CancelRoutine puts its IRP on the queueToComplete of its own thread.
LEMMA CancelStep ==
  ASSUME Ownership, Placement, NEW i \in Irps, CancelRoutine(i) PROVE Placement'
  <1>0. /\ TypeOK /\ CountsAlone /\ Claimed /\ Kept /\ Undecided /\ Returned /\ Uncalled
        /\ AtCurrent /\ Queued \subseteq Irps
    BY PlacementFacts
  <1>1. /\ canceller[i] = "routine" /\ canceller' = [canceller EXCEPT ![i] = "done"]
        /\ toComplete' = [toComplete EXCEPT ![Canceller(i)] = {i}]
        /\ UNCHANGED <<kind, disp, result, armed, info, completed>>
        /\ lock = None
        /\ \/ lock' = None
           \/ lock' = Canceller(i) /\ cs'.pc = "next" /\ ~cs'.start
    <2>1. AcquireForPass(Canceller(i), "next") =>
            lock = None /\ lock' = Canceller(i) /\ cs'.pc = "next" /\ ~cs'.start
      BY LockEffects DEF Labels
    <2> QED  BY <2>1 DEF CancelRoutine
  <1>2. /\ canceller'[i] = "done" /\ \A j \in Irps : j # i => canceller'[j] = canceller[j]
        /\ toComplete'[Canceller(i)] = {i} /\ toComplete[Canceller(i)] = {}
        /\ \A t \in Threads : t # Canceller(i) => toComplete'[t] = toComplete[t]
    BY <1>0, <1>1, ThreadFacts DEF TypeOK, Uncalled
  <1>3. /\ Linked(q') /\ Queued' = Queued \ {i}
        /\ Range(q'.list) \subseteq Range(q.list)
        /\ q'.current # None /\ Counting(q'.current)
             => q'.current = q.current /\ q'.list = q.list
    BY CancelEffects
  <1>4. /\ \A j \in Irps : lock' # Dispatch(j) /\ ~Moving(j) /\ ~TakenOut(j)
        /\ ~JustSent /\ ~JustSent'
    BY <1>1, ThreadNames DEF Moving, TakenOut, JustSent
  <1>5. AtCurrent' /\ Undecided'
    BY <1>1, <1>4 DEF AtCurrent, Undecided
  <1>6. CountsAlone'
    BY <1>0, <1>1, <1>3, <1>4 DEF CountsAlone, Counting
  <1>7. Claimed' /\ Kept'
    <2>1. \A j \in Irps : j # i /\ Cancelled(j) => Cancelled(j)'
      BY <1>1, <1>2 DEF Cancelled
    <2>2. Listed(i)' /\ \A j \in Irps : Listed(j) => Listed(j)'
      BY <1>2, ThreadFacts DEF Listed
    <2>3. Claimed'
      BY <1>0, <1>3, <1>4, <2>1 DEF Claimed
    <2>4. Kept'
      <3> SUFFICES ASSUME NEW j \in Irps, j # i, InDriver(j)' PROVE Held(j)'
        BY <2>2 DEF Kept, Held
      <3>1. Held(j)
        BY <1>0, <1>1, ThreadNames DEF Kept, InDriver
      <3> QED  BY <1>2, <1>3, <1>4, <2>2, <3>1 DEF Held
    <2> QED  BY <2>3, <2>4
  <1>8. Returned' /\ Uncalled'
    <2>1. Returned'
      BY <1>0, <1>1 DEF Returned
    <2>2. Uncalled'
      BY <1>0, <1>1, <1>2, ThreadFacts, ThreadNames DEF Uncalled
    <2> QED  BY <2>1, <2>2
  <1> QED  BY <1>3, <1>5, <1>6, <1>7, <1>8 DEF Placement

\* Every other step leaves the queue and every right alone.
LEMMA OtherStep ==
  ASSUME Ownership, Placement,
         \/ UNCHANGED vars
         \/ \E t \in Timers : TimerFires(t)
         \/ \E i \in Irps : Return(i) \/ IoCancelIrp(i) \/ TakeCancelRoutine(i)
         \/ \E t \in Threads, i \in Irps : CompleteQueued(t, i)
         \/ \E w \in Workers : \/ Serve(w) \/ ServeReceive(w) \/ CancelQueue(w)
                               \/ \E t \in Timers : TimeoutRoutine(w, t)
  PROVE  Placement'
  <1>0. TypeOK /\ Uncalled
    BY PlacementFacts
  <1>1. CASE \/ UNCHANGED vars
             \/ \E t \in Timers : TimerFires(t)
             \/ \E w \in Workers : \/ Serve(w) \/ ServeReceive(w) \/ CancelQueue(w)
                                   \/ \E t \in Timers : TimeoutRoutine(w, t)
    <2>1. UNCHANGED <<kind, info, q, disp, result, armed, canceller, completed, toComplete>>
      BY <1>1 DEF vars, TimerFires, Serve, ServeReceive, CancelQueue, TimeoutRoutine
    <2>2. \/ UNCHANGED <<lock, cs>>
          \/ /\ lock = None /\ cs'.pc \in {"next", "passend", "purge"} /\ ~cs'.start
             /\ \A j \in Irps : lock' # Dispatch(j) /\ lock' # Canceller(j)
      <3>1. ASSUME NEW w \in Workers,
                   \/ Serve(w) \/ ServeReceive(w) \/ CancelQueue(w)
                   \/ \E t \in Timers : TimeoutRoutine(w, t)
            PROVE  \/ UNCHANGED <<lock, cs>>
                   \/ /\ lock = None /\ cs'.pc \in {"next", "passend", "purge"} /\ ~cs'.start
                      /\ lock' = Worker(w)
        BY <3>1, LockEffects
        DEF Serve, ServeReceive, CancelQueue, TimeoutRoutine, Labels
      <3> QED  BY <1>1, <3>1, ThreadNames DEF vars, TimerFires
    <2>3. \A j \in Irps : TakenOut(j) => TakenOut(j)'
      BY <2>2 DEF TakenOut
    <2>4. \A j \in Irps : (Cancelled(j) => Cancelled(j)') /\ (InDriver(j)' => InDriver(j))
                         /\ (Held(j) => Held(j)')
      BY <2>1, <2>3 DEF Cancelled, InDriver, Held, Queued, Listed
    <2> QED  BY <2>1, <2>2, <2>4, NothingMoves
  <1>2. ASSUME NEW i \in Irps, Return(i) PROVE Placement'
    <2>1. /\ UNCHANGED <<kind, info, q, lock, cs, result, armed, canceller, toComplete>>
          /\ disp[i] = "finish" /\ disp' = [disp EXCEPT ![i] = "done"]
          /\ \/ result[i] = "PENDING" /\ UNCHANGED completed
             \/ completed' = [completed EXCEPT ![i] = @ + 1]
      BY <1>2 DEF Return
    <2>2. /\ \A j \in Irps : j # i => disp'[j] = disp[j] /\ completed'[j] = completed[j]
          /\ \/ result[i] = "PENDING" /\ completed'[i] = completed[i]
             \/ completed'[i] > 0
          /\ disp'[i] = "done"
      BY <1>0, <2>1 DEF TypeOK
    <2>3. \A j \in Irps : (InDriver(j)' => InDriver(j)) /\ (Held(j) => Held(j)')
      <3>1. \A j \in Irps : Held(j) => Held(j)'
        BY <2>1 DEF Held, Queued, Listed, TakenOut
      <3> QED  BY <2>1, <2>2, <3>1 DEF InDriver
    <2>4. \A j \in Irps : Cancelled(j) => Cancelled(j)'
      BY <2>1 DEF Cancelled
    <2>5. \A j \in Irps :
            /\ disp'[j] = "new" => disp[j] = "new"
            /\ disp'[j] = "done" /\ result'[j] # "PENDING" =>
                 completed'[j] > 0 \/ (disp[j] = "done" /\ result[j] # "PENDING"
                                         /\ completed'[j] = completed[j])
      BY <2>1, <2>2
    <2> QED  BY <2>1, <2>3, <2>4, <2>5, NothingMoves
  <1>3. ASSUME NEW i \in Irps, IoCancelIrp(i) \/ TakeCancelRoutine(i) PROVE Placement'
    <2>1. UNCHANGED <<kind, info, q, lock, cs, disp, result, completed, toComplete>>
      BY <1>3 DEF IoCancelIrp, TakeCancelRoutine
    <2>2. /\ \A j \in Irps : Cancelled(j) => Cancelled(j)'
          /\ \A j \in Irps : canceller[j] = "routine" => canceller'[j] = "routine"
          /\ \A j \in Irps : canceller'[j] # "done" => canceller[j] # "done"
      BY <1>0, <1>3 DEF IoCancelIrp, TakeCancelRoutine, Cancelled, TypeOK
    <2>3. \A j \in Irps : (InDriver(j)' => InDriver(j)) /\ (Held(j) => Held(j)')
      BY <2>1, <2>2 DEF Held, Queued, Listed, TakenOut, InDriver
    <2> QED  BY <2>1, <2>2, <2>3, NothingMoves
  <1>4. ASSUME NEW t \in Threads, NEW i \in Irps, CompleteQueued(t, i) PROVE Placement'
    <2>1. /\ UNCHANGED <<kind, info, q, lock, cs, disp, result, armed, canceller>>
          /\ toComplete' = [toComplete EXCEPT ![t] = @ \ {i}]
          /\ completed' = [completed EXCEPT ![i] = @ + 1]
      BY <1>4 DEF CompleteQueued
    <2>2. /\ \A j \in Irps : j # i => completed'[j] = completed[j]
          /\ completed'[i] > 0 /\ completed'[i] # 0
          /\ \A u \in Threads : toComplete'[u] \subseteq toComplete[u]
          /\ \A u \in Threads : \A j \in toComplete[u] : j # i => j \in toComplete'[u]
      BY <1>0, <2>1 DEF TypeOK
    <2>3. \A j \in Irps : InDriver(j)' => InDriver(j) /\ j # i
      BY <2>1, <2>2 DEF InDriver
    <2>4. \A j \in Irps : j # i /\ Held(j) => Held(j)'
      BY <2>1, <2>2 DEF Held, Queued, Listed, TakenOut
    <2>5. \A j \in Irps : Cancelled(j) => Cancelled(j)'
      BY <2>1 DEF Cancelled
    <2>6. \A j \in Irps : toComplete'[Canceller(j)] \subseteq toComplete[Canceller(j)]
      BY <2>2, ThreadFacts
    <2>7. \A j \in Irps :
            /\ disp'[j] = "new" => disp[j] = "new"
            /\ disp'[j] = "done" /\ result'[j] # "PENDING" =>
                 completed'[j] > 0 \/ (disp[j] = "done" /\ result[j] # "PENDING"
                                         /\ completed'[j] = completed[j])
      BY <2>1, <2>2
    <2> QED  BY <2>1, <2>3, <2>4, <2>5, <2>6, <2>7, NothingMoves
  <1> QED  BY <1>1, <1>2, <1>3, <1>4

\* The placement of the IRPs is inductive relative to their ownership.
LEMMA PlacementStep ==
  ASSUME NoPreemptedCounter
  PROVE  Ownership /\ Placement /\ [Next]_vars => Placement'
  <1> SUFFICES ASSUME Ownership, Placement, [Next]_vars PROVE Placement'
    OBVIOUS
  <1>1. CASE UNCHANGED vars
    BY <1>1, OtherStep
  <1>2. CASE Next
    <2>1. ASSUME NEW i \in Irps, Decide(i) PROVE Placement'
      BY <1>2, <2>1, DecideStep
    <2> QED
      BY <1>2, <2>1, PassStep, SubmitStep, CancelStep, OtherStep DEF Next, Critical
  <1> QED  BY <1>1, <1>2

-----------------------------------------------------------------------------
(* The theorems *)

\* Unless an IMMEDIATE_CHAR can preempt an XOFF_COUNTER, every IRP in the driver is
\* where its owner expects it, in a queue that is well linked.
THEOREM PlacementInvariant == ASSUME NoPreemptedCounter PROVE Spec => []Placement
  <1>1. Init => Placement
    <2> SUFFICES ASSUME Init PROVE Placement
      OBVIOUS
    <2>1. Linked(q) /\ Queued = {}
      BY EmptyRange DEF Init, EmptyQueue, Linked, Queued, Members
    <2>2. AtCurrent /\ CountsAlone /\ Uncalled
      BY ThreadNames, EmptyRange, ThreadFacts
      DEF Init, EmptyQueue, AtCurrent, CountsAlone, Counting, JustSent, Uncalled
    <2>3. Claimed /\ Kept /\ Undecided /\ Returned
      BY <2>1, ThreadNames DEF Init, Claimed, Kept, InDriver, Undecided, Returned
    <2> QED  BY <2>1, <2>2, <2>3 DEF Placement
  <1>2. Ownership /\ Placement /\ [Next]_vars => Placement'
    BY PlacementStep
  <1> QED  BY <1>1, <1>2, OwnershipInvariant, PTL DEF Spec

\* An IRP of the queue belongs to the driver, and nobody else has it.
LEMMA QueuedFacts ==
  ASSUME Ownership, Placement, NEW i \in Queued
  PROVE  i \in Irps /\ ~Listed(i) /\ InDriver(i)
  <1>0. TypeOK /\ Sections /\ OneOwner /\ Claimed /\ Returned /\ i \in Irps
    BY PlacementFacts
  <1>1. Owned(i) /\ (Cancelled(i) \/ Moving(i))
    BY <1>0 DEF OneOwner, Claimed
  <1>2. ~Listed(i) /\ ~Finishing(i) /\ completed[i] = 0 /\ disp[i] # "new"
    BY <1>0, <1>1 DEF Owned, Cancelled
  <1>3. result[i] \in {"none", "PENDING"}
    <2>1. CASE disp[i] = "busy"
      BY <1>0, <2>1 DEF Sections
    <2>2. CASE disp[i] = "finish"
      BY <1>2, <2>2 DEF Finishing
    <2>3. CASE disp[i] = "done"
      BY <1>0, <1>2, <2>3 DEF Returned
    <2> QED  BY <1>0, <1>2, <2>1, <2>2, <2>3 DEF TypeOK
  <1> QED  BY <1>0, <1>2, <1>3 DEF InDriver

\* An IRP is linked once, in the queue or in the list of the thread that completes it,
\* and a completed one nowhere.
THEOREM InOneList == ASSUME NoPreemptedCounter PROVE Spec => []OneList
  <1>1. Ownership /\ Placement => OneList
    <2> SUFFICES ASSUME Ownership, Placement PROVE OneList
      OBVIOUS
    <2>1. /\ \A j, k \in 1..Len(q.list) : q.list[j] = q.list[k] => j = k
          /\ q.current \notin Range(q.list)
      BY PlacementFacts DEF Linked
    <2> SUFFICES ASSUME NEW i \in Irps
                 PROVE  LET holders == {t \in Threads : i \in toComplete[t]}
                        IN /\ \A t, u \in holders : t = u
                           /\ i \in Queued => holders = {} /\ InDriver(i)
                           /\ completed[i] > 0 => holders = {}
      BY <2>1 DEF OneList
    <2>2. Owned(i) /\ completed[i] \in Nat
      BY PlacementFacts DEF OneOwner, TypeOK
    <2>3. completed[i] > 0 => ~Listed(i)
      BY <2>2 DEF Owned
    <2> QED  BY <2>2, <2>3, QueuedFacts DEF Owned, Listed
  <1> QED  BY <1>1, OwnershipInvariant, PlacementInvariant, PTL

\* Whoever leaves a cancel routine in an IRP looks at Irp->Cancel afterwards.
LEMMA HeededStep == TypeOK /\ Heeded /\ [Next]_vars => Heeded'
  <1> SUFFICES ASSUME TypeOK, Heeded, [Next]_vars, NEW i \in Irps, armed'[i], cancel'[i]
               PROVE  canceller'[i] = "flagged" \/ Rechecking(i)'
    BY DEF Heeded
  <1>0. /\ armed \in [Irps -> BOOLEAN] /\ cancel \in [Irps -> BOOLEAN]
        /\ canceller \in [Irps -> {"idle", "flagged", "routine", "done"}]
        /\ cs \in SectionType
    BY DEF TypeOK
  <1>1. ASSUME UNCHANGED <<armed, cancel, canceller, lock, cs>>
        PROVE  canceller'[i] = "flagged" \/ Rechecking(i)'
    BY <1>1 DEF Heeded, Rechecking, Deciding, At
  <1>2. ASSUME ~Rechecking(i), armed'[i] => armed[i], UNCHANGED <<cancel, canceller>>
        PROVE  canceller'[i] = "flagged" \/ Rechecking(i)'
    BY <1>2 DEF Heeded
  <1>3. ASSUME NEW k \in Irps, Submit(k)
        PROVE  canceller'[i] = "flagged" \/ Rechecking(i)'
    <2>1. lock = None /\ lock' = Dispatch(k) /\ cs'.pc = "decide"
      BY <1>3 DEF Submit, Acquire, Idle
    <2>2. CASE i = k
      BY <2>1, <2>2, ThreadNames DEF Rechecking, Deciding, At
    <2>3. CASE i # k
      BY <1>0, <1>2, <1>3, <2>1, <2>3, ThreadNames DEF Submit, Rechecking, Deciding, At
    <2> QED  BY <2>2, <2>3
  <1>4. ASSUME NEW k \in Irps, Decide(k)
        PROVE  canceller'[i] = "flagged" \/ Rechecking(i)'
    <2>1. lock = Dispatch(k) /\ ~(At("recheck"))
      BY <1>4 DEF Decide, RefuseCancelled, RefuseSecond, StartAtOnce, StartImmediate, Enqueue,
                  FlushBehindCounter, SupersedeCounter, StartedPending, StartedDone, MustQueue,
                  Deciding, At
    <2>2. UNCHANGED <<cancel, canceller>> /\ (armed'[i] => armed[i])
      <3>1. CASE SupersedeCounter(k)
        BY <1>0, <3>1 DEF SupersedeCounter, CompleteIrp
      <3>2. CASE RefuseCancelled(k) \/ RefuseSecond(k) \/ FlushBehindCounter(k)
        BY <1>0, <3>2 DEF RefuseCancelled, RefuseSecond, FlushBehindCounter, Refuse, NoPending
      <3>3. CASE StartedDone(k)
        BY <1>0, <3>3 DEF StartedDone, NoPending
      <3>4. CASE StartAtOnce(k) \/ StartImmediate(k) \/ Enqueue(k) \/ StartedPending(k)
        BY <3>4 DEF StartAtOnce, StartImmediate, Enqueue, StartedPending
      <3> QED  BY <1>4, <3>1, <3>2, <3>3, <3>4 DEF Decide
    <2>3. Deciding(k) => ~cancel[k] \/ ~armed'[k]
      BY <1>0, <1>4 DEF Decide, RefuseCancelled, RefuseSecond, StartAtOnce, StartImmediate,
                  Enqueue, FlushBehindCounter, SupersedeCounter, StartedPending, StartedDone,
                  Refuse, NoPending, MustQueue, Deciding, At
    <2>4. CASE i = k /\ Deciding(k)
      BY <2>2, <2>3, <2>4
    <2>5. CASE ~(i = k /\ Deciding(k))
      BY <1>2, <2>1, <2>2, <2>5, ThreadNames DEF Rechecking, Deciding
    <2> QED  BY <2>4, <2>5
  <1>5. ASSUME Pass
        PROVE  canceller'[i] = "flagged" \/ Rechecking(i)'
    <2>1. lock # None /\ cs.pc # "decide" /\ UNCHANGED <<cancel, canceller>>
      BY <1>5 DEF Pass, NextTaken, NextSkipped, NextNone, Transfer, Hold, Satisfy,
                  StartWaitOnMask, StopStarted, StopStartedCounter, StopTaken,
                  RecheckCancelled, RecheckPending, CounterOut, CounterFlush,
                  CounterMoreWrites, CounterInstall, CountDown, OverrunAbort, PassAgain,
                  PassEnd, PurgeCurrent, PurgeEnd, Move, At
    <2>2. CASE StopTaken
      <3>1. CASE i = cs.irp /\ cs'.pc = "recheck" /\ cs'.irp = cs.irp /\ lock' = lock
        BY <2>1, <3>1 DEF Rechecking, At
      <3>2. CASE armed'[i] => armed[i]
        BY <1>2, <2>1, <2>2, <3>2 DEF StopTaken, Rechecking, Deciding, At
      <3> QED  BY <1>0, <2>2, <3>1, <3>2, GotoEffects DEF StopTaken, Labels
    <2>3. CASE RecheckCancelled
      BY <1>0, <1>2, <2>1, <2>3 DEF RecheckCancelled, CompleteIrp, Rechecking, Deciding, At
    <2>4. CASE RecheckPending
      BY <1>0, <1>2, <2>1, <2>4 DEF RecheckPending, Rechecking, Deciding, At
    <2>5. CASE NextTaken
      BY <1>0, <1>2, <2>1, <2>5 DEF NextTaken, Rechecking, Deciding, At
    <2>6. CASE CounterFlush \/ CounterMoreWrites \/ CountDown \/ PurgeCurrent
      <3>1. armed'[i] => armed[i]
        BY <1>0, <2>6 DEF CounterFlush, CounterMoreWrites, CountDown, PurgeCurrent, CompleteIrp
      <3>2. ~At("recheck")
        BY <2>6 DEF CounterFlush, CounterMoreWrites, CountDown, PurgeCurrent, At
      <3> QED  BY <1>2, <2>1, <3>1, <3>2 DEF Rechecking, Deciding, At
    <2>7. CASE \/ NextSkipped \/ NextNone \/ Transfer \/ Hold \/ Satisfy
               \/ StartWaitOnMask \/ StopStarted \/ StopStartedCounter \/ CounterOut
               \/ CounterInstall \/ OverrunAbort \/ PassAgain \/ PassEnd \/ PurgeEnd
      <3>1. UNCHANGED armed /\ ~At("recheck")
        <4>1. CASE NextSkipped \/ NextNone \/ StartWaitOnMask
          BY <4>1 DEF NextSkipped, NextNone, StartWaitOnMask, At
        <4>2. CASE Transfer \/ Hold \/ Satisfy
          <5>1. cs.pc = "process"
            BY <4>2 DEF Transfer, Hold, Satisfy, At
          <5>2. PICK n, st : Move(n, st)
            BY <4>2, Zenon DEF Transfer, Hold, Satisfy
          <5> QED  BY <5>1, <5>2 DEF Move, At
        <4>3. CASE StopStarted
          BY <4>3 DEF StopStarted, At
        <4>4. CASE StopStartedCounter
          BY <4>4 DEF StopStartedCounter, At
        <4>5. CASE \/ CounterOut \/ CounterInstall \/ OverrunAbort \/ PassAgain
                   \/ PassEnd \/ PurgeEnd
          BY <4>5 DEF CounterOut, CounterInstall, OverrunAbort, PassAgain, PassEnd, PurgeEnd, At
        <4> QED  BY <2>7, <4>1, <4>2, <4>3, <4>4, <4>5
      <3> QED  BY <1>2, <2>1, <3>1 DEF Rechecking, Deciding, At
    <2> QED  BY <1>5, <2>2, <2>3, <2>4, <2>5, <2>6, <2>7 DEF Pass
  <1>6. ASSUME NEW k \in Irps, IoCancelIrp(k) \/ TakeCancelRoutine(k)
        PROVE  canceller'[i] = "flagged" \/ Rechecking(i)'
    <2>1. CASE i = k
      BY <1>0, <1>6, <2>1 DEF IoCancelIrp, TakeCancelRoutine
    <2>2. CASE i # k
      BY <1>0, <1>6, <2>2 DEF IoCancelIrp, TakeCancelRoutine, Heeded, Rechecking, Deciding, At
    <2> QED  BY <2>1, <2>2
  <1>7. ASSUME NEW k \in Irps, CancelRoutine(k)
        PROVE  canceller'[i] = "flagged" \/ Rechecking(i)'
    <2>1. lock = None /\ UNCHANGED <<armed, cancel>>
      BY <1>7 DEF CancelRoutine, AcquireForPass
    <2>2. canceller[i] = "flagged"
      BY <2>1, ThreadNames DEF Heeded, Rechecking, Deciding, At
    <2> QED  BY <1>0, <1>7, <2>2 DEF CancelRoutine
  <1>8. ASSUME NEW w \in Workers,
               \/ Serve(w) \/ ServeReceive(w) \/ CancelQueue(w)
               \/ \E t \in Timers : TimeoutRoutine(w, t)
        PROVE  canceller'[i] = "flagged" \/ Rechecking(i)'
    <2>1. lock = None /\ UNCHANGED <<armed, cancel, canceller>>
      BY <1>8 DEF Serve, ServeReceive, CancelQueue, TimeoutRoutine, Acquire, AcquireForPass
    <2> QED  BY <1>2, <2>1, ThreadNames DEF Rechecking, Deciding, At
  <1>9. ASSUME \/ \E k \in Irps : Return(k)
               \/ \E t \in Timers : TimerFires(t)
               \/ \E t \in Threads, k \in Irps : CompleteQueued(t, k)
               \/ UNCHANGED vars
        PROVE  canceller'[i] = "flagged" \/ Rechecking(i)'
    BY <1>1, <1>9 DEF Return, TimerFires, CompleteQueued, vars
  <1> QED
    BY <1>3, <1>4, <1>5, <1>6, <1>7, <1>8, <1>9 DEF Next, Critical

\* So at every step.
LEMMA HeededInvariant == Spec => []Heeded
  <1>1. Init => Heeded
    BY DEF Init, Heeded
  <1>2. TypeOK /\ Heeded /\ [Next]_vars => Heeded'
    BY HeededStep
  <1> QED  BY <1>1, <1>2, TypeCorrect, PTL DEF Spec

\* No IRP is forgotten: between two critical sections every IRP of the driver is in the
\* queue, or someone is about to complete it; a cancelled one is in the queue only as
\* long as IoCancelIrp has not come for its cancel routine.
THEOREM NothingForgotten == ASSUME NoPreemptedCounter PROVE Spec => []NoneLost
  <1>1. Placement /\ Heeded => NoneLost
    <2> SUFFICES ASSUME Placement, Heeded, lock = None, NEW i \in Irps, InDriver(i)
                 PROVE  \/ i \in Queued /\ (cancel[i] => canceller[i] = "flagged")
                        \/ canceller[i] = "routine"
                        \/ \E t \in Threads : i \in toComplete[t]
      BY DEF NoneLost
    <2>1. Held(i) /\ ~TakenOut(i)
      BY ThreadNames DEF Placement, Kept, TakenOut
    <2>2. CASE i \in Queued
      <3>1. Cancelled(i)
        BY <2>2 DEF Placement, Claimed, Moving
      <3>2. ~Rechecking(i)
        BY ThreadNames DEF Rechecking, Deciding, At
      <3> QED  BY <2>2, <3>1, <3>2 DEF Cancelled, Heeded
    <2> QED  BY <2>1, <2>2 DEF Held, Listed
  <1> QED  BY <1>1, PlacementInvariant, HeededInvariant, PTL

=============================================================================
