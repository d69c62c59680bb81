# com0com verification

TLA+ models of com0com, model-checked with TLC and proved with TLAPS. The
reference is the code; the documents and tests are read for what they promise.

com0com is a null-modem emulator: a Windows kernel driver (`src/com0com/sys`)
that creates pairs of virtual serial ports, what one port writes the other
reads, with the modem lines, flow control, time-outs, error emulation and
show/hide modes of real ports. Set-up tools (`src/com0com/setup`, `setupc`,
`setupg`) create the pairs. Two programs move the data of serial ports to
sockets: `src/com2tcp`, one port to one socket, and `src/hub4com`, a hub with
port drivers and filters as plug-ins.

## 1. Inventory

### The driver (`src/com0com/sys`)

A *pair* is two FDO ports A and B. One spin lock, `ioLock`, protects the state
of both. The IRPs of programs enter from any thread at any time; DPCs (time-outs,
the write delay, the close timer) run on any processor; the I/O manager cancels
IRPs without the lock; the PnP manager calls from a thread of its own.

| Component | State | Operations | Interacts by |
|---|---|---|---|
| IRP queues (`startirp.c`, `io.c`, `timeout.c`, `wait.c`) | per port four queues (READ, WRITE, WAIT, CLOSE): `pCurrent`, a list, `amountInWriteQueue`; per IRP a cancel routine, a status, `Information`, flags | `FdoPortStartIrp`, `StartIrp`, `ShiftQueue`, `CancelRoutine`, `CancelQueue`, `FdoPortCompleteQueue`, `SetIrpTimeout`, `TimeoutRoutine`, `StartCurrentIrp`, `StopCurrentIrp`, `StartXoffCounter` | the I/O manager's cancel, timers, the passes of both ports |
| Buffers (`bufutils.c`) | `readBuf` (a ring, `limit`, `insertData`, `escape`), `txBuf` | `ReadFromBuffer`, `ReadFromTxBuffer`, `WriteToBuffer`, `WriteMandatoryToBuffer`, `WriteRawDataToBuffer`, `MoveRawData`, `WriteToTxBuffer`, `SetNewBufferBase`, `PurgeBuffer`, `SetBufferLimit` | called by the passes |
| Read/write passes (`io.c`) | none of their own | `ReadWrite`, `TryReadWrite`, `ReadWriteDirect`, `SendTxBuffer`, `FdoPortIo`, `SetModemStatus` | shared state of both ports under `ioLock`; `tryWrite` asks for another pass |
| Opening and closing, showing and hiding (`openclos.c`, `pnp.c`, `showport.c`) | `openCount` (interlocked), `isOpen` (read without the lock), `timerClose`, the shown name | `FdoPortOpen`, `FdoPortClose`, `StartIrpClose`, `FdoPortPnp`, `ShowPort`, `HidePort` | `IoInvalidateDeviceRelations`, the CLOSE queue |
| Flow control and modem pins (`handflow.c`, `pinouts.c`, `ioctl.c`) | `handFlow`, `writeHolding`, `writeHoldingRemote`, `sendXonXoff`, modem control and status, the pin map | `SetHandFlow`, `UpdateHandFlow`, `SetModemControl`, `SetXonXoffHolding`, `SetBreakHolding`, 29 IOCTLs | writes the peer's status, raises events, sets `tryWrite` |
| Event waits (`wait.c`) | `waitMask`, `eventMask`, the WAIT queue | `SetWaitMask`, `WaitOnMask`, `WaitComplete` | events raised in the passes |
| Write delay and noise (`delay.c`, `noise.c`) | timer, baud-rate budget; random state | `SetWriteDelay`, `WriteDelayRoutine`, `GetWriteLimit`, `GetNoise` | starts passes |
| Devices and numbers (`adddev.c`, `fdobus.c`, `pdoport.c`, ...) | bus list and port numbers, device objects | `AddFdoBus`, `AddFdoPort`, `ListFdoBusGetFreeNum`, `RemoveFdoPort` | PnP |
| Information, tracing, strings | none | | |

### The programs

| Component | State | Operations | Interacts by |
|---|---|---|---|
| Set-up (`setup`, `setupc`, `setupg`) | registry: port names, parameters, the COM data base | install, remove, change, list pairs; busy masks | SetupAPI |
| com2tcp | two 64-byte buffers, outstanding operations, protocol queues, Telnet options | `InOut` pump, `WaitComReady`, Telnet negotiation | overlapped I/O events |
| hub4com: hub (`comhub.cpp`, `filters.cpp`, `hubmsg.cpp`) | ports, routing maps, filter chains | `OnRead`, `Write`, `FlowControl` routing | messages between ports and filters |
| hub4com: port drivers (serial, tcp, connector, ...) | write queues, XON/XOFF marks, connection state, reconnect timer | write, read, connect, disconnect, accept | APCs and window messages of one thread |
| hub4com: filters (awakseq, escparse, telnet, pin2con, crypt, ...) | parser state, CONNECT counters | `InMethod`, `OutMethod` | chains of messages |
| Scripts, installer, tests, documents | | | |

### What is hard, and what makes each component correct

* **IRP queues.** `IoCancelIrp` takes the cancel routine of an IRP at any moment,
  also inside a critical section; completion happens after the lock is dropped;
  timers expire whichever IRP is current by then. Correct: every IRP is completed
  exactly once, is in one list at most, is never forgotten, moves bytes in the
  order of acceptance, is ended by its time-out, and is accounted for exactly
  in `amountInWriteQueue`.
* **Buffers and passes.** Five places can hold bytes of one direction and each
  pass has shortcuts between any two of them. Correct: the reader sees one stream
  in order, no pointer leaves its ring, the limit of the flow control holds,
  no READ waits beside data, every loop under the spin lock ends.
* **Open and close.** Counters and flags are touched in different order by the
  opener, the closer, the close timer and the PnP thread, partly unlocked.
  Correct: one user per port, clean-up belongs to that user, visibility
  settles to what the modes say, CLOSE always returns.
* **Flow control.** Every event that ends a reason for holding must restart the
  writer. Correct: no lost wake-up, the peer is stopped above the XOFF limit
  and released below the XON limit.
* **Event waits.** An event between two `WAIT_ON_MASK`s must not be lost.
* **Numbers.** Two buses never get one number although the list that is searched
  is assumed to be sorted.
* **com2tcp.** The pump must not wait with nothing outstanding; the search for
  the awakening sequence must find it; option negotiation must end.
* **hub4com.** Write queues keep order and tell XOFF before they overflow;
  CONNECT messages balance; a filter that refuses a message must not leave half
  of its effect behind; the reconnect timer, CONNECT and the listener race for
  one port.

`PROJECT.json` lists the hazards at their lines, with the properties on them.

## 2. Plan

Done: the queue of IRPs, the bytes of one direction, opening and closing, flow
control and pins (the driver); hub4com with its drivers and filters; com2tcp; the
set-up library. Proved: what section 6 lists.

Left, in order of weight:

1. Proofs: com2tcp with telnet and the filters of the hub, by the induction over
   sequences of section 6; `Restored` of the set-up.
2. `EventWait`: the masks of `wait.c` and the events of the passes: no event is lost
   between two `WAIT_ON_MASK`s or reported twice.
3. The timer of the write delay, and `HandFlow` composed with `ReadBuffer`.

Abstract specification: `Stream`, what a null modem promises, which `ReadBuffer`
implements. For the hub and com2tcp the promise is stated as an invariant over what
went in and what came out (`Transparent`, `Faithful`), since it has no state of its own
besides these.

## 3. Modules

### `IrpQueue`: one queue of a port

One queue and everything that may touch it. A critical section under `ioLock` is
cut into micro-steps between two accesses to what the lock does not cover, the
cancel routine and `Irp->Cancel`: `lock` is the thread inside, `cs.pc` its
place, `cs` its local variables. Everything else interleaves.

| In the code | In the model |
|---|---|
| `pCurrent`, the list, IN_QUEUE, IS_CURRENT | `q` |
| cancel routine, `Irp->Cancel`, progress of `IoCancelIrp` | `armed`, `cancel`, `canceller` |
| `FdoPortStartIrp` (`startirp.c:310-441`) | `Submit`, the `Refuse...`, `Start...`, `Enqueue`, `FlushBehindCounter`, `SupersedeCounter`, `StartedPending`, `StartedDone`, `Return` |
| `StartCurrentIrp`, `StopCurrentIrp`, the turns of `TryReadWrite` | `Next...`, `Transfer`, `Hold`, `Satisfy`, `Stop...`, `Recheck...`, `PassAgain`, `PassEnd` |
| `StartXoffCounter`, `OnRxChars` | `Counter...`, `CountDown` |
| `IoCancelIrp` and `CancelRoutine` | `IoCancelIrp`, `TakeCancelRoutine`, `CancelRoutine` |
| `CancelQueue` (purge, cleanup, abort on error) | `CancelQueue`, `OverrunAbort`, `PurgeCurrent`, `PurgeEnd` |
| `SetIrpTimeout`, timers, `TimeoutRoutine` | `IrpTimeout...`, `TimerFires`, `TimeoutRoutine` |
| `FdoPortCompleteQueue` | `CompleteQueued` |

The kinds of the IRPs in the initial state say whether the queue is a READ, a
WRITE or a WAIT queue. Bytes are counts: how many move in a pass is any
number that the rest of the system could let through. `ahead` is history: what
was queued when an IRP was accepted.

### `ReadBuffer`, `Stream`: the bytes of one direction

`ReadBuffer` has both rings with their pointers, `insertData`, pending WRITEs and
READs, and the pass of `TryReadWrite` with one loop turn or one character per
step. `work.pc` is the place in the pass; calls of the driver come at `idle`,
because one lock covers the pass. `Received(c)` is what `CopyCharsWithEscape`
makes of a character: stripped, escaped, damaged and reported, replaced by the
error character. The write-delay budget and whether the writer is held are chosen
when a pass starts; the handshaking that decides them is in `HandFlow`.
A ring's freed byte is overwritten with `Stale`, so reading it shows.

`Stream` is the promise: `todo`, `pending`, `out` and what each may turn into.
`ReadBuffer` implements it with `todo` = TX buffer and WRITEs, `pending` = ring
and `insertData` (`KeepsPromise`). `Course` says what a pass has moved at each of its places, on which
the proof of that rests.

### `HandFlow`: flow control and modem lines

Both ports of a pair, each a record, with one READ and one WRITE pending in each. A
call of the driver is one step, and so is each turn of the loop of `ReadWrite` that
follows it; `pass` is the writer of the turn that is due, and no call comes
before the turns are over, since all of it runs under `ioLock`.

| In the code | In the model |
|---|---|
| `handFlow`; `modemControl`, `modemStatus`; `writeHolding`, `writeHoldingRemote` | `hand`; `mcr`, `status`; `holding`, `told` |
| `sendXonXoff`, `tryWrite`; `readBuf.limit`, `readBuf.busy`, `txBuf` | `x`, `try`; `limit`, `busy`, `tx` |
| the current WRITE and READ | `toSend`, `wanted`: what is left of them, 0 for none |
| the pin map (`pinMap`, `PinWire`) | the constant `Wiring` |
| `SetModemControl` (`pinouts.c`), `SetModemStatus` (`io.c`), `SetModemStatusHolding` | the operators of these names |
| `UpdateHandFlow` | `UpdateHandFlow`: `Stop` when the buffer fills, `Release` when it empties |
| `SetHandFlow`, `SetLimit` | `SetHandFlow`, `NewHand`, in the order of the code |
| `TryReadWrite`: `ReadFromBuffers`, `SendTxBuffer`, `ReadWriteDirect`, `WriteToBuffers` | `RingToRead`, `TxToRead`, `TxToRing`, `XDirect`, `DataDirect`, `XToBuffers`, `DataToBuffers` |
| `OnRxChars` and the removal of XON and XOFF from the stream | `Hear`, `Kept` |
| IOCTLs SET_RTS, CLR_RTS, SET_DTR, CLR_DTR, SET_MODEM_CONTROL, SET_XON, SET_XOFF, PURGE | `SetRts`, `SetDtr`, `SetControl`, `SetXon`, `SetXoff`, `Purge` |

Operators take the state of the pair and return the next one, in the order in which
the code calls them, so that a step is their composition. Bytes are counts, except
that a control character keeps its place in the TX buffer. Where the TX buffer wraps is not
kept: `ReadFromTxBuffer` copies it by pieces and stops at one that is all stripped, so a turn
chooses how long the first piece is (`Pieces`). `calls` bounds the
changes of settings, `turns` and `paused` are history.

### `OpenClose`: sessions and visibility of a pair

Users are threads that call CreateFile and CloseHandle. A user goes
idle → counted → checked → announced → ready → opened → held → closing → told →
cleared → idle, by way of `pending` in exclusive mode, or to `refused`. Each
arrow is one access to shared state of `FdoPortOpen` (`openclos.c:111-218`) or
`FdoPortClose`/`StartIrpClose` (220-330). The PnP thread reads the local then
the remote `isOpen` without the lock, hides or shows, then completes a pending
CLOSE (`pnp.c:404-431`). That PnP queries of a device are serialised, and that a
query follows an invalidation some time, is external: it comes from the PnP
manager, and the model lets a query come at any time besides.

### hub4com

The hub is one thread. A message that a port reads goes in one call through its
filters, along the routes, through the filters of the ports it is sent to and into
their drivers, which may read other messages in the middle of it. The modules therefore
are operators from a *world* `w` to the next one, composed as the code composes the calls,
and an action is one call that the system makes of the hub's thread.

| Module | Code | State |
|---|---|---|
| `HubMsg` | `plugins_api.h`, `hubmsg.cpp`, `export.cpp` | messages and chains of them; a byte, a status and a set of options are sets of names |
| `StatusFilters` | echo, escparse, escinsert, pinmap, lsrmap, linectl, purge | the record `f` of a filter instance |
| `ConnectionFilters` | pin2con, awakseq, crypt, tag, tag-sync | the same |
| `Telnet` | the telnet filter with the COM-PORT option of RFC 2217 | the same, with the protocol `f.t` |
| `Filters` | the methods of the plug-ins | dispatch on the kind of the filter |
| `PortStates` | the constructors of the drivers | `w.port[p]` |
| `PortIo` | what the drivers share: `OnRead`, overlapped calls, marks of XOFF and XON | |
| `SerialPort` | `plugins/serial`: `comport.cpp`, `comio.cpp` | handle, reads, writes, waits, write queue, options |
| `TcpPort` | `plugins/tcp`: `comport.cpp`, `comio.cpp`, the listener | socket, connection, timer, write queue |
| `Connector` | `plugins/connector` | counters of connections and XOFFs |
| `Hub` | `comhub.cpp`, `filters.cpp`, `port.cpp`, `route.cpp`, the options of `hub4com.cpp` | `w.flt`, `w.data`, `w.fc`, `w.stopped` |
| `HubWorld` | the system around: completions, socket events, timers, failing calls; peers and devices | `w`, `outside`, `heard`, `events`, `faults` |

`Init`, `StartAll` and the negotiation of options that they run are evaluated as the
initial state. `MCHubPorts` has the drivers under a hub without filters: a serial port
that dials out, a shared serial port behind a listener or a client, a relay of two TCP
ports, a bank of two listeners. `MCHubFilters` has the command files of `hub4com/examples`,
two hubs joined by a connection: both escape filters (`esc`), telnet with RFC 2217
and ciphering (`rfc2217`), a connection made by DSR (`pin2con`), tagged subports
(`mux`), an awakened port that echoes (`awak`) and a server whose client is no hub (`answers`).

### com2tcp

`RedirProtocol` is `Protocol` and `TelnetProtocol`: the two streams, their threshold, and the
telnet machine. `Com2Tcp` is the program: `pc` is the place in `WaitComReady`, `InOut` and
around them, `op` the five overlapped operations, `sendBuf` and `writeBuf` the two buffers,
`net` and `com` the socket and the port. An operation may end at once, later, in part
or with an error, whenever it is outstanding. `out` is history, what the session has read and written.

### Set-up

`PortParams` is `params.cpp`: parsing, printing and saving the parameters of a port, one bit
of two masks each. `Devices` is the machine: bus and port devices, the driver's list of
buses (`adddev.c`), the registry, the data base of COM names, and what Windows does when a
device is disabled, removed or restarted. `SetupSteps` has the dialogs, the COM data base
(`comdb.cpp`) and the loops over devices (`devutils.cpp`); `Setup` the commands
(`setup.cpp`). A command is a sequence of steps, `c.todo`; a step that fails drops the
steps behind it up to the one that its `goto err` leads to. Every call of Windows may fail
once, the user answers dialogs in every way, programs hold ports and drivers take names
in between. "Try Again" is what the code makes of it: a call repeated, an enumeration begun
anew, or, when the driver of a new pair cannot be updated, the device removed and made again
(`StartDevice`, `Undone`).

### Proof modules

`IrpQueue_proofs` (ownership, lists), `IrpQueueOrder_proofs` (order, timers, byte count),
`ReadBuffer_proofs`, `ReadBufferStream_proofs` (the refinement of `Stream`), `OpenClose_proofs`,
`HandFlow_proofs`, `Com2Tcp_proofs`, `Setup_proofs`, each on the module it is named for.

### Faulty variants

Operators marked "faulty" in the modules are the ways a definition could plausibly
go wrong; each property is checked to notice one of them (`mutants` in
`PROJECT.json`). No specification uses them.

## 4. Runs

| Run | Question | Instance |
|---|---|---|
| `irp_safe` | Is each IRP owned by one thread, completed once, in one list, not lost, not left in the queue when it was cancelled, and covered by its timer? | 2 IRPs of one queue, each kind; one may be cancelled; one worker besides the dispatch and cancel threads; total time-out |
| `irp_order` | Do WRITEs leave in order, does FLUSH wait, is the byte count exact? | 3 IRPs of WRITE, FLUSH, IMMEDIATE_CHAR; two turns per pass |
| `irp_live` | Does a time-out or a cancel always end an IRP? | 2 IRPs of READ or WAIT; fairness below |
| `irp_preempt` | Does `OneList` hold with an IMMEDIATE_CHAR in front of a counter? It does not, see 7 | 4 IRPs of WRITE, XOFF_COUNTER, IMMEDIATE_CHAR |
| `buf_stream` | One stream for the reader, with overrun emulation, error character, a write delay and handshake limits; every pass ends | ring 3, TX buffer 3, WRITEs of 1 and 2 bytes, READ of 2 |
| `buf_escape` | The same stream with escape insertion, LSR insertion and status sequences, and a ring that grows | rings 2 to 4, READ of 3 |
| `open_modes` | One user per port, state follows the user, visibility settles, CLOSE returns | one plug-in port, one exclusive port, 2 users |
| `flow_control` | Do lines and statuses follow each other, is the peer stopped and released in time, is nobody left waiting, does the loop of `ReadWrite` end, does a WRITE drain? | A alternates XON/XOFF, honouring CTS and DCD, with RTS toggling; B alternates RTS and DTR handshaking, each with XON/XOFF; DSR of B is an inverted output that A sets; ring 3, TX buffer 2, requests of 2; 3 changes of settings or pins |
| `hub_ports` | Do the counters of connections and XOFFs come out even, is data kept in order, does XOFF end, is what is wanted opened? | the five setups of `MCHubPorts`, queues of 3 bytes, 1 to 3 events of peers, one failing call of any kind |
| `hub_filters` | Does each pair of filters undo what the other does, do pins, baud rates and connections arrive, is each request answered? | the six setups of `MCHubFilters`, reads that cut the stream, 2 or 3 events |
| `com2tcp` | Does a session carry what it reads, hold back what its streams cannot take, and end? | four command lines (client or server, raw or telnet, with an awakening sequence), two peers, threshold 1, operations of 2 bytes, one failing call, one change of DSR |
| `setup` | Do numbers, names and device states stay consistent, does every command return? | 2 places for pairs, numbers 0 to 2, two COM names; 16 scripts on 4 machines, 1 failing call, 1 "Try Again", 1 act of another program; `list` on every combination of parameters kept |

Distinct states: `open_modes` 94 thousand, `hub_ports` 34 thousand, `hub_filters` 103 thousand,
`com2tcp` 267 thousand, `flow_control` 304 thousand, `setup` 412 thousand, `irp_safe` 1.0 million.

Why the bounds are enough. Ownership of one IRP involves that IRP, the thread that
moves it and its canceller: two IRPs give one that is current and one behind it,
which every shift of the queue needs; order needs three (one preempting, two whose
order matters). Rings of 3 are the smallest in which the busy run and the free run
both wrap with a byte between the pointers, and WRITEs of 2 bytes straddle
the end of the ring and of the TX buffer. `TxSize` = 3 stands for 15: the TX
buffer takes characters only when it holds at most one, so its size matters
as "one", "some" and "full". Two users are one that has the port and one that
tries to get it, and one per port to race in the modes. In `flow_control` the
limits leave one count between XON and XOFF, the least at which hysteresis shows; requests
of 2 leave part of a WRITE in the TX buffer behind a full ring; three changes
reach handshaking in both directions and one change in mid-transfer. `MaxTurns` = 4 is
exact there: 3 is exceeded. `MaxPasses` bounds the
`tryWrite` loop, which the code bounds by the bytes that move.

A write queue of 3 bytes has its marks at 1 and 2, so that it can be below, between and above
them, and drops at its limit. Two or three characters of a device are a read that is held up
behind one that is written. `Wrap` is the range of a DWORD, small enough that a counter that
goes below zero is seen. A filter's state is that of a parser of one character at a time: the
feeds have each escape character inside data, each kind of status, and `reads` cuts
them at every place or passes them whole; `Backlog` keeps devices slow in `hub_filters`, whose
question is what filters do to a stream, and is no bound in `hub_ports`. In `com2tcp` a
threshold of 1 below the size of an operation makes both streams full and makes writes end in part;
two peers show what a session leaves to the next. In `setup` two places and three numbers
are what the search for a free number needs to skip one; one failing call at each place with one
retry reaches every error path, which the code leaves at the first failure.

Requests in `IrpQueue` are finite (`Irps`), and everything stops when all are done:
`Serve` and the purge remain possible, so there is no deadlock. The hub and com2tcp do stop,
when their peers and devices have nothing more to say, so these runs do not check deadlock.

What the properties of the runs leave open, beside the settings that section 7 excludes: the drop of
a buffer at the limit of a write queue of hub4com (the feeds never fill one beyond it), the
reconnection of a TCP client (`OpensWhenWanted` is about serial ports), a disconnection that is put off
to the end of a read and then forgotten (`CountersAgree` catches what is doubled or unpaired), and a
pump of com2tcp that waits with nothing outstanding while its connection lasts.

Each module defines more properties than the runs check, kept because they are true of the
instances (or, where section 7 says so, show a deviation) and can be checked by adding a line to a
cfg: the `TypeOK`s, `OneHolder`, `ReadNotStarved`, `FewTurns`, `XoffsAgree`, `Conserved`, `NotDeaf`,
`Reconnects`, `OptionsSettled`, `Awakened`, `DsrEnds`, `RunsItsName`, `ListReadsBack`, and the inductive
invariants of the proofs.

## 5. Fairness

* `IrpQueue.FairSpec`: weak for the holder of the lock (a spin lock is held at
  DISPATCH_LEVEL and nothing in the section waits), for the return of the
  dispatch routine, for the second half of `IoCancelIrp` and for timers;
  strong for the three kinds of thread that wait for the lock - the cancel
  routine, the completion of a WRITE queue, the time-out DPC - since Windows'
  spin lock does not starve a processor. Nothing is assumed of the peer, of the
  programs or of the passes on behalf of others: `TimeoutCompletes` holds
  although no byte may ever move.
* `ReadBuffer.FairSpec`: weak for the step of the pass that runs.
* `OpenClose.FairSpec`: weak for the steps of a thread inside the driver, for the
  timer and its DPC. None for opening or closing, and none for the PnP manager:
  `CloseReturns` rests on the close timer alone.
* `HandFlow.FairSpec`: weak for a turn of `ReadWrite`, which holds the spin lock;
  strong for `Read`, that is programs go on reading and the lock does not starve
  them. Nothing is assumed of writing, settings or pins. `Drains` exempts what a
  program does to stop a port for good: SET_XOFF without SET_XON (`paused`), a line
  that the other honours and no handshaking will raise (`Unraised`), and a peer that does
  not obey XOFF (`Unheard`). The formulas are WF and SF with what enables
  them spelled out, as TLC evaluates ENABLED of such nested operators too slowly.
* `HubWorld.FairSpec`: weak for what the system owes the hub: what is cancelled or started ends, a
  socket's event and a due timer come, devices and peers take what is written to them and answer
  a connection. Nothing is assumed of what peers and devices send.
* `Com2Tcp.FairSpec`: weak for the thread, which never blocks but in its waits, and for the end of
  operations on a closed connection (Winsock completes them).
* `Setup.FairSpec`: weak for the steps of a command that has begun; "Try Again" is chosen a bounded
  number of times (`Patience`), without which `Returns` would not be true of any program.

## 6. Proofs

TLAPS proves, for every value of the constants under the named assumptions:

| Module | Theorem | Property of a run | Rests on |
|---|---|---|---|
| `IrpQueue_proofs` | `OwnershipInvariant`, `CompletedAtMostOnce` | `Ownership`, `AtMostOnce` | `Ownership` is inductive |
| | `PlacementInvariant`, `InOneList`, `NothingForgotten` | `OneList`, `NoneLost` | `Ownership /\ Placement` is inductive under `NoPreemptedCounter`; `Heeded` beside it |
| `IrpQueueOrder_proofs` | `OrderInvariant`, `WritesInOrder`, `FlushesWaitForWrites` | `OrderPreserved`, `FlushBarrier` | `Order` on top of these two |
| | `TimedInvariant`, `TimersCover` | `TimerCovers`, without interval time-outs | `Timed` on top of `Ownership` and `Placement` |
| | `AmountIsExact` | `AmountExact`, without cancelling and `XOFF_COUNTER` | `Accounts` on top of `Ownership` and `Placement` |
| `ReadBuffer_proofs` | `BuffersSafe`, `LimitKept` | `ChunksFit`, `LimitRespected` | `TypeOK /\ ChunksFit` is inductive |
| `ReadBufferStream_proofs` | `PromiseKept`, `CourseKept`, `NothingOvertaken` | `KeepsPromise` | `TypeOK /\ ChunksFit /\ Course` is inductive under `Steady` |
| `OpenClose_proofs` | `Sessions`, `PortsSettle` | `SessionState`, `SettlesRight` | `Inv`, then `Settling` on top of it |
| `HandFlow_proofs` | `LinesAndWakeUps`, `NoRequestLeft` | `HoldingFollows`, `NoWakeUpLeft` | their conjunction is inductive |
| | `SignalsFollow` | `SignalFollows`, of the settings below | `Telling` and `PinsSay` on top of it |
| | `HysteresisKept` | `Hysteresis`, of the settings below | `Stopped` on top of `Telling` |
| | `NobodyStranded` | `NoneStranded`, of the settings below | `FlowInv`, all of these with `LinesTold`, `LimitsSet` and `ServedBut` |
| `Com2Tcp_proofs` | `RawInvariant`, `RawFaithful`, `RawBounded` | `Faithful`, `Bounded`, without telnet | `RawSessions` is inductive |
| `Setup_proofs` | `PairsOwnTheirNumbers` | `OneNumber`, unless writing a number fails | `NumbersInv` is inductive |

* `Ownership == TypeOK /\ Sections /\ OneOwner`. "Completed at most once" is not
  inductive: nothing in it forbids that an IRP on one thread's `queueToComplete` is
  also about to be taken by the canceller. `Owned(i)` lists the ways to have the right
  to complete an IRP - the cancel routine is there to take, `IoCancelIrp` took it, a
  pass took it, it is on a `queueToComplete`, the dispatch routine returns a final
  status, it is done - and says that they exclude each other. `Sections` ties the place in the
  critical section to its local variables. Any number of IRPs, of workers, of bytes
  and of turns; every time-out setting.
* `Placement` says where every IRP is. "In one list" is not inductive either: whether
  `ShiftQueue` fills a `pCurrent` that is free depends on who took the current IRP, and whether
  an IRP is forgotten on what the thread that has it in its hands still means to do. Its parts:
  `Linked`, the list and the flags mirror each other and nothing is listed twice; `AtCurrent` and `CountsAlone`, what `pCurrent` is
  at each place of a section, and that nothing is queued behind a counter that counts;
  `Claimed` and `Kept`, an IRP in a section is that section's to put back or to complete;
  `Undecided`, `Returned`, `Uncalled`, the dispatch routine before, at and after its decision.
  The hypothesis `NoPreemptedCounter` says that there is no `IMMEDIATE_CHAR` or no `XOFF_COUNTER`
  among the kinds. It is not a convenience: the run `irp_preempt` has both and finds
  `OneList` violated, by the code (section 7).
* `Heeded` is about a cancel that comes while a pass has the cancel routine in its hands: `IoCancelIrp`
  finds none then and does nothing more. Whoever puts a cancel routine into an IRP that is cancelled
  therefore looks at `Irp->Cancel` afterwards (`Rechecking`: `FdoPortStartIrp` and `StopCurrentIrp`),
  or `IoCancelIrp` is still to come for it. With `Claimed` it follows that no cancelled IRP is left in the
  queue for ever, which for a READ its time-out would otherwise hide.
* `Order` says by the list's indexes that what `ahead` remembers for an IRP is in front of it
  while both are linked, and nothing but an `IMMEDIATE_CHAR` gets before; and that a FLUSH on its way to success has nothing of its
  `ahead` in the queue. Every operation on the list is one lemma about indexes.
* `Timed` says whose timer runs. `TimerCovers` looks only at moments without a lock holder, and the timer of the IRP at
  the head may be one that was set for its predecessor: `CancelRoutine` of a READ promotes the next and sets nothing. So `RestTimed` says that the timer runs at rest and
  around a pass, and that no `FLUSH`, which would have set none, is current there; `FirstTimed` that a
  pass comes to its first IRP with the timer running or expired, since `StopCurrentIrp` sets one only
  for the IRPs after it; `TurnTimed` what a turn may end with. Interval time-outs are excluded because
  there it is not so (section 7); with no time-out or an immediate one there is nothing to cover.
* `Accounts` is `AmountExact` for the middle of a critical section too: an IRP is in the account from the
  decision to start or to queue it until it is completed outside the lock or its dispatch routine
  gives it back. Every step is shown to be `Balanced`: the account and the amount stay, an IRP enters with
  nothing moved, leaves with what it has not moved, or moves bytes. That the sum follows is
  proved from what `SumFunctionOnSet` is, a function that recurses over the subsets of a set; `Irps` is finite.
  Both exclusions are deviations of the code (section 7).
* `BuffersSafe`: `RingOK` says that the pointers agree with the count; `ChunksFit`
  says of each loop what it has still to copy against its source and its
  destination. Each is needed for the other: `Take` and `Put` keep
  a ring only when the chunk fits. Arithmetic lemmas about `Take`, `Put`, `Upto`
  and `From` are stated once. Any sizes of rings and limits, any contents. `LimitKept` follows: what
  a step adds is at most the room below the limit.
* `PromiseKept` is the refinement. Every action is shown to take the step of `Stream` it stands for,
  or none, from what the rings hold: `Take` cuts `Content` in front, `Put` joins to its end,
  wherever the pointers wrap, and `FlattenSeq` of the WRITEs is cut in its first one. `FlattenSeq` is a
  recursive function: its value is proved by a least counterexample (`Induction`, from the
  library's `WFMin`), which needs no operator as a parameter. These steps are right only in the order of
  `TryReadWrite`, which `Course` states for each place of a pass: `RingFirst`, `TxFirst`,
  `WriteFirst`, and `ReadFirst` for a READ that waits. `Steady` is not a convenience: where
  the receiver strips a character, and where a sequence is inserted while a character is
  split between two READs, the code breaks the promise (section 7). Both runs of `ReadBuffer` satisfy
  it. `NothingOvertaken` gives, for these settings, what section 7 shows to be broken for others.
* `Inv == TypeOK /\ PendingExclusive /\ OneHolder /\ SessionState` of `OpenClose`. `openCount` is the
  cardinality of the holder and of those being refused, so it is 0 only when there is
  no holder; that a CLOSE is pending only on an exclusive port is what makes `CompleteClose`
  and `CleanUp` lower it once. Any finite number of users, any modes.
* `Settling` says of every state before the quiet one why the visibility will be right:
  a port that is not shown as it should be has a query to come, has one under way that has
  not yet read what it will read wrongly, or has a thread inside the driver that is about to ask
  for one. One assumption was added for it, that `Remote` is its own inverse.
* `Inv` of `HandFlow` is the theorem's own conjunction. `Good(P)` says of any state of the
  pair that it has its type and that `Follows(P)`: statuses are what the pins make of
  them, holding is what is honoured and low. There is one lemma per operator, that
  it takes a good pair to a good pair, and `SetModemControl` is the one that matters:
  the mask of the inputs that changed pins drive covers all whose level changes
  (`LevelsChange`), in any wiring, also one that leads pins back to their own port.
  `SetHandFlow` needs that holding is worked out again exactly when other inputs are
  honoured. That no buffer overflows rests on `MovedFits`: what `Moved` takes out of
  the TX buffer leaves no more than there is room for, with control characters in
  between. `NoWakeUpLeft` needs, in SET_XON, which looks at its own port only, that the
  other's request was served before.
* What the peer is told is proved for any number of changes of settings, in three layers.
  `Telling`: a port tells its peer only by the ways of its settings (`told`, with "CTS" for RTS,
  "DSR" for DTR and "XON" for an XOFF). `PinsSay`: its handshaking pins are low exactly for
  these. `Stopped`: above the XOFF limit it tells, down at the XON limit it does not; a port
  that keeps one way through all changes (`Key`) never ends one stop without having begun
  another. Two relations between states carry these: `Tells(P, Q, p)`, only p told its peer something
  and whoever can send now has asked for a pass, and `Adjusts`, the decision of
  `UpdateHandFlow` when bytes came or went. Each operator of the model has one lemma about them.
* `NoneStranded` is about waking up: nobody who may send is left without a pass. `ServedBut`
  says so in the middle of a call: whoever can send, except the port that is being
  served, has asked for a pass, or has a reader with a full buffer and no READ. What
  makes it inductive is in the other direction. A buffer that is full up to a limit below its size means
  that the writer is held by a line (`LinesTold`: in the crossed wiring the writer's input
  is what the reader tells; `LimitsSet`: the limit is what these lines make it), so it cannot send, and
  when the line rises `SetModemStatus` asks for the pass, which the rise of the limit
  (`SetLimit`) does not.
* The hypotheses of these three are named in `HandFlow`, and each of them excludes a deviation
  that TLC shows when it is dropped (section 7): `NoToggleAfterHandshake` (all three),
  `PinsLeftAlone` (the first and third), `OneLimit` (the second and third), `OneWay` (the second),
  `OneSetOfLines`, `LinesCrossed`, `NothingCleared` (the third). `MCHandFlow` assumes all but
  `OneSetOfLines` of its settings (`RunSettings`), so TLC evaluates them. There the run goes beyond
  the theorem: its port B changes between RTS and DTR, within three changes.
* `RawSessions` of `Com2Tcp` has one formula for either direction, `Carried`: what arrived, what
  is left of the write, and the stream are together what was read, and a read is outstanding
  only while the stream is not full. It is stated of constants, with one lemma per thing that can happen
  to a direction (an operation is issued, taken, ends, fails), and each action uses it for
  one direction or for both. With telnet the protocol answers in between and the promise is about
  `FoldLeft` of the stripped stream; that stays with TLC.

* `NumbersInv` of `Setup`: every pair that is there has a number of its own, except the one that
  Install has just made and not yet numbered (`NewPair`); between the choice of a number and its
  writing that number is free (`Chosen`, `FreeNumber`). Where set-up is in between is read from
  `c.todo`: `Marks` says where the steps "allocate", "create" and "number" can be, and that a failure between the first two
  drops the second, since no step that is run in any case stands between them. What every other step does
  to `c.todo` is one relation (`Follows`: marked steps are only dropped or moved up), and what it does to the
  machine another (`Keeps`: no pair comes, no number changes), with one lemma for each call of Windows and
  each dialog. Starting a bus also takes a number (`GetPortNum`), but only for a pair that has none, and there a
  pair has none only before its step "number". The loops over devices are folds over lists: `LoopKeeps` is proved of
  `FoldLeft` by the least counterexample, and `Reboot` and `UpdateDriver` are such loops. Any number of places, pairs, ports,
  commands, dialogs, failures and strangers. The hypothesis excludes a deviation (section 7).

Assumptions: constants have their types and sizes are positive; `Length > 0`; the
escape character excludes the error character (`ioctl.c` refuses the combination);
`InsertSize >= 7` (7 in the code); `TxSize <= Unlimited`; users are finitely many; every input of a port is
wired to some pin; `TxSize > 1` in `HandFlow` (`WriteToTxBuffer` takes at most one less than the size);
bytes and feeds of com2tcp are sequences; each pair of a machine that set-up is started on has
a number of its own, and scripts are sequences of command lines. The theorems under hypotheses on the settings
name them in their ASSUME.

Model-checked only: liveness (`TimeoutCompletes`, `CancelCompletes`, `PassEnds`,
`CloseReturns`, `Drains`, `XoffEnds`, `OpensWhenWanted`, `CloseEnds`, `Returns`) is out of the prover's reach.
The modules of the hub have RECURSIVE operators where the code recurses (a port written to
reads), which the prover cannot take. `Restored`, `NothingLeft` and `LogAgrees` of the set-up say what the loops
over devices achieve, not only what they keep: what was enabled, removed or released behind the last turn.

## 7. Known deviations

One is a run of `PROJECT.json`, which finds its property violated. `irp_preempt`: a WRITE behind
a counting XOFF_COUNTER (an IMMEDIATE_CHAR leaves it there) is promoted by `ShiftQueue` and
overwritten by the WRITE that ends the counter (`startirp.c:420`); one WRITE is leaked and the other
completed while it is linked.

The others are properties that do not hold of all settings, or paths that the models follow; no
document promises the opposite in so many words, so they are listed and not counted as findings. Where
a property is named, it is defined in the component's module, and the settings in brackets show
it.

Driver:

| Property | What the code does |
|---|---|
| `FinalStatus` (IrpQueue) | `StartIrp` stores STATUS_PENDING after the start routine (`startirp.c:303`), when a second turn of `ReadWrite` may have put the IRP on `queueToComplete` with its final status. |
| `AmountExact` (IrpQueue, a cancellable WRITE) | `FdoPortCompleteQueue` (`startirp.c:240-247`) subtracts the length of every IRP of the WRITE queue, also of one that `FdoPortStartIrp` had refused (line 364) before adding it, when `IoCancelIrp` took the cancel routine first. |
| `AmountExact` (IrpQueue, XOFF_COUNTER) | A WRITE that ends a counting XOFF_COUNTER is counted at `startirp.c:406` and again at 296. |
| `TimerCovers` (IrpQueue, interval time-outs) | The READ that becomes current because its predecessor was cancelled (`startirp.c:157`) gets no interval time-out. |
| `DirectAfterTx` (ReadBuffer, `Stripped`) | A run of the TX buffer of which nothing is left after stripping looks like an empty TX buffer, and later bytes overtake the rest (`bufutils.c:824`). |
| `ReadNotStarved` (ReadBuffer, escape insertion) | A READ taken by the direct loop (`io.c:1220`) while `insertData` is not empty is left pending beside the data. |
| `InsertBehind` (ReadBuffer, `RawSequences` beside `Escaped`) | A status sequence goes straight into a READ (`io.c:917`) inside a character that is escaped and half delivered. |
| `WholeSequences` (ReadBuffer, long sequences) | `MoveRawData` cuts a sequence of several bytes (`cncext.h:34`) where the room ends. |
| `HiddenWhileOpen` (OpenClose, an exclusive port) | The query is requested before `isOpen` is set (`openclos.c:141`, 210), so a port may stay shown while open; `USERGUIDE.md:150` says "hidden only while an application has the port open". |
| `ShownAfterClose` (OpenClose) | `pnp.c:418` reads `isOpen` without the lock; the CLOSE is then completed with the port hidden. |
| `RefusedOnlyWhileOpen` (OpenClose) | A refused CreateFile keeps `openCount` raised for a moment (`openclos.c:127`), in which another one is refused although nobody has the port. |
| `XoffStillUnsent` (HandFlow, AUTO_RECEIVE turned off) | "Cancels" an XOFF that was not sent (`handflow.c:212`); if an earlier XOFF is in the TX buffer, with the XON for it replaced by the second XOFF, the peer is stopped and nothing will resume it. |
| `Hysteresis` (HandFlow, two ways to stop the peer) | While one way is in use no second one is started (`handflow.c:265`); when SET_HANDFLOW ends the first, the buffer is full and nobody is told. |
| `SignalFollows` (HandFlow, handshaking, then toggling) | TRANSMIT_TOGGLE leaves CTS in `writeHoldingRemote` (no case for it in `handflow.c:123-154`); handshaking that is turned on again between the limits takes RTS as toggling left it. With XOFF beside, `Hysteresis` fails: the bit that is left looks like a stop in use; and `NoneStranded`, as for SET_MODEM_CONTROL. |
| `SignalFollows`, `NoneStranded` (HandFlow, SET_MODEM_CONTROL) | Sets a pin that the settings have handed over to handshaking (`ioctl.c:258`); SET_RTS and SET_DTR are refused then. The peer, held no longer, finds the buffer at its limit, and a limit that rises asks for no pass. |
| `Hysteresis` (HandFlow, new limits only) | SET_HANDFLOW looks at the buffer only where a mode changes (`handflow.c:123`, 172, 196): new limits alone stop nobody and release nobody. |
| `Hysteresis` (HandFlow, limits that overlap) | An XON limit above what the XOFF limit leaves of the buffer is accepted (`handflow.c:89`, `ioctl.c:553`); between them the peer is to be stopped and released. |
| `NoneStranded` (HandFlow, other wirings) | `SetLimit` (`handflow.c:346-352`) takes CTS of the peer to be this port's RTS; where it is wired to another pin, a limit that rises leaves the WRITE that waited at it untried. |
| `NoneStranded` (HandFlow, a line added to XOFF) | Line handshaking that is turned on while an XOFF stops the peer does not lower the line (`handflow.c:265`), but lowers the limit; when the limit rises again no line does, and nobody tries the WRITE. |
| `NoneStranded` (HandFlow, RXCLEAR among the purges) | RXCLEAR makes room (`ioctl.c:474`), and nobody tries the WRITE that waits for it unless handshaking was in use. |

`irp_order` leaves out XOFF_COUNTER and cancelling, and `irp_safe` the interval time-out,
because of these; `flow_control` leaves out RXCLEAR, handshaking followed by toggling in
one port, and AUTO_RECEIVE being turned off.

hub4com:

* A source that was told XOFF by a serial port in share mode is never resumed when the port is closed and
  opened in between, and data may wait in `pWriteBuf` beside a free overlapped write, against
  `_ASSERTE(pWriteBuf == NULL)` of the serial `comport.cpp` (`SharedXoffEnds`, `NothingBufferedWhileFree`,
  setup `shared_often`). `PurgeWrite(FALSE)`'s assertion `writeLost >= writeQueued` can fail too.
* A telnet server never answers a request for a baud rate that its device refuses (setup `refused`);
  its `SetLC` overwrites the parts of an earlier request that were not reported yet.
* `FAIL_IN_OPTS` is built with `u.val` and read by filters as `u.pv.val`.
* A refused message (`comhub.cpp:206`) drops the echo but routes the half-filtered chain.
* telnet drops an escaped IAC inside a subnegotiation, and keeps an XOFF over a disconnection while suspended;
  escparse keeps its parser's state over a reconnection.
* A TCP client whose `StartConnect` fails at once schedules no retry; one that is not permanent
  is not reconnected while its counter is above zero; awakseq takes a second CONNECT as a new one.
* `Connector`'s test for loops sees loops of one link; a flow-control route disables the
  default data routes of its ports.

com2tcp:

* After a mismatch the search for the awakening sequence starts anew, without the characters that
  may begin it again: "aab" is not found in "aaab" (`AwakenedAlways`, command line of `RepeatedSequence`).
* A failing ReadFile in `WaitComReady` counts as ready; the program exits when the connect fails.

Set-up:

* A number is taken twice when a new pair's number cannot be written and the user goes on (`setup.cpp:1202`; fault
  "number", not in the run, excluded from `PairsOwnTheirNumbers`): the driver chooses one then, looks only at the pairs that run
  (`ListFdoBusGetFreeNum`, `adddev.c:682`), and takes that of a disabled one. Its list is not sorted either (716).
* Uninstall whose `ComDbSync` fails reports success and leaves names; one that fails in `RemoveDevices` or
  `DeleteService` leaves devices disabled or removed; Remove reports success when `DIF_REMOVE` failed.
* When the log cannot be read or the user goes on without it, `ComDbSync` works with an empty one
  (`comdb.cpp:198-285`) and the next name noted overwrites it: names that were noted only there stay claimed. So `LogAgrees`
  exempts failures of the log ("load log", "save log") and of the arbiter, and `NothingLeft` with it.
* A name stays in the log when its pair goes at a restart, and a name released after the log could not
  be saved may by then be another driver's (`NoneStolen`). `PortParameters::Save` forgets a `SaveDw` that fails.

## 8. Not modelled

* Removal of a device while it is in use (`RemoveFdoPort`): only after PnP has seen that
  no handle is left.
* The masks and events of WAIT_ON_MASK and the timer of the write delay: see section 2. In
  `ReadBuffer` the budget and whether the writer is held are choices made when a pass starts, a
  superset of what can be decided at that point, and XON or XOFF arriving within a pass
  is left out there (`HandFlow` has it).
* In `HandFlow`: BREAK, the write delay, overrun, noise, escape and LSR insertion, more than
  one READ and WRITE per queue, XOFF_COUNTER and IMMEDIATE_CHAR, SET_QUEUE_SIZE, RESET_DEVICE,
  the RI, OPEN and constant inputs, opening and closing in mid-transfer.
* Information queries, tracing, string helpers: answers from constants and current values.
* hub4com: loading plug-ins, parsing options, the trace filter, ERROR_OPERATION_ABORTED branches. The keys
  of crypt can always be derived (`crypt/filter.cpp:191-207`): without them it refuses all data of the connection,
  as it does without a connection.
* com2tcp: parsing of the command line, output. What is still in the streams when a session ends is lost, as in the code.
* Set-up: the command line, `busynames`, waiting for pending installations, failing allocations,
  and the GUI, which is a form around setupc.
* Documents, scripts, installer and old sources.
