----------------------------- MODULE ReadBuffer -----------------------------
(***************************************************************************)
(* The path of the bytes from the WRITEs of one port to the READs of its   *)
(* peer: bufutils.c and the passes of TryReadWrite (io.c) over it.         *)
(*                                                                         *)
(*   writes --> tx --> rx, then insert --> READ        (and every shortcut *)
(*                                                      between them)      *)
(*                                                                         *)
(* rx and tx are rings of bytes with pointers.  insert holds the few bytes *)
(* that must follow the ring's but found no room in it: the rest of an     *)
(* escaped character or of an inserted status sequence.                    *)
(*                                                                         *)
(* All of this runs under the lock of the pair, one loop turn or one       *)
(* character per step here, with work.pc the place in TryReadWrite; calls  *)
(* of the driver are taken at pc "idle".  The line's noise, handshaking    *)
(* and the baud rate decide how a character is transformed, whether the    *)
(* writer is held and how much a pass may send: data here, given by        *)
(* constants or chosen when a pass starts.                                 *)
(***************************************************************************)
EXTENDS Integers, Sequences, SequencesExt

CONSTANTS
  Chars,       \* the characters that are written
  Stripped,    \* those the receiver strips: NUL, XON and XOFF
  Escaped,     \* the receiver's escape character, if LSRMST_INSERT set one
  Damaged,     \* those that noise damages on the line
  InsertLsr,   \* C0CE_INSERT_ENABLE_LSR
  ErrorChar,   \* SERIAL_ERROR_CHAR
  EmuOverrun,  \* EmuOverrun of the receiving port
  RawSequences,\* the status sequences that may be inserted
  Sizes,       \* the sizes that the receive buffer is given
  TxSize,      \* the transmitter's holding and shift registers
  InsertSize,  \* sizeof(insertData.data)
  XoffLimits,  \* the XoffLimit of the receiving port's handshaking
  WriteInputs, \* the buffers of the WRITEs
  ReadLengths, \* the lengths of the READs
  MaxWrites,   \* bound on the pending WRITEs
  MaxReads,    \* bound on the pending READs
  Budgets,     \* what the write delay lets a pass send
  Unlimited,   \* the budget without a write delay
  Holds        \* the values of writeHolding a pass may find

Stale == "stale" \* a byte of a ring that was taken and is not valid any more
StatusChars == UNION {Range(s) : s \in RawSequences}
Symbols == Chars \cup StatusChars \cup {"ESCAPE", "LSR_DATA", "lsr", "error"}

\* SET_HANDFLOW refuses SERIAL_ERROR_CHAR together with an escape character.
ASSUME SettingsAssumption ==
  /\ Escaped \subseteq Chars /\ Stripped \subseteq Chars /\ Damaged \subseteq Chars
  /\ InsertLsr \in BOOLEAN /\ ErrorChar \in BOOLEAN /\ EmuOverrun \in BOOLEAN
  /\ InsertLsr => Escaped # {}
  /\ ErrorChar => Escaped = {}
  /\ Stale \notin Symbols
ASSUME SizesAssumption ==
  /\ Sizes \subseteq Nat \ {0} /\ Sizes # {}
  /\ TxSize \in Nat /\ TxSize > 1
  /\ InsertSize \in Nat /\ InsertSize >= 7
  /\ XoffLimits \subseteq Nat
ASSUME InputsAssumption ==
  /\ WriteInputs \subseteq Seq(Chars) \ {<<>>}
  /\ RawSequences \subseteq Seq(StatusChars) \ {<<>>}
  /\ \A s \in RawSequences : Len(s) <= InsertSize
  /\ ReadLengths \subseteq Nat \ {0}
  /\ MaxWrites \in Nat /\ MaxReads \in Nat
  /\ Budgets \subseteq Nat /\ Budgets # {}
  /\ Unlimited \in Nat /\ TxSize <= Unlimited
  /\ \A s \in WriteInputs : Len(s) <= Unlimited
  /\ Holds \subseteq BOOLEAN /\ Holds # {}

VARIABLES
  rx,     \* readBuf: the ring of the receiving port
  limit,  \* readBuf.limit
  insert, \* readBuf.insertData
  tx,     \* txBuf of the sending port
  writes, \* what is left of each pending WRITE
  reads,  \* the length of each pending READ
  out,    \* the buffer of the first READ
  work    \* where TryReadWrite or FdoPortIo is

vars == <<rx, limit, insert, tx, writes, reads, out, work>>

(***************************************************************************)
(* Rings.                                                                  *)
(***************************************************************************)
Ring(n) == [size |-> n, mem |-> [c \in 0 .. n - 1 |-> Stale],
            busyAt |-> 0, freeAt |-> 0, busy |-> 0]

\* How many bytes can be taken, or put, without wrapping.
FilledRun(r) == IF r.freeAt <= r.busyAt THEN r.size - r.busyAt ELSE r.busy
FreeRun(r) == IF r.busyAt <= r.freeAt THEN r.size - r.freeAt
                                      ELSE r.busyAt - r.freeAt
Wrap(r, at) == IF at = r.size THEN 0 ELSE at

Cells(r, n) == [k \in 1 .. n |-> r.mem[r.busyAt + k - 1]]
Take(r, n) ==
  [r EXCEPT !.mem = [c \in DOMAIN @ |->
                      IF c \in r.busyAt .. r.busyAt + n - 1 THEN Stale ELSE @[c]],
            !.busyAt = Wrap(r, @ + n),
            !.busy = @ - n]
Put(r, s) ==
  [r EXCEPT !.mem = [c \in DOMAIN @ |->
                      IF c \in r.freeAt .. r.freeAt + Len(s) - 1
                      THEN s[c - r.freeAt + 1] ELSE @[c]],
            !.freeAt = Wrap(r, @ + Len(s)),
            !.busy = @ + Len(s)]

\* The k-th byte that is held, wherever the pointer wraps.
Place(r, k) == IF r.busyAt + k <= r.size THEN r.busyAt + k - 1
                                         ELSE r.busyAt + k - 1 - r.size
Content(r) == [k \in 1 .. r.busy |-> r.mem[Place(r, k)]]

Least(m, n) == IF m <= n THEN m ELSE n
Upto(s, n) == SubSeq(s, 1, Least(Len(s), n))
From(s, n) == SubSeq(s, n + 1, Len(s))

(***************************************************************************)
(* What CopyCharsWithEscape makes of one character of the line.            *)
(***************************************************************************)
LineError(c) ==
  IF InsertLsr THEN <<CHOOSE e \in Escaped : TRUE, "LSR_DATA", "lsr", c>>
               ELSE <<>>
Data(c) ==
  CASE c \in Stripped -> <<>>
    [] c \in Escaped \ Stripped -> <<c, "ESCAPE">>
    [] OTHER -> <<c>>
Received(c) ==
  IF c \notin Damaged THEN Data(c)
  ELSE LineError(c) \o (IF ErrorChar THEN <<"error">> ELSE <<>>)
                   \o (IF InsertLsr THEN <<>> ELSE Data(c))

(***************************************************************************)
(* A pass and its place.                                                   *)
(***************************************************************************)
Labels == {"idle", "read", "txread", "txcopy", "sendtx", "direct", "dcopy",
           "write", "fill", "fillcopy", "txfill", "insread", "insring"}

Idle == [pc |-> "idle",   \* the place
         budget |-> 0,    \* *pWriteLimit
         hold |-> FALSE,  \* writeHolding of the sending port
         src |-> "write", \* what WriteToBuffer copies from
         chunk |-> 0,     \* characters it or CopyCharsWithEscape has still to take
         room |-> 0,      \* bytes it still may put
         moved |-> 0,     \* what it has done so far
         raw |-> <<>>]    \* the status sequence FdoPortIo inserts

At(pc) == work.pc = pc
Goto(pc) == work' = [work EXCEPT !.pc = pc, !.chunk = 0, !.room = 0, !.moved = 0]
StartPass == \E b \in Budgets, h \in Holds :
  work' = [Idle EXCEPT !.pc = "read", !.budget = b, !.hold = h]
\* What handlers do that call ReadWrite only when a writer waits (tryWrite).
MayStartPass == StartPass \/ UNCHANGED work

Spend(budget, n) == IF budget = Unlimited THEN budget ELSE budget - n
Left == Head(reads) - Len(out)

(***************************************************************************)
(* Calls of the driver.                                                    *)
(***************************************************************************)

\* FdoPortRead: only the first READ runs a pass, the others are queued.
StartRead ==
  /\ At("idle") /\ Len(reads) < MaxReads
  /\ \E n \in ReadLengths : reads' = Append(reads, n)
  /\ IF reads = <<>> THEN StartPass ELSE UNCHANGED work
  /\ UNCHANGED <<rx, limit, insert, tx, writes, out>>

\* FdoPortWrite, likewise.
StartWrite ==
  /\ At("idle") /\ Len(writes) < MaxWrites
  /\ \E s \in WriteInputs : writes' = Append(writes, s)
  /\ IF writes = <<>> THEN StartPass ELSE UNCHANGED work
  /\ UNCHANGED <<rx, limit, insert, tx, reads, out>>

\* The write delay timer and every other caller of ReadWrite.
Tick ==
  /\ At("idle") /\ StartPass
  /\ UNCHANGED <<rx, limit, insert, tx, writes, reads, out>>

\* IOCTL_SERIAL_PURGE with SERIAL_PURGE_RXCLEAR.
PurgeRx ==
  /\ At("idle") /\ MayStartPass
  /\ rx' = Ring(rx.size) /\ insert' = <<>>
  /\ UNCHANGED <<limit, tx, writes, reads, out>>

LimitFor(size, xoff, handshake) ==
  IF handshake THEN Least(size, size - xoff + 1) ELSE size

\* IOCTL_SERIAL_SET_HANDFLOW.
SetHandFlow ==
  /\ At("idle") /\ MayStartPass
  /\ \E xoff \in XoffLimits, handshake \in BOOLEAN :
       xoff <= rx.size /\ limit' = LimitFor(rx.size, xoff, handshake)
  /\ UNCHANGED <<rx, insert, tx, writes, reads, out>>

\* faulty: only the bytes up to the end of the old ring are moved
SetQueueSizeFirstRun ==
  /\ At("idle") /\ MayStartPass
  /\ \E n \in Sizes, handshake \in BOOLEAN :
       /\ n > rx.size
       /\ rx' = Put(Ring(n), Cells(rx, Least(rx.busy, FilledRun(rx))))
       /\ limit' = LimitFor(n, n \div 8, handshake)
  /\ UNCHANGED <<insert, tx, writes, reads, out>>

\* IOCTL_SERIAL_SET_QUEUE_SIZE: the bytes are moved to the start of a bigger
\* ring, and insertData is kept.
SetQueueSize ==
  /\ At("idle") /\ MayStartPass
  /\ \E n \in Sizes, handshake \in BOOLEAN :
       /\ n > rx.size
       /\ rx' = Put(Ring(n), Content(rx))
       /\ limit' = LimitFor(n, n \div 8, handshake)
  /\ UNCHANGED <<insert, tx, writes, reads, out>>

\* FdoPortIo with C0C_IO_TYPE_INSERT: a modem or line status changed.
StartInsert ==
  /\ At("idle")
  /\ \E s \in RawSequences : work' = [Idle EXCEPT !.pc = "insread", !.raw = s]
  /\ UNCHANGED <<rx, limit, insert, tx, writes, reads, out>>

(***************************************************************************)
(* RX buffer and TX buffer to the READs: ReadFromBuffers.                  *)
(***************************************************************************)
ReadRing ==
  /\ At("read") /\ reads # <<>> /\ Left > 0 /\ rx.busy > 0
  /\ LET n == Least(FilledRun(rx), Left)
     IN  out' = out \o Cells(rx, n) /\ rx' = Take(rx, n)
  /\ UNCHANGED <<limit, insert, tx, writes, reads, work>>

ReadInsert ==
  /\ At("read") /\ reads # <<>> /\ Left > 0 /\ rx.busy = 0 /\ insert # <<>>
  /\ out' = out \o Upto(insert, Left)
  /\ insert' = From(insert, Left)
  /\ UNCHANGED <<rx, limit, tx, writes, reads, work>>

\* A READ that is full is completed; the next one is served from the ring
\* again, except in the direct loop and in an insertion.
CompleteRead ==
  /\ work.pc \in {"read", "txread", "direct", "insread"}
  /\ reads # <<>> /\ Left = 0
  /\ reads' = Tail(reads) /\ out' = <<>>
  /\ Goto(IF At("txread") THEN "read" ELSE work.pc)
  /\ UNCHANGED <<rx, limit, insert, tx, writes>>

ReadRingDone ==
  /\ At("read") /\ reads # <<>> /\ Left > 0 /\ rx.busy = 0 /\ insert = <<>>
  /\ Goto("txread")
  /\ UNCHANGED <<rx, limit, insert, tx, writes, reads, out>>

NoReader ==
  /\ At("read") /\ reads = <<>>
  /\ Goto("sendtx")
  /\ UNCHANGED <<rx, limit, insert, tx, writes, reads, out>>

\* CopyCharsWithEscape into the READ first hands over insertData.
InsertToRead ==
  /\ out' = out \o Upto(insert, Left)
  /\ insert' = From(insert, Left)

\* ... and then one character after the other while there is room.
CharToRead(c) ==
  /\ out' = out \o Upto(Received(c), Left)
  /\ insert' = Upto(insert \o From(Received(c), Left), InsertSize)

\* One turn of the loop of ReadFromTxBuffer.
TxReadCall ==
  /\ At("txread") /\ Left > 0
  /\ InsertToRead
  /\ work' = [work EXCEPT !.pc = "txcopy", !.moved = Least(Len(insert), Left),
       !.chunk = IF tx.busy = 0 THEN 0 ELSE Least(FilledRun(tx), work.budget)]
  /\ UNCHANGED <<rx, limit, tx, writes, reads>>

TxReadChar ==
  /\ At("txcopy") /\ work.chunk > 0 /\ Left > 0
  /\ CharToRead(tx.mem[tx.busyAt])
  /\ tx' = Take(tx, 1)
  /\ work' = [work EXCEPT !.chunk = @ - 1, !.budget = Spend(@, 1),
                          !.moved = @ + Len(out') - Len(out)]
  /\ UNCHANGED <<rx, limit, writes, reads>>

\* faulty: the loop has no way out but a full READ
TxReadDoneAgain ==
  /\ At("txcopy") /\ (work.chunk = 0 \/ Left = 0)
  /\ Goto("txread")
  /\ UNCHANGED <<rx, limit, insert, tx, writes, reads, out>>

\* A turn that put nothing ends the loop and leaves the READ pending.
TxReadDone ==
  /\ At("txcopy") /\ (work.chunk = 0 \/ Left = 0)
  /\ Goto(IF work.moved = 0 THEN "direct" ELSE "txread")
  /\ UNCHANGED <<rx, limit, insert, tx, writes, reads, out>>

(***************************************************************************)
(* TX buffer to RX buffer, when no READ is left: MoveFromTxBuffer.         *)
(***************************************************************************)
\* faulty: the chunk ignores the end of the TX buffer
SendTxAll ==
  /\ At("sendtx")
  /\ IF tx.busy > 0 /\ work.budget > 0
     THEN work' = [work EXCEPT !.pc = "fill", !.src = "tx",
                     !.chunk = Least(tx.busy, work.budget)]
     ELSE Goto("direct")
  /\ UNCHANGED <<rx, limit, insert, tx, writes, reads, out>>

\* faulty: the TX buffer is not sent first
SendTxSkipped ==
  /\ At("sendtx") /\ Goto("direct")
  /\ UNCHANGED <<rx, limit, insert, tx, writes, reads, out>>

SendTx ==
  /\ At("sendtx")
  /\ IF tx.busy > 0 /\ work.budget > 0
     THEN work' = [work EXCEPT !.pc = "fill", !.src = "tx",
                     !.chunk = Least(FilledRun(tx), work.budget)]
     ELSE Goto("direct")
  /\ UNCHANGED <<rx, limit, insert, tx, writes, reads, out>>

(***************************************************************************)
(* TX QUEUE to the READs: ReadWriteDirect in the loop over both queues.    *)
(***************************************************************************)
DirectCall ==
  /\ At("direct") /\ reads # <<>> /\ Left > 0
  /\ writes # <<>> /\ work.budget > 0 /\ ~work.hold
  /\ InsertToRead
  /\ work' = [work EXCEPT !.pc = "dcopy",
                !.chunk = Least(Len(Head(writes)), work.budget)]
  /\ UNCHANGED <<rx, limit, tx, writes, reads>>

TakeFromWrite(n) == writes' = [writes EXCEPT ![1] = From(@, n)]

DirectChar ==
  /\ At("dcopy") /\ work.chunk > 0 /\ Left > 0
  /\ CharToRead(Head(Head(writes)))
  /\ TakeFromWrite(1)
  /\ work' = [work EXCEPT !.chunk = @ - 1, !.budget = Spend(@, 1)]
  /\ UNCHANGED <<rx, limit, tx, reads>>

\* A WRITE that is sent is completed.
DirectDone ==
  /\ At("dcopy") /\ (work.chunk = 0 \/ Left = 0)
  /\ writes' = IF Head(writes) = <<>> THEN Tail(writes) ELSE writes
  /\ Goto("direct")
  /\ UNCHANGED <<rx, limit, insert, tx, reads, out>>

\* The READ stays pending, or there is none.
DirectEnd ==
  /\ At("direct")
  /\ \/ reads = <<>>
     \/ /\ reads # <<>> /\ Left > 0
        /\ writes = <<>> \/ work.budget = 0 \/ work.hold
  /\ Goto("write")
  /\ UNCHANGED <<rx, limit, insert, tx, writes, reads, out>>

(***************************************************************************)
(* TX QUEUE to RX buffer and TX buffer: WriteToBuffers for each WRITE.     *)
(***************************************************************************)
Write ==
  /\ At("write")
  /\ IF writes = <<>> \/ work.hold
     THEN work' = Idle
     ELSE work' = [work EXCEPT !.pc = "fill", !.src = "write",
                     !.chunk = Least(Len(Head(writes)), work.budget)]
  /\ UNCHANGED <<rx, limit, insert, tx, writes, reads, out>>

\* What WriteToBuffer has to send, and the source without its first n.
Source == IF work.src = "tx" THEN Cells(tx, work.chunk)
                             ELSE Upto(Head(writes), work.chunk)
TakeFromSource(n) ==
  IF work.src = "tx" THEN tx' = Take(tx, n) /\ UNCHANGED writes
                     ELSE TakeFromWrite(n) /\ UNCHANGED tx

\* faulty: the room ignores the limit
FillCallUnlimited ==
  /\ At("fill") /\ work.chunk > 0 /\ limit > rx.busy
  /\ LET room == FreeRun(rx)
     IN  /\ rx' = Put(rx, Upto(insert, room))
         /\ insert' = From(insert, room)
         /\ work' = [work EXCEPT !.pc = "fillcopy",
                       !.room = room - Least(Len(insert), room)]
  /\ UNCHANGED <<limit, tx, writes, reads, out>>

\* One turn of the loop of WriteToBuffer below the limit: insertData first.
FillCall ==
  /\ At("fill") /\ work.chunk > 0 /\ limit > rx.busy
  /\ LET room == Least(FreeRun(rx), limit - rx.busy)
     IN  /\ rx' = Put(rx, Upto(insert, room))
         /\ insert' = From(insert, room)
         /\ work' = [work EXCEPT !.pc = "fillcopy",
                       !.room = room - Least(Len(insert), room)]
  /\ UNCHANGED <<limit, tx, writes, reads, out>>

FillChar ==
  /\ At("fillcopy") /\ work.chunk > 0 /\ work.room > 0
  /\ LET got == Received(Head(Source))
     IN  /\ rx' = Put(rx, Upto(got, work.room))
         /\ insert' = Upto(insert \o From(got, work.room), InsertSize)
         /\ work' = [work EXCEPT !.chunk = @ - 1, !.budget = Spend(@, 1),
                       !.moved = @ + 1, !.room = @ - Least(Len(got), @)]
  /\ TakeFromSource(1)
  /\ UNCHANGED <<limit, reads, out>>

FillCharsDone ==
  /\ At("fillcopy") /\ (work.chunk = 0 \/ work.room = 0)
  /\ work' = [work EXCEPT !.pc = "fill", !.room = 0]
  /\ UNCHANGED <<rx, limit, insert, tx, writes, reads, out>>

\* WriteToBuffer returns.  SendTxBuffer goes on while it gets rid of
\* something; WriteToBuffers completes the WRITE or offers the rest of it to
\* the TX buffer, which takes it only when the holding register is empty.
FillReturns(dropped, left) ==
  work' = [work EXCEPT
    !.pc = CASE work.src = "write" -> "txfill"
             [] work.src = "tx" /\ work.moved + dropped > 0 -> "sendtx"
             [] OTHER -> "direct",
    !.chunk = IF work.src = "write" /\ tx.busy <= 1
              THEN Least(left, TxSize - 1) ELSE 0,
    !.budget = Spend(@, dropped), !.room = 0, !.moved = 0]

FillReturn ==
  /\ At("fill")
  /\ \/ work.chunk = 0
     \/ limit <= rx.busy /\ ~(EmuOverrun /\ rx.busy >= rx.size)
  /\ FillReturns(0, Len(Head(writes)))
  /\ UNCHANGED <<rx, limit, insert, tx, writes, reads, out>>

\* WriteMandatoryToBuffer in a full ring: the last byte is replaced.
ReplaceLast(r, c) ==
  [r EXCEPT !.mem[IF r.freeAt = 0 THEN r.size - 1 ELSE r.freeAt - 1] = c]

\* With overrun emulation a full ring drops the characters, and insertData
\* with them; AlertOverrun leaves the error character in the ring.
Overrun ==
  /\ At("fill") /\ EmuOverrun
  /\ work.chunk > 0 /\ limit <= rx.busy /\ rx.busy >= rx.size
  /\ LET lost == insert # <<>> \/ \E c \in Range(Source) : Received(c) # <<>>
     IN  rx' = IF lost /\ ErrorChar THEN ReplaceLast(rx, "error") ELSE rx
  /\ insert' = <<>>
  /\ TakeFromSource(work.chunk)
  /\ FillReturns(work.chunk, Len(Head(writes)) - work.chunk)
  /\ UNCHANGED <<limit, reads, out>>

\* One turn of the loop of WriteToTxBuffer.
TxFill ==
  /\ At("txfill") /\ work.chunk > 0 /\ tx.busy < TxSize
  /\ LET n == Least(FreeRun(tx), work.chunk)
     IN  /\ tx' = Put(tx, Upto(Head(writes), n))
         /\ TakeFromWrite(n)
         /\ work' = [work EXCEPT !.chunk = @ - n]
  /\ UNCHANGED <<rx, limit, insert, reads, out>>

TxFillDone ==
  /\ At("txfill") /\ (work.chunk = 0 \/ tx.busy = TxSize)
  /\ IF Head(writes) = <<>>
     THEN writes' = Tail(writes) /\ Goto("write")
     ELSE work' = Idle /\ UNCHANGED writes
  /\ UNCHANGED <<rx, limit, insert, tx, reads, out>>

(***************************************************************************)
(* A status sequence: InsertDirect, WriteRawDataToBuffer, MoveRawData.     *)
(***************************************************************************)
InsertDirect ==
  /\ At("insread")
  /\ IF reads = <<>>
     THEN work' = [work EXCEPT !.pc = "insring"] /\ UNCHANGED out
     ELSE /\ Left > 0
          /\ out' = out \o Upto(work.raw, Left)
          /\ work' = [work EXCEPT !.raw = From(@, Left),
               !.pc = IF Len(work.raw) >= Left THEN "insread" ELSE "insring"]
  /\ UNCHANGED <<rx, limit, insert, tx, writes, reads>>

InsertToRing ==
  /\ At("insring") /\ work.raw # <<>> /\ rx.busy < rx.size
  /\ LET room == FreeRun(rx)
         rest == room - Least(Len(insert), room)
     IN  /\ rx' = Put(rx, Upto(insert, room) \o Upto(work.raw, rest))
         /\ insert' = From(insert, room)
         /\ work' = [work EXCEPT !.raw = From(@, rest)]
  /\ UNCHANGED <<limit, tx, writes, reads, out>>

\* What the ring did not take goes to insertData, and what that does not
\* take is lost.
InsertRest ==
  /\ At("insring") /\ (work.raw = <<>> \/ rx.busy >= rx.size)
  /\ insert' = IF EmuOverrun THEN insert
               ELSE insert \o Upto(work.raw, InsertSize - Len(insert))
  /\ work' = Idle
  /\ UNCHANGED <<rx, limit, tx, writes, reads, out>>

Init ==
  /\ \E n \in Sizes : rx = Ring(n) /\ limit = n
  /\ insert = <<>> /\ tx = Ring(TxSize)
  /\ writes = <<>> /\ reads = <<>> /\ out = <<>> /\ work = Idle

Calls == StartRead \/ StartWrite \/ Tick \/ PurgeRx \/ SetHandFlow
         \/ SetQueueSize \/ StartInsert
Reading == ReadRing \/ ReadInsert \/ CompleteRead \/ ReadRingDone \/ NoReader
           \/ TxReadCall \/ TxReadChar \/ TxReadDone
Sending == SendTx \/ DirectCall \/ DirectChar \/ DirectDone \/ DirectEnd
           \/ Write \/ FillCall \/ FillChar \/ FillCharsDone \/ FillReturn
           \/ Overrun \/ TxFill \/ TxFillDone
Inserting == InsertDirect \/ InsertToRing \/ InsertRest

Next == Calls \/ Reading \/ Sending \/ Inserting

Spec == Init /\ [][Next]_vars

\* The holder of the lock runs on: nothing in a pass waits for anything.
FairSpec == Spec /\ WF_vars(Reading \/ Sending \/ Inserting)

(***************************************************************************)
(* Properties.                                                             *)
(***************************************************************************)

\* The pointers of a ring agree with its count, and the bytes between them
\* are the valid ones.  A full ring and an empty one have equal pointers.
RingOK(r) ==
  /\ r.size \in Nat \ {0}
  /\ r.mem \in [0 .. r.size - 1 -> Symbols \cup {Stale}]
  /\ r.busyAt \in 0 .. r.size - 1 /\ r.freeAt \in 0 .. r.size - 1
  /\ r.busy \in 0 .. r.size
  /\ r.busyAt + r.busy \in {r.freeAt, r.freeAt + r.size}
  /\ \A k \in 1 .. r.busy : r.mem[Place(r, k)] \in Symbols

\* The types, with the pointer arithmetic of both rings (bufutils.c): no
\* chunk that a loop computes leaves the buffer, whatever its size.
TypeOK ==
  /\ RingOK(rx) /\ rx.size \in Sizes
  /\ limit \in 1 .. rx.size
  /\ insert \in Seq(Symbols) /\ Len(insert) <= InsertSize
  /\ RingOK(tx) /\ tx.size = TxSize
  /\ writes \in Seq(Seq(Chars)) /\ Len(writes) <= MaxWrites
  /\ reads \in Seq(ReadLengths) /\ Len(reads) <= MaxReads
  /\ out \in Seq(Symbols)
  /\ work \in [pc : Labels, budget : Nat, hold : BOOLEAN, src : {"tx", "write"},
                chunk : Nat, room : Nat, moved : Nat, raw : Seq(StatusChars)]

\* What a loop is about to copy is there, and there is room for it: bytes
\* are never taken beyond the source's end or put beyond the destination's
\* (the HALT_UNLESS of WriteToBuffers, and what CopyCharsWithEscape and
\* RtlCopyMemory take for granted).
ChunksFit ==
  /\ Len(out) <= (IF reads = <<>> THEN 0 ELSE Head(reads))
  /\ work.pc \in {"txread", "txcopy", "dcopy"} => reads # <<>>
  /\ work.pc \in {"txcopy", "dcopy", "fill", "fillcopy"} =>
       work.chunk <= work.budget
  /\ At("txcopy") \/ (work.pc \in {"fill", "fillcopy"} /\ work.src = "tx") =>
       work.chunk <= (IF tx.busy = 0 THEN 0 ELSE FilledRun(tx))
  /\ work.pc \in {"dcopy", "txfill"}
     \/ (work.pc \in {"fill", "fillcopy"} /\ work.src = "write") =>
       writes # <<>> /\ work.chunk <= Len(Head(writes))
  /\ At("fillcopy") =>
       work.room <= FreeRun(rx) /\ rx.busy + work.room <= limit

\* What the pair of ports promises: see Stream.  Of the two rings, of
\* insertData and of the WRITEs' buffers a reader sees one stream, whatever
\* the shortcuts of TryReadWrite and wherever the pointers wrap.
Promise == INSTANCE Stream WITH
  todo <- Content(tx) \o FlattenSeq(writes),
  pending <- Content(rx) \o insert,
  out <- out,
  CanOverrun <- EmuOverrun
KeepsPromise == Promise!Spec

\* Settings under which no byte overtakes another: the receiver strips nothing, since a run
\* of the TX buffer of which nothing is left passes for an empty buffer (bufutils.c:824); and
\* either no status sequence is inserted or no character is split between two READs, since
\* FdoPortIo inserts without a look at what is held back (io.c:912).
Unsplit == MaxReads <= 1 \/ \A c \in Chars : Len(Received(c)) <= 1
Steady ==
  /\ \A c \in Chars : Received(c) # <<>>
  /\ RawSequences = {} \/ Unsplit

\* What is ahead on the way has moved on before what is behind it is touched.  First the ring
\* and insertData,
RingFirst ==
  /\ work.pc \in {"txread", "txcopy", "dcopy"} \/ (At("direct") /\ reads # <<>>) => rx.busy = 0
  /\ work.pc \in {"txcopy", "dcopy"} /\ Left > 0 => insert = <<>>
  /\ At("fillcopy") /\ work.room > 0 => insert = <<>>
\* then the TX buffer, unless the pass must not send any more or the ring takes no more,
Filling(src) == work.pc \in {"fill", "fillcopy"} /\ work.src = src
Blocked == limit <= rx.busy /\ ~(EmuOverrun /\ rx.busy >= rx.size)
Sent == tx.busy = 0 \/ work.budget = 0
TxFirst ==
  /\ At("txcopy") /\ work.moved = 0 => Left > 0 /\ (work.chunk = 0 => Sent)
  /\ At("sendtx") \/ Filling("tx") => reads = <<>>
  /\ Filling("tx") /\ work.moved = 0 => work.chunk > 0
  /\ work.pc \in {"direct", "dcopy"} /\ reads # <<>> => Sent
  /\ work.pc \in {"direct", "write"} \/ Filling("write") => Sent \/ Blocked
  /\ At("txfill") => work.budget = 0 \/ Blocked \/ (tx.busy = 0 /\ work.chunk = 0)
\* then the first WRITE to the end,
WriteFirst ==
  /\ \A k \in DOMAIN writes : Len(writes[k]) <= Unlimited
  /\ Filling("write") /\ work.chunk < Len(Head(writes)) =>
       work.budget = work.chunk /\ work.budget < Unlimited
\* and a READ that waits has been given everything.
ReadFirst ==
  /\ RawSequences = {} => work.pc \notin {"insread", "insring"}
  /\ Unsplit /\ reads # <<>> =>
       /\ work.pc \in {"idle", "insread", "insring", "write", "fill", "fillcopy", "txfill"} =>
            rx.busy = 0 /\ insert = <<>>
       /\ work.pc \in {"txread", "txcopy", "direct", "dcopy"} /\ (Left > 0 \/ MaxReads > 1) =>
            insert = <<>>
       /\ At("insring") => work.raw = <<>>
       /\ At("write") => writes = <<>> \/ work.budget = 0 \/ work.hold
       /\ work.pc \in {"fill", "fillcopy", "txfill"} => work.budget = 0
Course == RingFirst /\ TxFirst /\ WriteFirst /\ ReadFirst

\* WriteToBuffer never fills the ring over the limit that handshaking sets;
\* only a limit that was lowered meanwhile is exceeded.
LimitRespected ==
  [][work.pc \in {"fill", "fillcopy"} =>
       rx'.busy <= rx.busy \/ rx'.busy <= limit]_vars

\* Between passes no READ waits while the receive buffer has something for
\* it: TryReadWrite says "Move data from RX buffer to RX QUEUE while RX
\* QUEUE is not empty" (io.c:1051) and traces as an error a direct transfer
\* that finds the buffer not empty (io.c:1223).
ReadNotStarved ==
  At("idle") /\ reads # <<>> => rx.busy = 0 /\ insert = <<>>

\* Bytes leave the TX QUEUE for a READ only when the TX buffer, which is
\* ahead of them (the diagram at io.c:1043), has been emptied.
DirectAfterTx == At("dcopy") /\ work.chunk > 0 => tx.busy = 0

\* A status sequence is inserted behind what the receive buffer holds, which
\* FdoPortIo takes for granted ("direct INSERT with no empty buf", io.c:912).
InsertBehind ==
  At("insread") /\ reads # <<>> => rx.busy = 0 /\ insert = <<>>

\* A status sequence reaches the reader whole or not at all: after its first
\* byte comes its second.
WholeSequences ==
  At("idle") =>
    LET stream == out \o Content(rx) \o insert
    IN  \A s \in RawSequences, i \in DOMAIN stream :
          stream[i] = s[1] => i < Len(stream) /\ stream[i + 1] = s[2]

\* A pass always ends: no loop under the lock spins.
PassEnds == ~At("idle") ~> At("idle")
=============================================================================
