------------------------------ MODULE HandFlow ------------------------------
(***************************************************************************)
(* Flow control and modem lines of a pair of ports: handflow.c, pinouts.c, *)
(* their IOCTLs and what the passes of TryReadWrite (io.c) do with them.   *)
(*                                                                         *)
(* A port keeps the other's writer from filling its buffer by RTS, by DTR  *)
(* or by an XOFF character, and is itself held by the lines it honours and *)
(* by XOFF.  Whatever ends the last reason for holding must restart the    *)
(* writer: it sets tryWrite, and the call that did it runs passes until no *)
(* port asks for another one.                                              *)
(*                                                                         *)
(* Bytes are counts here (ReadBuffer has their order), with one READ and   *)
(* one WRITE pending in each port; a control character is followed up to   *)
(* the place where it is heard.  A call of the driver is one step, as are  *)
(* the turns of ReadWrite that follow it: all of it runs under the lock of *)
(* the pair.  Left out: BREAK, the write delay, overrun and noise.         *)
(***************************************************************************)
EXTENDS Integers, Sequences, FiniteSets

CONSTANTS
  Wiring,   \* where each input of each port gets its level from
  Hands,    \* the settings that SET_HANDFLOW gives to each port
  Controls, \* the inputs of SET_MODEM_CONTROL in each port: the bits and their mask
  Purges,   \* the flags of PURGE
  Calls,    \* the other calls in each port that change the flow control
  Size,     \* of the receive buffers
  TxSize,   \* of the transmitter
  Lengths,  \* of READs and WRITEs
  MaxCalls, \* bound on the calls that change settings
  MaxTurns  \* how many turns of ReadWrite may follow the first

Ports == {"A", "B"}
Nobody == "nobody"
Other(p) == IF p = "A" THEN "B" ELSE "A"

Inputs == {"CTS", "DSR", "DCD"}
Pins == {"RTS", "DTR", "OUT1", "OUT2"}
Reasons == Inputs \cup {"XON"}
Modes == {"off", "on", "handshake", "toggle"}
HandFlows == [out : SUBSET Inputs,           \* the inputs that are honoured
              rts : Modes, dtr : Modes \ {"toggle"},
              autoTx : BOOLEAN,              \* SERIAL_AUTO_TRANSMIT
              autoRx : BOOLEAN,              \* SERIAL_AUTO_RECEIVE
              cont : BOOLEAN,                \* SERIAL_XOFF_CONTINUE
              xon : 0 .. Size, xoff : 0 .. Size]
Sources == [of : {"local", "remote"}, pin : Pins, negative : BOOLEAN]

ASSUME WiringAssumption == Wiring \in [Ports -> [Inputs -> Sources]]
ASSUME SizesAssumption ==
  /\ Size \in Nat \ {0} /\ TxSize \in Nat /\ TxSize > 1
  /\ Lengths \subseteq Nat \ {0} /\ MaxCalls \in Nat /\ MaxTurns \in Nat
ASSUME CallsAssumption ==
  /\ Hands \in [Ports -> SUBSET HandFlows]
  /\ Controls \in [Ports -> SUBSET [bits : SUBSET Pins, mask : SUBSET Pins]]
  /\ Purges \subseteq SUBSET {"RXABORT", "TXABORT", "RXCLEAR"}
  /\ Calls \in [Ports -> SUBSET {"rts", "dtr", "xon", "xoff"}]

VARIABLES
  port,  \* the state of both ports
  pass,  \* the writer of the turn of ReadWrite that is due
  calls, \* how many settings were changed
  turns, \* history: how many turns of ReadWrite the call has run
  paused \* history: the ports that SET_XOFF stopped and SET_XON did not resume

vars == <<port, pass, calls, turns, paused>>

Characters == {"data", "on", "off"}
TxBuffers == UNION {[1 .. n -> Characters] : n \in 0 .. TxSize}
PortStates ==
  [hand : HandFlows,
   mcr : SUBSET Pins,               \* modemControl
   status : SUBSET Inputs,          \* modemStatus
   holding : SUBSET Reasons,        \* writeHolding
   told : SUBSET {"CTS", "DSR", "XON"},  \* writeHoldingRemote
   x : {"none", "on", "off"},       \* sendXonXoff
   try : BOOLEAN,                   \* tryWrite
   limit : 1 .. Size,               \* readBuf.limit
   busy : 0 .. Size,                \* readBuf.busy
   tx : TxBuffers,                  \* txBuf
   toSend : Nat,                    \* the rest of the WRITE, 0 without one
   wanted : Nat]                    \* the rest of the READ, 0 without one

(***************************************************************************)
(* Modem lines.                                                            *)
(***************************************************************************)
From(p, i) == IF Wiring[p][i].of = "remote" THEN Other(p) ELSE p
\* The level that PinWire gives an input when the pins are as in P.
Level(P, p, i) ==
  (Wiring[p][i].pin \in P[From(p, i)].mcr) # Wiring[p][i].negative

Least(m, n) == IF m <= n THEN m ELSE n
Current(P, p) == P[p].toSend > 0

\* faulty: the XON or XOFF that waits is not tried
SetModemStatusHoldingData(P, p) ==
  LET old == P[p].holding
      new == (old \cap {"XON"}) \cup (P[p].hand.out \ P[p].status)
      try == new = {} /\ old # {} /\ Current(P, p)
  IN [P EXCEPT ![p].holding = new, ![p].try = @ \/ try]

\* When the last line stops holding, what waits behind it is tried.
SetModemStatusHolding(P, p) ==
  LET old == P[p].holding
      new == (old \cap {"XON"}) \cup (P[p].hand.out \ P[p].status)
      try == /\ new \subseteq {"XON"} /\ ~(old \subseteq {"XON"})
             /\ P[p].x # "none" \/ (new = {} /\ Current(P, p))
  IN [P EXCEPT ![p].holding = new, ![p].try = @ \/ try]

\* faulty: a line that rises is only noted
SetModemStatusOnly(P, p, bits, mask) ==
  [P EXCEPT ![p].status = (@ \ mask) \cup (bits \cap mask)]

\* mask holds the inputs that the changed pins drive.
SetModemStatus(P, p, bits, mask) ==
  LET new == (P[p].status \ mask) \cup (bits \cap mask)
  IN IF new = P[p].status THEN P
     ELSE SetModemStatusHolding([P EXCEPT ![p].status = new], p)

\* The inputs of q that pins of p drive, and those of them that are high.
Driven(p, q, pins) == {i \in Inputs : From(q, i) = p /\ Wiring[q][i].pin \in pins}
High(P, p, q) == {i \in Inputs : From(q, i) = p /\ Level(P, q, i)}

SetModemControl(P, p, bits, mask) ==
  LET new == (P[p].mcr \ mask) \cup (bits \cap mask)
      changed == (new \ P[p].mcr) \cup (P[p].mcr \ new)
      Q == [P EXCEPT ![p].mcr = new]
      R == SetModemStatus(Q, Other(p), High(Q, p, Other(p)),
                          Driven(p, Other(p), changed))
  IN SetModemStatus(R, p, High(R, p, p), Driven(p, p, changed))

SetXonXoffHolding(P, p, c) ==
  CASE c = "on" /\ "XON" \in P[p].holding ->
         [P EXCEPT ![p].holding = @ \ {"XON"},
                   ![p].try = @ \/ (P[p].holding = {"XON"} /\ Current(P, p))]
    [] c = "off" -> [P EXCEPT ![p].holding = @ \cup {"XON"}]
    [] OTHER -> P

(***************************************************************************)
(* Stopping and releasing the peer.                                        *)
(***************************************************************************)
Full(P, p, h) == P[p].busy > Size - h.xoff
Low(P, p, h) == P[p].busy <= h.xon

\* The ways in which settings h stop the peer, by what it then waits for.
Ways(h) == {w \in {"CTS", "DSR", "XON"} :
              \/ w = "CTS" /\ h.rts = "handshake"
              \/ w = "DSR" /\ h.dtr = "handshake"
              \/ w = "XON" /\ h.autoRx}
PinsOf(ways) == {pin \in {"RTS", "DTR"} :
                   (pin = "RTS" /\ "CTS" \in ways) \/ (pin = "DTR" /\ "DSR" \in ways)}

\* XOFF is to be sent; without XOFF_CONTINUE the port stops as well.
SendXoff(P, p, h) ==
  [P EXCEPT ![p].told = @ \cup {"XON"}, ![p].x = "off", ![p].try = TRUE,
            ![p].holding = IF h.cont THEN @ ELSE @ \cup {"XON"}]

Stop(P, p) ==
  LET h == P[p].hand
      Q == [P EXCEPT ![p].told = @ \cup (Ways(h) \ {"XON"})]
      R == IF h.autoRx THEN SendXoff(Q, p, h) ELSE Q
  IN SetModemControl(R, p, {}, PinsOf(Ways(h)))

\* faulty: the lines are released, the XON is not sent
ReleaseLines(P, p) ==
  LET ways == Ways(P[p].hand)
      Q == [P EXCEPT ![p].told = @ \ ways, ![p].holding = @ \ (ways \cap {"XON"})]
  IN SetModemControl(Q, p, PinsOf(ways), PinsOf(ways))

Release(P, p) ==
  LET h == P[p].hand
      Q == [P EXCEPT ![p].told = @ \ Ways(h)]
      R == IF h.autoRx
           THEN [Q EXCEPT ![p].holding = @ \ {"XON"}, ![p].x = "on", ![p].try = TRUE]
           ELSE Q
  IN SetModemControl(R, p, PinsOf(Ways(h)), PinsOf(Ways(h)))

\* faulty: whatever frees room releases, however full the buffer still is
UpdateHandFlowEager(P, p, freed) ==
  CASE P[p].told = {} /\ ~freed /\ Full(P, p, P[p].hand) -> Stop(P, p)
    [] P[p].told # {} /\ freed -> Release(P, p)
    [] OTHER -> P

UpdateHandFlow(P, p, freed) ==
  CASE P[p].told = {} /\ ~freed /\ Full(P, p, P[p].hand) -> Stop(P, p)
    [] P[p].told # {} /\ freed /\ Low(P, p, P[p].hand) -> Release(P, p)
    [] OTHER -> P

\* RTS is raised while there is something to send.
UpdateTransmitToggle(P, p) ==
  LET sending == \/ P[p].tx # <<>>
                 \/ Current(P, p) /\ P[p].holding = {}
                 \/ P[p].x # "none" /\ P[p].holding \subseteq {"XON"}
  IN IF P[p].hand.rts # "toggle" THEN P
     ELSE SetModemControl(P, p, IF sending THEN {"RTS"} ELSE {}, {"RTS"})

(***************************************************************************)
(* SET_HANDFLOW.                                                           *)
(***************************************************************************)
\* How many bytes the buffer of p takes: one above the XOFF limit if the
\* peer honours a line by which p stops it.
LimitOf(P, p) ==
  LET h == P[p].hand   o == P[Other(p)].hand.out
  IN IF \/ h.rts = "handshake" /\ "CTS" \in o
        \/ h.dtr = "handshake" /\ o \cap {"DSR", "DCD"} # {}
     THEN Least(Size, Size - h.xoff + 1) ELSE Size
SetLimit(P, p) == [P EXCEPT ![p].limit = LimitOf(P, p)]

\* What a new mode of RTS (w = "CTS") or DTR (w = "DSR") does to the peer:
\* whether it is told to stop, and which level the pin gets.
Told(P, p, h, w, mode) ==
  CASE mode \in {"off", "on"} -> P[p].told \ {w}
    [] mode = "handshake" -> IF Full(P, p, h) THEN P[p].told \cup {w}
                             ELSE IF Low(P, p, h) THEN P[p].told \ {w} ELSE P[p].told
    [] OTHER -> P[p].told
Raised(P, p, h, w, mode) ==
  \/ mode = "on"
  \/ mode = "handshake" /\ ~Full(P, p, h) /\ (w \in P[p].told => Low(P, p, h))

\* faulty: handshaking that begins with a full buffer leaves the pin alone
LoweredOff(P, p, h, mode) == mode = "off"
Lowered(P, p, h, mode) == mode = "off" \/ (mode = "handshake" /\ Full(P, p, h))

\* A new value of SERIAL_AUTO_RECEIVE.  An XOFF not sent yet is withdrawn.
ChangeAutoReceive(P, p, h) ==
  CASE h.autoRx /\ Full(P, p, h) -> SendXoff(P, p, h)
    [] ~h.autoRx /\ "XON" \in P[p].told ->
         [P EXCEPT ![p].told = @ \ {"XON"}, ![p].holding = @ \ {"XON"},
                   ![p].x = IF @ = "off" THEN "none" ELSE "on",
                   ![p].try = @ \/ P[p].x # "off"]
    [] OTHER -> P

NewHand(P, p, h) ==
  LET old == P[p].hand
      rts == old.rts # h.rts
      dtr == old.dtr # h.dtr
      P1 == IF old.autoTx /\ ~h.autoTx THEN SetXonXoffHolding(P, p, "on") ELSE P
      P2 == IF rts THEN [P1 EXCEPT ![p].told = Told(P1, p, h, "CTS", h.rts)] ELSE P1
      P3 == IF dtr THEN [P2 EXCEPT ![p].told = Told(P2, p, h, "DSR", h.dtr)] ELSE P2
      P4 == IF old.autoRx # h.autoRx THEN ChangeAutoReceive(P3, p, h) ELSE P3
      P5 == [P4 EXCEPT ![p].hand = h]
      P6 == IF old.out # h.out THEN SetModemStatusHolding(P5, p) ELSE P5
      bits == {pin \in {"RTS", "DTR"} :
                 \/ pin = "RTS" /\ rts /\ Raised(P, p, h, "CTS", h.rts)
                 \/ pin = "DTR" /\ dtr /\ Raised(P, p, h, "DSR", h.dtr)}
      mask == bits \cup {pin \in {"RTS", "DTR"} :
                           \/ pin = "RTS" /\ rts /\ Lowered(P, p, h, h.rts)
                           \/ pin = "DTR" /\ dtr /\ Lowered(P, p, h, h.dtr)}
      P7 == SetModemControl(P6, p, bits, mask)
  IN SetLimit(SetLimit(UpdateTransmitToggle(P7, p), Other(p)), p)

(***************************************************************************)
(* A turn of ReadWrite: the bytes of w to the reader r.                    *)
(***************************************************************************)
Drop(s, n) == SubSeq(s, n + 1, Len(s))

\* A reader that obeys XON and XOFF takes them out of the stream.
Kept(P, r, c) == c = "data" \/ ~P[r].hand.autoTx
KeptAmong(P, r, s, n) == Cardinality({k \in 1 .. n : Kept(P, r, s[k])})
\* How many characters of s go where there is room for so many.
Moved(P, r, s, room) ==
  Cardinality({k \in 1 .. Len(s) : KeptAmong(P, r, s, k - 1) < room})
\* OnRxChars hears the last control character of those it is given.
Hear(P, r, s, n) ==
  LET control == {k \in 1 .. n : ~Kept(P, r, s[k])}
  IN IF control = {} THEN P
     ELSE SetXonXoffHolding(P, r, s[CHOOSE k \in control : \A j \in control : j <= k])

Room(P, r) == IF P[r].limit > P[r].busy THEN P[r].limit - P[r].busy ELSE 0

RingToRead(P, r) ==
  LET n == Least(P[r].wanted, P[r].busy)
  IN [P EXCEPT ![r].wanted = @ - n, ![r].busy = @ - n]

\* How much of the transmitter's ring may lie in one piece: where it wraps is not kept.
Pieces(s) == IF s = <<>> THEN {0} ELSE 1 .. Len(s)

\* ReadFromTxBuffer takes the ring by pieces, and stops at one that is all stripped.
Taken(P, r, s, room, piece) ==
  LET n == Moved(P, r, s, room)
  IN IF KeptAmong(P, r, s, piece) = 0 THEN Least(piece, n) ELSE n

TxToRead(P, r, w, piece) ==
  LET n == Taken(P, r, P[w].tx, P[r].wanted, piece)
      kept == KeptAmong(P, r, P[w].tx, n)
  IN Hear([P EXCEPT ![r].wanted = @ - kept, ![w].tx = Drop(@, n)], r, P[w].tx, n)

TxToRing(P, r, w) ==
  LET n == Moved(P, r, P[w].tx, Room(P, r))
      kept == KeptAmong(P, r, P[w].tx, n)
  IN IF P[r].wanted > 0 THEN P
     ELSE Hear([P EXCEPT ![r].busy = @ + kept, ![w].tx = Drop(@, n)], r, P[w].tx, n)

\* XON and XOFF are sent although an XOFF holds the data.
CanSendX(P, w) == P[w].x # "none" /\ P[w].holding \subseteq {"XON"}
CanSendData(P, w) == P[w].toSend > 0 /\ P[w].holding = {}

\* WriteToTxBuffer: only when at most one character is there.
RoomInTx(P, w) == IF Len(P[w].tx) <= 1 THEN Least(TxSize - 1, TxSize - Len(P[w].tx))
                                       ELSE 0
XDirect(P, r, w) ==
  LET n == KeptAmong(P, r, <<P[w].x>>, 1)
  IN IF P[r].wanted > 0 /\ CanSendX(P, w)
     THEN Hear([P EXCEPT ![r].wanted = @ - n, ![w].x = "none"], r, <<P[w].x>>, 1)
     ELSE P
DataDirect(P, r, w) ==
  LET n == Least(P[r].wanted, P[w].toSend)
  IN IF CanSendData(P, w)
     THEN [P EXCEPT ![r].wanted = @ - n, ![w].toSend = @ - n] ELSE P

XToBuffers(P, r, w) ==
  CASE ~CanSendX(P, w) -> P
    [] CanSendX(P, w) /\ Room(P, r) > 0 ->
         Hear([P EXCEPT ![r].busy = @ + KeptAmong(P, r, <<P[w].x>>, 1),
                        ![w].x = "none"], r, <<P[w].x>>, 1)
    [] CanSendX(P, w) /\ Room(P, r) = 0 /\ RoomInTx(P, w) > 0 ->
         [P EXCEPT ![w].tx = Append(@, P[w].x), ![w].x = "none"]
    [] OTHER -> P
DataToBuffers(P, r, w) ==
  LET n == Least(P[w].toSend, Room(P, r))
      m == Least(P[w].toSend - n, RoomInTx(P, w))
  IN IF CanSendData(P, w)
     THEN [P EXCEPT ![r].busy = @ + n, ![w].tx = @ \o [k \in 1 .. m |-> "data"],
                    ![w].toSend = @ - n - m]
     ELSE P

TryReadWrite(P, r, w, piece) ==
  LET Q == TxToRing(TxToRead(RingToRead(P, r), r, w, piece), r, w)
      R == DataDirect(XDirect(Q, r, w), r, w)
      S == DataToBuffers(XToBuffers(R, r, w), r, w)
      T == CASE P[r].busy > S[r].busy -> UpdateHandFlow(S, r, TRUE)
             [] P[r].busy < S[r].busy -> UpdateHandFlow(S, r, FALSE)
             [] OTHER -> S
  IN UpdateTransmitToggle(T, w)

\* faulty: the loop looks at its own port only
NextWriterOwn(P, w) == IF P[w].try THEN w ELSE Nobody

\* The next writer: this one again if it asks for it, else its peer.
NextWriter(P, w) == IF P[w].try THEN w ELSE IF P[Other(w)].try THEN Other(w)
                                                               ELSE Nobody

ReadWrite ==
  /\ pass # Nobody
  /\ \E piece \in Pieces(port[pass].tx) :
       port' = TryReadWrite([port EXCEPT ![pass].try = FALSE], Other(pass), pass, piece)
  /\ pass' = NextWriter(port', pass)
  /\ turns' = IF pass' = Nobody THEN 0 ELSE turns + 1
  /\ UNCHANGED <<calls, paused>>

(***************************************************************************)
(* Calls of the driver.                                                    *)
(***************************************************************************)
AnyTry(P) == \E p \in Ports : P[p].try
SettingsCall == /\ pass = Nobody /\ calls < MaxCalls
                /\ calls' = calls + 1 /\ UNCHANGED turns

Write(p) ==
  /\ pass = Nobody /\ port[p].toSend = 0
  /\ \E n \in Lengths :
       port' = UpdateTransmitToggle([port EXCEPT ![p].toSend = n], p)
  /\ pass' = p
  /\ UNCHANGED <<calls, turns, paused>>

Read(p) ==
  /\ pass = Nobody /\ port[p].wanted = 0
  /\ \E n \in Lengths : port' = [port EXCEPT ![p].wanted = n]
  /\ pass' = Other(p)
  /\ UNCHANGED <<calls, turns, paused>>

\* The remote port writes first, then the own one.
SetHandFlow(p) ==
  /\ SettingsCall
  /\ \E h \in Hands[p] : port' = NewHand(port, p, h)
  /\ pass' = NextWriter(port', Other(p))
  /\ UNCHANGED paused

\* SET_RTS and CLR_RTS, refused in the modes that drive RTS.
SetRts(p) ==
  /\ "rts" \in Calls[p] /\ SettingsCall
  /\ port[p].hand.rts \in {"off", "on"}
  /\ \E bits \in {{}, {"RTS"}} : port' = SetModemControl(port, p, bits, {"RTS"})
  /\ pass' = IF AnyTry(port') THEN Other(p) ELSE Nobody
  /\ UNCHANGED paused

SetDtr(p) ==
  /\ "dtr" \in Calls[p] /\ SettingsCall
  /\ port[p].hand.dtr \in {"off", "on"}
  /\ \E bits \in {{}, {"DTR"}} : port' = SetModemControl(port, p, bits, {"DTR"})
  /\ pass' = IF AnyTry(port') THEN Other(p) ELSE Nobody
  /\ UNCHANGED paused

\* SET_MODEM_CONTROL does not ask for the modes.
SetControl(p) ==
  /\ SettingsCall
  /\ \E c \in Controls[p] : port' = SetModemControl(port, p, c.bits, c.mask)
  /\ pass' = IF AnyTry(port') THEN Other(p) ELSE Nobody
  /\ UNCHANGED paused

SetXon(p) ==
  /\ "xon" \in Calls[p] /\ SettingsCall
  /\ port' = SetXonXoffHolding(port, p, "on")
  /\ pass' = IF port'[p].try THEN Other(p) ELSE Nobody
  /\ paused' = paused \ {p}

SetXoff(p) ==
  /\ "xoff" \in Calls[p] /\ SettingsCall
  /\ port' = SetXonXoffHolding(port, p, "off")
  /\ paused' = paused \cup {p}
  /\ UNCHANGED pass

Purge(p) ==
  /\ pass = Nobody
  /\ \E flags \in Purges :
       LET P == [port EXCEPT
                   ![p].wanted = IF "RXABORT" \in flags THEN 0 ELSE @,
                   ![p].toSend = IF "TXABORT" \in flags THEN 0 ELSE @]
           Q == UpdateHandFlow([P EXCEPT ![p].busy = 0], p, TRUE)
       IN IF "RXCLEAR" \in flags
          THEN port' = Q /\ pass' = IF AnyTry(Q) THEN Other(p) ELSE Nobody
          ELSE port' = P /\ pass' = Nobody
  /\ UNCHANGED <<calls, turns, paused>>

(***************************************************************************)
(* Both ports are open, with the settings AddFdoPort gives them.           *)
(***************************************************************************)
DefaultHand == [out |-> {}, rts |-> "on", dtr |-> "on", autoTx |-> FALSE,
                autoRx |-> FALSE, cont |-> FALSE, xon |-> Size \div 2, xoff |-> Size \div 8]
Opened == [hand |-> DefaultHand, mcr |-> {"RTS", "DTR", "OUT2"}, status |-> {},
           holding |-> {}, told |-> {}, x |-> "none", try |-> FALSE, limit |-> Size,
           busy |-> 0, tx |-> <<>>, toSend |-> 0, wanted |-> 0]
Init ==
  /\ LET P == [p \in Ports |-> Opened]
     IN port = [p \in Ports |-> [P[p] EXCEPT !.status = {i \in Inputs : Level(P, p, i)}]]
  /\ pass = Nobody
  /\ calls = 0 /\ turns = 0
  /\ paused = {}

Program(p) == \/ Write(p) \/ Read(p) \/ SetHandFlow(p) \/ SetRts(p) \/ SetDtr(p)
              \/ SetControl(p) \/ SetXon(p) \/ SetXoff(p) \/ Purge(p)
Next == ReadWrite \/ \E p \in Ports : Program(p)
Spec == Init /\ [][Next]_vars

\* The lock is a spin lock: a call that waits for it gets it (strong), and
\* the holder does not stop (weak).  Programs go on reading; of nothing else
\* that they do anything is assumed.
\* (WF_vars(ReadWrite) and SF_vars(Read(p)), with what enables them spelled out:
\* a turn always changes turns or pass.)
Fairness ==
  /\ <>[](pass # Nobody) => []<><<ReadWrite>>_vars
  /\ \A p \in Ports : []<>(pass = Nobody /\ port[p].wanted = 0) => []<><<Read(p)>>_vars
FairSpec == Spec /\ Fairness

(***************************************************************************)
(* What programs set, as the theorems of HandFlow_proofs suppose it: what  *)
(* the code makes of other settings is in section 7 of the README.         *)
(***************************************************************************)
\* No program goes from RTS handshaking to RTS toggling.
NoToggleAfterHandshake ==
  \A p \in Ports : \A g, h \in Hands[p] : ~(g.rts = "handshake" /\ h.rts = "toggle")

\* No program uses SET_MODEM_CONTROL on a pin that its settings hand over to the
\* driver.  (SET_RTS and SET_DTR are refused then.)
PinsLeftAlone ==
  \A p \in Ports : \A h \in Hands[p], c \in Controls[p] : c.mask \cap PinsOf(Ways(h)) = {}

\* A port that changes the ways in which it stops its peer keeps one of them ...
OneWay ==
  \A p \in Ports : \E w \in {"CTS", "DSR", "XON"} :
    \A h \in Hands[p] : Ways(h) # {} => w \in Ways(h)

\* ... or it has the same lines for that in all settings that have a way, be XOFF
\* among these or not.
OneSetOfLines ==
  \A p \in Ports : \A g, h \in Hands[p] :
    Ways(g) = {} \/ Ways(h) = {} \/ Ways(g) \ {"XON"} = Ways(h) \ {"XON"}

\* It keeps its limits, the one for XON not above the one for XOFF.
OneLimit ==
  \A p \in Ports : \A g, h \in Hands[p] :
    Ways(g) # {} /\ Ways(h) # {} =>
      g.xon = h.xon /\ g.xoff = h.xoff /\ h.xon <= Size - h.xoff

\* The lines by which a port stops its peer reach the inputs that SetLimit takes
\* them to reach.
LinesCrossed ==
  \A p \in Ports : \A h \in Hands[p] :
    /\ h.rts = "handshake" =>
         Wiring[Other(p)]["CTS"] = [of |-> "remote", pin |-> "RTS", negative |-> FALSE]
    /\ h.dtr = "handshake" =>
         \A i \in {"DSR", "DCD"} :
           Wiring[Other(p)][i] = [of |-> "remote", pin |-> "DTR", negative |-> FALSE]

\* No PURGE clears the receive buffer.
NothingCleared == \A flags \in Purges : "RXCLEAR" \notin flags

(***************************************************************************)
(* Properties.                                                             *)
(***************************************************************************)
\* Every variable has its type: no buffer is filled beyond its size.
TypeOK ==
  /\ port \in [Ports -> PortStates]
  /\ pass \in Ports \cup {Nobody}
  /\ calls \in 0 .. MaxCalls /\ turns \in Nat
  /\ paused \subseteq Ports

\* modemStatus is what the pin map makes of the pins, and a port is held by
\* exactly the lines it honours that are low, whatever the settings were and
\* whatever the order in which pins, settings and statuses changed.
HoldingFollows ==
  \A p \in Ports :
    /\ port[p].status = {i \in Inputs : Level(port, p, i)}
    /\ port[p].holding \ {"XON"} = port[p].hand.out \ port[p].status

\* Under handshaking RTS and DTR are low exactly while the peer is told to
\* stop by them.
SignalFollows ==
  \A p \in Ports :
    /\ port[p].hand.rts = "handshake" =>
         ("RTS" \in port[p].mcr <=> "CTS" \notin port[p].told)
    /\ port[p].hand.dtr = "handshake" =>
         ("DTR" \in port[p].mcr <=> "DSR" \notin port[p].told)

\* No call returns with a request for another pass unanswered.
NoWakeUpLeft == pass = Nobody => ~AnyTry(port)

\* Between calls the peer is told to stop if the buffer is above the XOFF
\* limit, and is not told to if the buffer is down at the XON limit.
Hysteresis ==
  pass = Nobody =>
    \A p \in Ports :
      LET h == port[p].hand IN
      /\ Full(port, p, h) /\ Ways(h) # {} => port[p].told \cap Ways(h) # {}
      /\ Low(port, p, h) => port[p].told \cap Ways(h) = {}

\* Between calls whoever may send has done so: he waits for the reader, whose
\* buffer is at its limit, and for nothing else.
NoneStranded ==
  pass = Nobody =>
    \A p \in Ports :
      CanSendData(port, p) \/ CanSendX(port, p) =>
        /\ port[Other(p)].wanted = 0
        /\ port[Other(p)].busy >= LimitOf(port, Other(p))

\* The loop of ReadWrite, run under the spin lock, ends after a few turns: that
\* each end of the pair asks the other for a pass does not go on and on.
FewTurns == turns <= MaxTurns

\* SET_HANDFLOW withdraws an XOFF, "XOFF still was not sent so cancel it"
\* (handflow.c:213), only if no other XOFF is under way to a peer that obeys it:
\* nothing would ever resume that peer.
XoffStillUnsent ==
  [][\A p \in Ports :
       /\ pass = Nobody /\ port[Other(p)].hand.autoTx
       /\ port[p].x = "off" /\ port'[p].x = "none"
       => \A k \in DOMAIN port[p].tx :
            port[p].tx[k] = "off" =>
              \E j \in k .. Len(port[p].tx) : port[p].tx[j] = "on"]_vars

\* p honours a line that no handshaking will raise: the other program keeps
\* it low, or has it follow what that port sends.
Unraised(p) ==
  \E i \in port[p].hand.out :
    LET pin == Wiring[p][i].pin
        h == port[From(p, i)].hand
    IN /\ pin = "RTS" => h.rts # "handshake"
       /\ pin = "DTR" => h.dtr # "handshake"
       /\ i \notin port[p].status \/ (pin = "RTS" /\ h.rts = "toggle")

\* The peer does not obey XOFF, or did not when the XOFF came.
Unheard(p) ==
  \/ port[p].hand.autoRx /\ ~port[Other(p)].hand.autoTx
  \/ "XON" \in port[p].told /\ "XON" \notin port[Other(p)].holding

\* A WRITE completes if the peer's program goes on reading, unless a program
\* stops one of the ports for good: by SET_XOFF, by a line the other honours, or
\* by filling a buffer that asks it by XOFF not to.  (The peer's own port matters
\* as it may have to send an XON.)
Drains ==
  \A p \in Ports :
    \/ []<>(port[p].toSend = 0)
    \/ <>[](\E q \in Ports : Unraised(q) \/ q \in paused \/ Unheard(q))
=============================================================================
