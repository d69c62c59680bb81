----------------------------- MODULE SerialPort -----------------------------
(***************************************************************************)
(* The serial port driver of hub4com: comport.cpp and comio.cpp of         *)
(* plugins/serial.                                                         *)
(*                                                                         *)
(* The system's side of a port is a file handle, its outstanding calls in  *)
(* the order of their completion, the device's settings and its pins.      *)
(***************************************************************************)
EXTENDS PortIo

LOCAL INSTANCE StatusFilters

\* intercepted_options: what the filters asked of a port.
PortAsked(p, set) == <<"port", p, set>>

-----------------------------------------------------------------------------
StartRead(w, p) ==
  LET s == w.port[p]
  IN  CASE s.reads > 0 -> [w |-> w, ok |-> TRUE]
        [] s.reads = 0 /\ Fails(w, "read") -> [w |-> w, ok |-> FALSE]
        [] OTHER -> [w |-> ReadAgain([w EXCEPT !.port[p].reads = 1], p), ok |-> TRUE]

StartWaitCommEvent(w, p) ==
  LET s == w.port[p]
  IN  CASE s.waits > 0 -> [w |-> w, ok |-> TRUE]
        [] s.waits = 0 /\ (~s.handle \/ Fails(w, "wait")) -> [w |-> w, ok |-> FALSE]
        [] OTHER -> [w |-> [w EXCEPT !.port[p].waits = 1, !.port[p].waitPending = TRUE,
                                     !.port[p].started = @ + 1], ok |-> TRUE]

-----------------------------------------------------------------------------
\* The settings of the device, remembered while it is closed.
SetPinState(s, value, mask) ==
  LET outs == (s.dev.outs \ mask) \cup (value \cap mask \cap Outputs)
  IN  [s EXCEPT !.pinValue = (@ \ mask) \cup (value \cap mask), !.pinMask = @ \cup mask,
                !.dev.outs = IF s.handle THEN outs ELSE @,
                !.dev.brk = IF s.handle /\ "BREAK" \in mask THEN "BREAK" \in value ELSE @]

\* The driver takes a baud rate it has; what it then has is what is remembered.
DeviceBaudRate(s, br) ==
  LET now == IF br \in s.dev.rates THEN br ELSE s.dev.br
  IN  CASE s.br = br -> s
        [] s.br # br /\ ~s.handle -> [s EXCEPT !.br = br]
        [] OTHER -> [s EXCEPT !.br = now, !.dev.br = now]

Combined(old, mask, lc) == UNION {OfPart(IF c \in mask THEN lc ELSE old, c) : c \in LcParts}
DeviceLineControl(s, mask, lc) ==
  LET new == Combined(s.lc, mask, lc)
  IN  IF s.handle THEN [s EXCEPT !.lc = new, !.dev.lc = new] ELSE [s EXCEPT !.lc = new]

\* SetEscMode: what the driver can insert, of what is asked, and the state it begins with.
InsertCaps(options) ==
  (IF options \cap ModemPins # {} THEN {"MST"} ELSE {}) \cup (options \cap {"BREAK", "RBR", "RLC"})
  \cup (IF options \cap LineErrors # {} THEN {"LSR"} ELSE {})
Inserted(s, caps) ==
  LET mst == WithMST(IF caps \cap {"LSR", "BREAK"} = {} THEN <<>> ELSE InsertStatus(<<>>, "LSR_NODATA", {}),
                     "MST" \in caps, s.dev.pins)
      rbr == IF "RBR" \in caps THEN InsertRBR(mst, s.br) ELSE mst
  IN  IF "RLC" \in caps THEN InsertRLC(rbr, s.lc) ELSE rbr
EscModeWith(s, options, caps) ==
  IF caps = {} THEN [ok |-> FALSE, fail |-> options, buf |-> <<>>]
  ELSE [ok |-> TRUE, fail |-> {o \in options : ~(InsertCaps({o}) \subseteq caps)}, buf |-> Inserted(s, caps)]
SetEscMode(s, options) == EscModeWith(s, options, InsertCaps(options) \cap s.dev.caps)

-----------------------------------------------------------------------------
\* Write queue.
\* faulty: XON is never told.
FlowControlUpdateOnce(w, p) ==
  IF w.port[p].suspended \/ w.port[p].queued <= LimitXoff(w.port[p]) THEN w ELSE TellXoff(w, p, TRUE)

FlowControlUpdate(w, p) == IF XoffTurns(w.port[p]) THEN TellXoff(w, p, ~w.port[p].suspended) ELSE w

PurgeWrite(w, p, withLost) ==
  LET s == IF w.port[p].handle THEN AbortWrites(w.port[p]) ELSE w.port[p]
      dropped == [s EXCEPT !.lost = IF withLost THEN Dword(@ + Len(s.buf)) ELSE @,
                           !.queued = @ - Len(s.buf), !.buf = <<>>]
  IN  [w EXCEPT !.port[p] = IF withLost THEN dropped
                            ELSE [dropped EXCEPT !.lost = Dword(@ - dropped.queued)]]

\* XON and XOFF characters of the data would act on the device: they are dropped.
FilterX(s, data) == IF s.autoReceive THEN SelectSeq(data, LAMBDA ch : ch \notin {{"XON"}, {"XOFF"}}) ELSE data

\* LINE_DATA: straight to the device when one of the three overlapped writes is free, or
\* behind what waits for one.
Lose(s, n) == [s EXCEPT !.lost = Dword(@ + n)]
WriteKept(w, p, kept) ==
  CASE kept = <<>> -> w
    [] kept # <<>> /\ Fails(w, "write") -> FlowControlUpdate([w EXCEPT !.port[p] = Lose(@, Len(kept))], p)
    [] OTHER -> FlowControlUpdate([StartWrite(w, p, kept) EXCEPT !.port[p].free = @ - 1,
                                                               !.port[p].queued = @ + Len(kept)], p)
Queue(w, p, data) ==
  LET s == w.port[p]
      kept == FilterX(s, data)
  IN  IF s.handle /\ s.free > 0
      THEN WriteKept([w EXCEPT !.port[p] = Lose(@, Len(data) - Len(kept))], p, kept)
      ELSE FlowControlUpdate([w EXCEPT !.port[p].buf = @ \o data, !.port[p].queued = @ + Len(data)], p)
WriteData(w, p, data) ==
  LET s == w.port[p]
  IN  IF s.limit = 0 \/ data = <<>> THEN w
      ELSE Queue(IF s.queued > s.limit THEN PurgeWrite(w, p, TRUE) ELSE w, p, data)

\* A write has ended: what waits goes with the same overlapped.
WriteNext(w, p) ==
  LET s == w.port[p]
      kept == FilterX(s, s.buf)
      goes == kept # <<>> /\ ~Fails(w, "write")
      taken == Lose([s EXCEPT !.buf = <<>>, !.queued = @ - Len(s.buf)], Len(s.buf) - (IF goes THEN Len(kept) ELSE 0))
  IN  CASE ~s.handle \/ s.buf = <<>> -> [w EXCEPT !.port[p].free = @ + 1]
        [] s.handle /\ s.buf # <<>> /\ ~goes -> [w EXCEPT !.port[p] = [taken EXCEPT !.free = @ + 1]]
        [] OTHER -> StartWrite([w EXCEPT !.port[p] = [taken EXCEPT !.queued = @ + Len(kept)]], p, kept)
OnWrite(w, p, len, done) ==
  FlowControlUpdate(WriteNext([w EXCEPT !.port[p] = Lose([@ EXCEPT !.queued = @ - len], len - done)], p), p)

-----------------------------------------------------------------------------
\* Status of the settings, to those who asked for the local or the remote one, and the
\* device's pins, for the events asked for: a chain of one message or of none.
IfAsked(asked, m) == IF asked THEN <<m>> ELSE <<>>
BaudRateStatus(s, set) ==
  IF set = 0 THEN IfAsked("LBR" \in s.inOptions[0], Value("LBR_STATUS", s.br))
  ELSE IfAsked("RBR" \in s.inOptions[1], Value("RBR_STATUS", s.br))
LineControlStatus(s, set, mask) ==
  LET v == UNION {OfPart(s.lc, c) : c \in mask}
  IN  IF set = 0 THEN IfAsked("LLC" \in s.inOptions[0], Masked("LLC_STATUS", mask, v))
      ELSE IfAsked("RLC" \in s.inOptions[1], Masked("RLC_STATUS", mask, v))
ComEvents(s) ==
  LET pins == s.inOptions[1] \cap ModemPins
  IN  IfAsked(pins # {}, Masked("MODEM_STATUS", pins, IF s.handle THEN s.dev.pins ELSE {}))

\* The port says one thing after the other, each as it is when its turn comes.
Chain(s, say) ==
  CASE say.of = "br" -> BaudRateStatus(s, say.set)
    [] say.of = "lc" -> LineControlStatus(s, say.set, say.mask)
    [] say.of = "events" -> ComEvents(s)
    [] OTHER -> say.chain
RECURSIVE Say(_, _, _)
SayChain(w, p, chain) == IF chain = <<>> THEN w ELSE OnRead(w, p, chain)
Say(w, p, says) ==
  IF says = <<>> THEN w ELSE Say(SayChain(w, p, Chain(w.port[p], Head(says))), p, Tail(says))
CheckComEvents(w, p) == Say(w, p, <<[of |-> "events"]>>)

UpdateOutOptions(s, options) ==
  LET control == {"RTS", "DTR"} \cup (IF s.dev.extended THEN {"OUT1", "OUT2"} ELSE {})
  IN  [s EXCEPT !.outOptions = (@ \ ((options \cap Outputs) \ control))
                               \cup (options \cap (control \cup {"BREAK", "BR", "LC", "PURGE_TX"}))]

-----------------------------------------------------------------------------
\* Start, for the first time: the options that the filters asked for are accepted or not.
EscOptions(p) == <<"escopts", p>>
EscFails(p) == <<"escfail", p>>
FailEscOptions(r, p) ==
  [r EXCEPT !.w.env.acc[PortAsked(p, 1)] = @ \cup r.w.env.acc[EscFails(p)]]
EscModeSet(w, p, r) ==
  [w EXCEPT !.port[p].escape = IF r.ok THEN w.env.acc[EscOptions(p)] \ r.fail ELSE w.env.acc[EscOptions(p)],
            !.port[p].inOptions[0] = IF r.ok THEN @ \cup {"ESCAPE_MODE"} ELSE @,
            !.env.acc[EscFails(p)] = {}]
AfterEscMode(w, p, r) ==
  IF r.fail = {} THEN [w |-> w, buf |-> r.buf]
  ELSE FailEscOptions([w |-> Told(w, p, OptionsFor("FAIL_ESC_OPTS", 0, r.fail, EscFails(p))), buf |-> r.buf], p)
EscModeAsked(w, p, r) == AfterEscMode(EscModeSet(w, p, r), p, r)
AskedEscMode(w, p) == EscModeAsked(w, p, SetEscMode(w.port[p], w.env.acc[EscOptions(p)]))
StartEscMode(w, p) ==
  IF "ESCAPE_MODE" \notin w.env.acc[PortAsked(p, 0)] THEN [w |-> w, buf |-> <<>>]
  ELSE AskedEscMode(Told([w EXCEPT !.env.acc[EscOptions(p)] = {}], p,
                         OptionsFor("GET_ESC_OPTS", 0, {}, EscOptions(p))), p)

CanAccept(set) == IF set = 0 THEN {"LBR", "LLC"} ELSE {"RBR", "RLC"} \cup ModemPins
FailRest(w, p, set) == Told(w, p, FailOptions(set, w.env.acc[PortAsked(p, set)] \ w.port[p].inOptions[set]))
AcceptOptions(w, p, set) ==
  FailRest([w EXCEPT !.port[p].inOptions[set] = @ \cup (w.env.acc[PortAsked(p, set)] \cap CanAccept(set))], p, set)

\* What a port that is open, and is to stay open, tells its listeners.
SayState(w, p, buf) ==
  Say([w EXCEPT !.port[p].connectSent = TRUE], p,
      <<[of |-> "connect", chain |-> IfAsked(~w.port[p].connectSent, Connect(TRUE))],
        [of |-> "br", set |-> 0], [of |-> "lc", set |-> 0, mask |-> LcParts],
        [of |-> "br", set |-> 1], [of |-> "lc", set |-> 1, mask |-> LcParts],
        [of |-> "buf", chain |-> buf], [of |-> "events"]>>)

RECURSIVE Close(_, _)

\* A port waits for its events, closes if nobody needs it, and reads unless it is stopped.
ReadOrClose(r, p, buf) ==
  IF r.ok THEN [w |-> SayState(r.w, p, buf), ok |-> TRUE] ELSE [w |-> Close(r.w, p), ok |-> FALSE]
StartWaiting(r, p, first, buf) ==
  LET s == r.w.port[p]
  IN  CASE first /\ ~r.ok -> [w |-> Close(r.w, p), ok |-> FALSE]
        [] (~first \/ r.ok) /\ ~s.permanent /\ s.counter <= 0 -> [w |-> Close(r.w, p), ok |-> TRUE]
        [] OTHER -> ReadOrClose(IF s.countXoff <= 0 THEN StartRead(r.w, p) ELSE [r EXCEPT !.ok = TRUE], p, buf)
StartOpen(w, p, first, buf) ==
  StartWaiting(IF w.port[p].inOptions[1] \cap ModemPins = {} THEN [w |-> w, ok |-> TRUE]
               ELSE StartWaitCommEvent(w, p),
               p, first, buf)

StartEscaped(esc, p) == StartOpen(AcceptOptions(AcceptOptions(esc.w, p, 0), p, 1), p, TRUE, esc.buf)
StartFirst(w, p) == StartEscaped(StartEscMode(w, p), p)

StartAsBefore(w, p, r) ==
  IF r.ok THEN StartOpen(w, p, FALSE, r.buf) ELSE [w |-> Close(w, p), ok |-> FALSE]
EscModeAgain(s) ==
  IF "ESCAPE_MODE" \in s.inOptions[0] THEN SetEscMode(s, s.escape) ELSE [ok |-> TRUE, fail |-> {}, buf |-> <<>>]
StartAgain(w, p) ==
  IF ~w.port[p].permanent /\ w.port[p].counter <= 0 THEN [w |-> Close(w, p), ok |-> TRUE]
  ELSE StartAsBefore([w EXCEPT !.port[p] = UpdateOutOptions(@, @.outOptions)], p, EscModeAgain(w.port[p]))

\* ComIo::Open() for a port that was open before: only when nothing is left of the old
\* handle; the remembered settings are made again.
Reopened(s) ==
  LET at == [s EXCEPT !.handle = TRUE, !.br = s.dev.br, !.lc = s.dev.lc]
  IN  SetPinState(DeviceLineControl(DeviceBaudRate(at, s.br), LcParts, s.lc), s.pinValue, s.pinMask)

Unneeded(w, p) ==
  IF w.port[p].connectSent THEN Told([w EXCEPT !.port[p].connectSent = FALSE], p, Connect(FALSE)) ELSE w
OpenAgain(w, p) ==
  IF Fails(w, "open") THEN w ELSE StartAgain([w EXCEPT !.port[p] = Reopened(@)], p).w
\* faulty: a port that is wanted while it closes is not opened when it is closed.
UpdateForgets(w, p) ==
  LET s == w.port[p]
  IN  IF s.permanent \/ s.counter > 0 THEN IF s.handle \/ s.closing THEN w ELSE OpenAgain(w, p)
      ELSE Unneeded(Close(w, p), p)
Update(w, p) ==
  LET s == w.port[p]
      needed == s.permanent \/ s.counter > 0
  IN  CASE needed /\ ~s.handle /\ s.closing -> [w EXCEPT !.port[p].notify = TRUE]
        [] needed /\ ~s.handle /\ ~s.closing -> OpenAgain(w, p)
        [] ~needed -> Unneeded(Close(w, p), p)
        [] OTHER -> w

\* ComIo::Close: the handle is freed when the last call on it has ended; then a port that
\* was wanted meanwhile is opened again.
Close(w, p) ==
  LET s == IF w.port[p].handle THEN [AbortWrites(w.port[p]) EXCEPT !.handle = FALSE, !.closing = TRUE] ELSE w.port[p]
      freed == [w EXCEPT !.port[p] = [s EXCEPT !.closing = FALSE, !.notify = FALSE]]
  IN  IF s.closing /\ s.started <= 0
      THEN IF s.notify /\ ~w.port[p].handle THEN Update(freed, p) ELSE freed
      ELSE [w EXCEPT !.port[p] = s]

-----------------------------------------------------------------------------
\* SET_BR and SET_LC: what of the settings has changed is told.
TellBR(v, p, old) ==
  IF v.port[p].br = old THEN v ELSE Say(v, p, <<[of |-> "br", set |-> 0], [of |-> "br", set |-> 1]>>)
WriteBR(w, p, m) ==
  IF "BR" \notin w.port[p].outOptions THEN w
  ELSE TellBR([w EXCEPT !.port[p] = DeviceBaudRate(@, m.val)], p, w.port[p].br)

TellLC(v, p, old) ==
  LET changed == {c \in LcParts : OfPart(v.port[p].lc, c) # OfPart(old, c)}
  IN  IF changed = {} THEN v
      ELSE Say(v, p, <<[of |-> "lc", set |-> 0, mask |-> changed], [of |-> "lc", set |-> 1, mask |-> changed]>>)
WriteLC(w, p, m) ==
  IF "LC" \notin w.port[p].outOptions THEN w
  ELSE TellLC([w EXCEPT !.port[p] = DeviceLineControl(@, m.mask, m.val)], p, w.port[p].lc)

WriteXoffXon(w, p, on) ==
  LET v == [w EXCEPT !.port[p].countXoff = IF on THEN @ + 1 ELSE @ - 1]
  IN  IF ~on /\ v.port[p].countXoff = 0 /\ v.port[p].handle THEN StartRead(v, p).w ELSE v

\* Write: returns the world and the message as the port leaves it.
Write(w, p, m) ==
  LET s == w.port[p]
      left == UpdateOutOptions(s, m.val \ s.outOptions)
      done(v) == [w |-> v, m |-> m]
  IN  CASE m.type = "LINE_DATA" -> done(WriteData(w, p, m.data))
        [] m.type = "CONNECT" ->
             done(Update([w EXCEPT !.port[p].counter = IF IsOn(m) THEN @ + 1 ELSE @ - 1], p))
        [] m.type = "SET_PIN_STATE" ->
             done([w EXCEPT !.port[p] = SetPinState(s, m.val, m.mask \cap s.outOptions)])
        [] m.type = "SET_BR" -> done(WriteBR(w, p, m))
        [] m.type = "SET_LC" -> done(WriteLC(w, p, m))
        [] m.type = "PURGE_TX" /\ "PURGE_TX" \in s.outOptions ->
             done(FlowControlUpdate(PurgeWrite(w, p, FALSE), p))
        [] m.type = "SET_OUT_OPTS" ->
             [w |-> [w EXCEPT !.port[p] = left], m |-> [m EXCEPT !.val = @ \ left.outOptions]]
        [] m.type = "ADD_XOFF_XON" -> done(WriteXoffXon(w, p, IsOn(m)))
        [] OTHER -> done(w)

\* FakeReadFilter: the options a serial port may provide are asked for apart.
Interceptable(set) ==
  IF set = 0 THEN {"ESCAPE_MODE", "LBR", "LLC"}
  ELSE {"RBR", "RLC", "BREAK"} \cup ModemPins \cup LineErrors
FakeReadFilter(w, p, m) ==
  IF m.type = "GET_IN_OPTS" /\ m.set \in {0, 1}
  THEN <<[m EXCEPT !.val = @ \ Interceptable(m.set)],
         OptionsFor("GET_IN_OPTS", m.set, m.val \cap Interceptable(m.set), PortAsked(p, m.set))>>
  ELSE <<m>>

-----------------------------------------------------------------------------
\* The completions, each a call that the system queues to the only thread.
Ended(w, p) ==
  LET v == [w EXCEPT !.port[p].started = @ - 1]
  IN  IF w.port[p].handle THEN v ELSE Close(v, p)

\* WriteOverlapped::OnWrite; done bytes of the oldest write have reached the device.
WriteEnds(w, p, done) ==
  LET job == Head(w.port[p].writes)
      v == [w EXCEPT !.port[p].writes = Tail(@), !.port[p].sent = @ \o SubSeq(job.data, 1, done)]
  IN  OnWrite(Ended(v, p), p, Len(job.data), done)

\* ReadOverlapped::OnRead: the data go up; the port reads on if it is not stopped by then.
ReadNext(w, p) ==
  IF ~w.port[p].handle \/ w.port[p].countXoff > 0 \/ Fails(w, "read")
  THEN [w EXCEPT !.port[p].reads = 0] ELSE ReadAgain(w, p)
ReadEnds(w, p, data) ==
  ReadNext(OnRead(Ended([w EXCEPT !.port[p].readPending = FALSE], p), p, <<LineData(data)>>), p)

\* WaitCommEventOverlapped::OnCommEvent, queued by the thread that waits for the event.
WaitNext(w, p) ==
  IF ~w.port[p].handle \/ Fails(w, "wait") THEN [w EXCEPT !.port[p].waits = 0]
  ELSE [w EXCEPT !.port[p].waitPending = TRUE, !.port[p].started = @ + 1]
WaitEnds(w, p) ==
  LET v == Ended([w EXCEPT !.port[p].waitPending = FALSE], p)
  IN  WaitNext(IF w.port[p].handle THEN CheckComEvents(v, p) ELSE v, p)

\* LostReport: what was lost since the last report goes to the total.
LostReport(w, p) ==
  [w EXCEPT !.port[p].lostTotal = Dword(@ + w.port[p].lost), !.port[p].lost = 0]
=============================================================================
