------------------------------- MODULE Telnet -------------------------------
(***************************************************************************)
(* The telnet filter of hub4com with the COM-PORT option of RFC 2217:      *)
(* telnet.cpp, opt_comport.cpp, opt_termtype.cpp and filter.cpp of         *)
(* plugins/telnet.  Methods as in StatusFilters.                           *)
(*                                                                         *)
(* A protocol byte is a set of one name, IAC, WILL and so on; a command of *)
(* the COM-PORT option is named too, and "server" is the base that the     *)
(* server's answers add.                                                   *)
(***************************************************************************)
EXTENDS ConnectionFilters

IAC == {"IAC"}
CR == {"CR"}

-----------------------------------------------------------------------------
\* What both sides of a protocol have: the options it knows and whether each is on here
\* (local) and there (remote), the decoder's state and the two streams.
ComPortOption == {"comport"}
OptionBytes == <<{"binary"}, {"echo"}, {"goahead"}, {"terminal"}, ComPortOption>>

NoProtocol ==
  [on |-> FALSE, state |-> "data", code |-> {}, option |-> {}, params |-> <<>>,
   local |-> [o \in ToSet(OptionBytes) |-> "cant"], remote |-> [o \in ToSet(OptionBytes) |-> "cant"],
   known |-> {}, enc |-> <<>>, dec |-> <<>>,
   countXoff |-> 0, suspended |-> FALSE,
   br |-> {}, brSend |-> FALSE, lcMask |-> {}, lc |-> {}, lcSend |-> {}, mst |-> {}, mstMask |-> {},
   lsrMask |-> {}, mcr |-> {}, mcrMask |-> {}, mcrSend |-> {}, brk |-> FALSE, brkSend |-> FALSE]

Telnet(p, comport, suppressEcho, keepActive, crPadding) ==
  [kind |-> "telnet", port |-> p, comport |-> comport, suppressEcho |-> suppressEcho,
   keepActive |-> keepActive, crPadding |-> crPadding, so |-> {}, pins |-> {}, br |-> {},
   lcMask |-> {}, lc |-> {}, timer |-> FALSE, t |-> NoProtocol]

HasComPort(f) == f.t.on /\ f.comport # "no"

\* The options that a client and a server carry.
SoOf(f) ==
  CASE f.comport = "client" -> {"DTR", "RTS", "BREAK", "BR", "LC", "PURGE_TX"}
    [] f.comport = "server" -> ModemPins \cup LineErrors \cup {"BR", "LC"}
    [] OTHER -> {}
GoOf(f, set) ==
  CASE f.comport = "client" -> IF set = 0 THEN {"LBR", "LLC"} ELSE LineErrors \cup ModemPins
    [] f.comport = "server" ->
         IF set = 0 THEN {} ELSE {"CTS", "DSR", "RBR", "RLC", "BREAK", "PURGE_TX_IN"}
    [] OTHER -> {}
Collected(f, set) == <<"tel", f.port, set>>

-----------------------------------------------------------------------------
\* faulty: a data byte that is the escape of the protocol is sent as it is.
Undoubled(s) == s

\* telnet.cpp: sending.
Doubled(s) == FlattenSeq([i \in DOMAIN s |-> IF s[i] = IAC THEN <<IAC, IAC>> ELSE <<s[i]>>])
SendOption(t, code, opt) == [t EXCEPT !.enc = @ \o <<IAC, {code}, opt>>]
SendSubNegotiation(t, opt, params) ==
  [SendOption(t, "SB", opt) EXCEPT !.enc = @ \o Doubled(params) \o <<IAC, {"SE"}>>]

InsertStream(chain, s) == IF s = <<>> THEN chain ELSE InsertBuf(chain, s)

\* Encode: the data, behind what the protocol had still to say, take the place of m.
Padded(f, s) ==
  IF f.crPadding = <<>> \/ f.t.local[{"binary"}] = "yes" THEN s
  ELSE FlattenSeq([i \in DOMAIN s |-> IF s[i] = CR THEN <<CR>> \o f.crPadding ELSE <<s[i]>>])
Encode(f, m) == [m EXCEPT !.data = f.t.enc \o Padded(f, Doubled(m.data))]

-----------------------------------------------------------------------------
\* opt_comport.cpp: what a client asks.
Ask(t, command, params) == SendSubNegotiation(t, ComPortOption, <<{command}>> \o params)
PartOrder == <<"size", "parity", "stop">>
PinOrder == <<"DTR", "RTS">>
OnOff(pin, on) == {pin, IF on THEN "on" ELSE "off"}
\* v2p and p2v: a part travels as a byte of its own; what no setting has means the default.
V2P(lc, part) == OfPart(lc, part)
DefaultOf(part) == CASE part = "size" -> {} [] part = "parity" -> {"none"} [] OTHER -> {"1stop"}
P2V(par, part) == IF OfPart(par, part) # {} THEN OfPart(par, part) ELSE DefaultOf(part)

ClientSetBR(t, br) == Ask(t, "BR", [i \in 1 .. RbrBytes |-> br])
ClientSetLC(t, mask, lc) ==
  FoldLeft(LAMBDA u, part : IF part \in mask THEN Ask(u, part, <<V2P(lc, part)>>) ELSE u, t, PartOrder)
ClientSetMCR(t, mcr, mask) ==
  FoldLeft(LAMBDA u, pin : IF pin \in mask THEN Ask(u, "CONTROL", <<OnOff(pin, pin \in mcr)>>) ELSE u,
           t, PinOrder)
ClientSetBreak(t, on) == Ask(t, "CONTROL", <<OnOff("BREAK", on)>>)
ClientPurgeTx(t) == Ask(t, "PURGE", <<{"tx"}>>)

\* What a server answers; each answer is due once, after it was asked for.
Answer(t, command, params) ==
  SendSubNegotiation(t, ComPortOption, <<{command, "server"}>> \o params)
\* faulty: the answer is given whether it was asked for or not.
ServerSetBRUnasked(t, br) ==
  IF br = {} THEN [t EXCEPT !.br = br]
  ELSE [Answer(t, "BR", [i \in 1 .. RbrBytes |-> br]) EXCEPT !.br = br, !.brSend = FALSE]
ServerSetBR(t, br) ==
  IF br = {} \/ ~t.brSend THEN [t EXCEPT !.br = br]
  ELSE [Answer(t, "BR", [i \in 1 .. RbrBytes |-> br]) EXCEPT !.br = br, !.brSend = FALSE]
ServerSetLC(t, mask, lc) ==
  FoldLeft(LAMBDA u, part : IF part \in mask \cap u.lcSend
                            THEN [Answer(u, part, <<V2P(lc, part)>>) EXCEPT !.lcSend = @ \ {part}] ELSE u,
           [t EXCEPT !.lcMask = mask, !.lc = lc], PartOrder)
ServerNotifyMST(t, mst) ==
  LET changed == ((t.mst \ mst) \cup (mst \ t.mst)) \cap t.mstMask
  IN  IF changed = {} THEN t
      ELSE [Answer(t, "MST", <<mst \cap t.mstMask>>) EXCEPT !.mst = mst \cap t.mstMask]
ServerNotifyLSR(t, lsr) ==
  IF lsr \cap t.lsrMask = {} THEN t ELSE Answer(t, "LSR", <<lsr \cap t.lsrMask>>)
ServerSetMCR(t, mcr, mask) ==
  FoldLeft(LAMBDA u, pin : IF pin \in u.mcrMask \cap u.mcrSend
                           THEN [Answer(u, "CONTROL", <<OnOff(pin, pin \in u.mcr)>>)
                                   EXCEPT !.mcrSend = @ \ {pin}] ELSE u,
           [t EXCEPT !.mcr = (@ \ mask) \cup (mcr \cap mask), !.mcrMask = @ \cup mask], PinOrder)
ServerSetBreak(t, on) ==
  IF ~t.brkSend THEN [t EXCEPT !.brk = on]
  ELSE [Answer(t, "CONTROL", <<OnOff("BREAK", on)>>) EXCEPT !.brk = on, !.brkSend = FALSE]

\* The virtual methods; each is called for the side that has it only.
SetBR(f, br) == [f EXCEPT !.t = IF f.comport = "client" THEN ClientSetBR(@, br) ELSE ServerSetBR(@, br)]
SetLC(f, mask, lc) ==
  [f EXCEPT !.t = IF f.comport = "client" THEN ClientSetLC(@, mask, lc) ELSE ServerSetLC(@, mask, lc)]
SetMCR(f, mcr, mask) ==
  [f EXCEPT !.t = IF f.comport = "client" THEN ClientSetMCR(@, mcr, mask) ELSE ServerSetMCR(@, mcr, mask)]
SetBreak(f, on) ==
  [f EXCEPT !.t = IF f.comport = "client" THEN ClientSetBreak(@, on) ELSE ServerSetBreak(@, on)]

\* The pins that are outputs of this side, of those that are to be told.
TellMST(f, pins, which) ==
  IF which \cap ModemPins = {} THEN f ELSE [f EXCEPT !.t = ServerNotifyMST(@, pins \cap ModemPins)]
TellMCR(f, pins, which) == IF which = {} THEN f ELSE SetMCR(f, pins, which)
TellBreak(f, pins, which) == IF "BREAK" \in which THEN SetBreak(f, "BREAK" \in pins) ELSE f

\* AddXoffXon: only the first XOFF and the last XON are told.
Tell(f, command) ==
  [f EXCEPT !.t = IF f.comport = "client" THEN Ask(@, command, <<>>) ELSE Answer(@, command, <<>>)]
AddXoffXon(f, xoff) ==
  LET n == f.t.countXoff + (IF xoff THEN 1 ELSE -1)
      g == [f EXCEPT !.t.countXoff = n]
  IN  IF n = (IF xoff THEN 1 ELSE 0) THEN Tell(g, IF xoff THEN "SUSPEND" ELSE "RESUME") ELSE g

-----------------------------------------------------------------------------
\* Receiving.  a holds the filter and the messages so far (out); the sets that its options
\* were collected into are go0 and go1.
FlushDecoded(a) ==
  [a EXCEPT !.out = InsertStream(@, a.f.t.dec), !.f.t.dec = <<>>]
Told(a, m) == [FlushDecoded(a) EXCEPT !.out = InsertMsg(@, m)]
With(a, t) == [a EXCEPT !.f.t = t]

OnSuspendResume(a, suspend) ==
  IF a.f.t.suspended = suspend THEN a
  ELSE [Told(a, Value("ADD_XOFF_XON", IF suspend THEN {"on"} ELSE {})) EXCEPT !.f.t.suspended = suspend]

\* A client hears the server's answers.
ClientOnSubNegotiation(a, command, args) ==
  LET par == UNION ToSet(args)
      is(c, n) == command = {c, "server"} /\ Len(args) = n
      mst == a.go1 \cap ModemPins
      lines == a.go1 \cap LineErrors
      part == CHOOSE c \in LcParts : c \in command
  IN  CASE is("BR", RbrBytes) /\ par # {} /\ "LBR" \in a.go0 -> Told(a, Value("LBR_STATUS", par))
        [] command \in {{c, "server"} : c \in LcParts} /\ Len(args) = 1 /\ par # {} /\ "LLC" \in a.go0 ->
             Told(a, Masked("LLC_STATUS", {part}, P2V(par, part)))
        [] is("LSR", 1) /\ par \cap lines # {} -> Told(a, Masked("LINE_STATUS", lines, par))
        [] is("MST", 1) /\ mst # {} -> Told(a, Masked("MODEM_STATUS", mst, par))
        [] is("SUSPEND", 0) \/ is("RESUME", 0) -> OnSuspendResume(a, "SUSPEND" \in command)
        [] OTHER -> a

\* A server is asked to set the baud rate: the answer waits for the SET_BR that the
\* status will cause, if there can be one.
ServerAskedBR(a, par) ==
  LET t == [a.f.t EXCEPT !.brSend = TRUE]
      new == par # {} /\ par # t.br
      said == new /\ "RBR" \in a.go1
      b == IF said THEN Told(With(a, [t EXCEPT !.br = {}]), Value("RBR_STATUS", par)) ELSE With(a, t)
  IN  IF said /\ "BR" \in a.f.so THEN b
      ELSE With(b, ServerSetBR(b.f.t, IF new THEN par ELSE t.br))

ServerAskedLC(a, part, par) ==
  LET t == [a.f.t EXCEPT !.lcSend = @ \cup {part}]
      v == P2V(par, part)
      new == par # {} /\ ~(part \in t.lcMask /\ OfPart(t.lc, part) = v)
      u == [t EXCEPT !.lcMask = @ \ {part}, !.lc = @ \ LcValues[part]]
      said == new /\ "RLC" \in a.go1
      b == IF said THEN Told(With(a, u), Masked("RLC_STATUS", {part}, v))
           ELSE With(a, IF new THEN u ELSE t)
  IN  IF said /\ "LC" \in a.f.so THEN b
      ELSE With(b, ServerSetLC(b.f.t, IF new THEN {part} ELSE t.lcMask, IF new THEN v ELSE t.lc))

\* SET-CONTROL: flow control is never used; BREAK, DTR and RTS are answered at once and
\* become the status of the wire they drive.
DrivenBy == [DTR |-> "DSR", RTS |-> "CTS"]
ToldIf(a, asked, m) == IF asked THEN Told(a, m) ELSE a
ServerAskedBreak(a, sets, on) ==
  ToldIf(With(a, ServerSetBreak([a.f.t EXCEPT !.brkSend = TRUE], IF sets THEN on ELSE a.f.t.brk)),
     sets /\ "BREAK" \in a.go1, Value("BREAK_STATUS", IF on THEN {"BREAK"} ELSE {}))
ServerAskedPin(a, pin, sets, on) ==
  LET t == [a.f.t EXCEPT !.mcrSend = @ \cup {pin}]
      driven == DrivenBy[pin]
  IN  ToldIf(With(a, ServerSetMCR(t, IF ~sets THEN t.mcr ELSE IF on THEN {pin} ELSE {}, IF sets THEN {pin} ELSE t.mcrMask)),
         sets /\ driven \in a.go1, Masked("MODEM_STATUS", {driven}, IF on THEN {driven} ELSE {}))
ServerAskedControl(a, v) ==
  LET sets == {"on", "off"} \cap v # {}
      on == "on" \in v
  IN  CASE v \cap {"FCO", "FCI"} # {} ->
             With(a, Answer(a.f.t, "CONTROL", <<(v \cap {"FCO", "FCI"}) \cup {"none"}>>))
        [] "BREAK" \in v -> ServerAskedBreak(a, sets, on)
        [] {"DTR", "RTS"} \cap v # {} -> ServerAskedPin(a, IF "DTR" \in v THEN "DTR" ELSE "RTS", sets, on)
        [] OTHER -> a

\* The masks a client sets are cut to what was asked of this side.
Masks(a, command, mask) ==
  With(a, Answer([a.f.t EXCEPT !.lsrMask = IF command = "LSRMASK" THEN mask ELSE @,
                               !.mstMask = IF command = "MSTMASK" THEN mask ELSE @], command, <<mask>>))
ServerOnSubNegotiation(a, command, args) ==
  LET par == UNION ToSet(args)
      is(c, n) == command = {c} /\ Len(args) = n
  IN  CASE is("BR", RbrBytes) -> ServerAskedBR(a, par)
        [] command \in {{c} : c \in LcParts} /\ Len(args) = 1 ->
             ServerAskedLC(a, CHOOSE c \in LcParts : c \in command, par)
        [] is("CONTROL", 1) -> ServerAskedControl(a, par)
        [] is("SUSPEND", 0) \/ is("RESUME", 0) -> OnSuspendResume(a, command = {"SUSPEND"})
        [] is("LSRMASK", 1) -> Masks(a, "LSRMASK", par \cap a.f.so \cap LineErrors)
        [] is("MSTMASK", 1) -> Masks(a, "MSTMASK", par \cap a.f.so \cap ModemPins)
        [] is("PURGE", 1) /\ par \in {{"rx"}, {"tx"}, {"rx", "tx"}} ->
             ToldIf(With(a, Answer(a.f.t, "PURGE", <<par>>)), "PURGE_TX_IN" \in a.go1 /\ "tx" \in par,
                Message("PURGE_TX_IN"))
        [] OTHER -> a

\* The terminal type is told when it is asked for.
TerminalOnSubNegotiation(a, command) ==
  IF command # {"send"} THEN a
  ELSE With(a, SendSubNegotiation(a.f.t, {"terminal"}, <<{"is"}, {"UNKNOWN"}>>))

OnSubNegotiation(a) ==
  LET t == a.f.t
      command == Head(t.params)
      args == Tail(t.params)
  IN  CASE t.params = <<>> -> a
        [] t.params # <<>> /\ t.option = {"terminal"} -> TerminalOnSubNegotiation(a, command)
        [] t.params # <<>> /\ t.option = ComPortOption /\ a.f.comport = "client" ->
             ClientOnSubNegotiation(a, command, args)
        [] t.params # <<>> /\ t.option = ComPortOption /\ a.f.comport = "server" ->
             ServerOnSubNegotiation(a, command, args)
        [] OTHER -> a

-----------------------------------------------------------------------------
\* telnet.cpp: Decode, byte by byte.
\* WILL, WONT, DO and DONT are answered only when they change something or cannot be.
Refusal == [WILL |-> "DONT", WONT |-> "DONT", DO |-> "WONT", DONT |-> "WONT"]
Consent == [WILL |-> "DO", DO |-> "WILL"]
Negotiated(t, verb, opt) ==
  LET side == IF verb \in {"WILL", "WONT"} THEN "remote" ELSE "local"
      is == IF opt \in t.known THEN t[side][opt] ELSE "cant"
  IN  CASE verb \in {"WILL", "DO"} /\ is = "cant" -> SendOption(t, Refusal[verb], opt)
        [] verb \in {"WILL", "DO"} /\ is = "no" ->
             SendOption([t EXCEPT ![side][opt] = "yes"], Consent[verb], opt)
        [] verb \in {"WONT", "DONT"} /\ is = "yes" ->
             SendOption([t EXCEPT ![side][opt] = "no"], Refusal[verb], opt)
        [] OTHER -> t

\* What a byte makes of the protocol's state, but for the end of a subnegotiation.
AfterByte(t, ch) ==
  LET data == [t EXCEPT !.state = "data"]
  IN  CASE t.state = "data" ->
             IF ch = IAC THEN [t EXCEPT !.state = "code"] ELSE [t EXCEPT !.dec = Append(@, ch)]
        [] t.state = "code" ->
             CASE ch = IAC -> [data EXCEPT !.dec = Append(@, ch)]
               [] ch \in {{"SB"}, {"WILL"}, {"WONT"}, {"DO"}, {"DONT"}} -> [t EXCEPT !.code = ch, !.state = "option"]
               [] OTHER -> data
        [] t.state = "option" ->
             IF t.code = {"SB"} THEN [t EXCEPT !.option = ch, !.params = <<>>, !.state = "params"]
             ELSE Negotiated(data, CHOOSE c \in t.code : TRUE, ch)
        [] t.state = "params" ->
             IF ch = IAC THEN [t EXCEPT !.state = "subcode"] ELSE [t EXCEPT !.params = Append(@, ch)]
        [] OTHER -> IF ch = IAC THEN [t EXCEPT !.params = Append(@, ch), !.state = "params"] ELSE data
DecodeByte(a, ch) ==
  IF a.f.t.state = "subcode" /\ ch = {"SE"} THEN [OnSubNegotiation(a) EXCEPT !.f.t.state = "data"]
  ELSE With(a, AfterByte(a.f.t, ch))

RECURSIVE DecodeBytes(_, _)
DecodeBytes(a, s) == IF s = <<>> THEN a ELSE DecodeBytes(DecodeByte(a, Head(s)), Tail(s))
Decode(f, env, m) ==
  FlushDecoded(DecodeBytes([f |-> f, out |-> <<LineData(<<>>)>>,
                            go0 |-> env.acc[Collected(f, 0)], go1 |-> env.acc[Collected(f, 1)]], m.data))
Decoded(a, env) == Result(a.f, env, a.out)

-----------------------------------------------------------------------------
\* filter.cpp: what the protocol has to say goes back as an echo, or behind a message.
Said(r) ==
  [r EXCEPT !.f.t.enc = <<>>, !.echo = IF r.f.t.enc = <<>> THEN <<>> ELSE <<LineData(r.f.t.enc)>>]
SaidBehind(f, env, out) == Result([f EXCEPT !.t.enc = <<>>], env, InsertStream(out, f.t.enc))

\* CreateProtocol and Start, option by option in the order of their numbers.
Local(f, o) ==
  CASE o = {"echo"} -> IF f.suppressEcho THEN "yes" ELSE "cant"
    [] o = ComPortOption -> IF f.comport = "client" THEN "yes" ELSE "cant"
    [] OTHER -> "no"
Remote(f, o) ==
  CASE o = {"terminal"} -> "cant"
    [] o = ComPortOption -> IF f.comport = "server" THEN "yes" ELSE "cant"
    [] OTHER -> "no"
Starts(t, o) ==
  FoldLeft(LAMBDA u, verb : IF o \in u.known /\ u[IF verb = "WILL" THEN "local" ELSE "remote"][o] = "yes"
                            THEN SendOption(u, verb, o) ELSE u, t, <<"WILL", "DO">>)
NewProtocol(f) ==
  FoldLeft(Starts, [NoProtocol EXCEPT
                      !.on = TRUE,
                      !.local = [o \in ToSet(OptionBytes) |-> Local(f, o)],
                      !.remote = [o \in ToSet(OptionBytes) |-> Remote(f, o)],
                      !.known = {o \in ToSet(OptionBytes) : o # ComPortOption \/ f.comport # "no"},
                      !.mstMask = f.so \cap ModemPins],
           OptionBytes)

\* The settings that were made before there was a connection.
TellBR(f) == IF "BR" \in f.so /\ f.br # {} THEN SetBR(f, f.br) ELSE f
TellLC(f) == IF "LC" \in f.so THEN SetLC(f, f.lcMask, f.lc) ELSE f
TellPins(f, pins, which) ==
  TellBreak(TellMCR(TellMST(f, pins, which), pins, which \cap {"DTR", "RTS"}), pins, which)
SetCurrentState(f) == TellPins(TellLC(TellBR(f)), f.pins, f.so)

Made(f) == IF HasComPort(f) THEN SetCurrentState(f) ELSE f
TelnetConnect(f, env, m) ==
  Said(Pass([Made([f EXCEPT !.t = NewProtocol(f)]) EXCEPT !.timer = f.keepActive], env, m))

\* CONNECT(FALSE): BREAK and the modem's pins fall with the connection.
TelnetDisconnect(f, env, m) ==
  LET go1 == env.acc[Collected(f, 1)]
      brk == IF HasComPort(f) /\ "BREAK" \in go1 THEN InsertMsg(<<m>>, Value("BREAK_STATUS", {})) ELSE <<m>>
      mst == IF HasComPort(f) /\ go1 \cap ModemPins # {}
             THEN InsertMsg(brk, Masked("MODEM_STATUS", go1 \cap ModemPins, {})) ELSE brk
  IN  Result([f EXCEPT !.timer = FALSE, !.t = NoProtocol], env, mst)

TelnetGetIn(f, env, m) ==
  Result(f, env, <<[m EXCEPT !.val = @ \ GoOf(f, m.set)],
                   OptionsFor("GET_IN_OPTS", m.set, m.val \cap GoOf(f, m.set), Collected(f, m.set))>>)

TelnetIn(f, env, m) ==
  LET nop == [f EXCEPT !.t.enc = @ \o <<IAC, {"NOP"}>>]
  IN  CASE m.type = "GET_IN_OPTS" /\ m.set \in {0, 1} ->
             IF GoOf(f, m.set) = {} THEN Pass(f, env, m) ELSE TelnetGetIn(f, env, m)
        [] m.type = "LINE_DATA" /\ m.data # <<>> ->
             IF f.t.on THEN Said(Decoded(Decode(f, env, m), env)) ELSE Result(f, env, <<Empty>>)
        [] m.type = "CONNECT" -> IF IsOn(m) THEN TelnetConnect(f, env, m) ELSE TelnetDisconnect(f, env, m)
        [] m.type = "TICK" /\ m.to = <<"telnet", f.port>> ->
             IF f.timer /\ f.t.on THEN Said(Result(nop, env, <<Empty>>)) ELSE Result(f, env, <<Empty>>)
        [] OTHER -> Pass(f, env, m)

-----------------------------------------------------------------------------
\* A setting is remembered, and told when it is a new one and there is a protocol.
TelnetSetPins(f, env, m) ==
  LET mask == m.mask \cap f.so \cap (ModemPins \cup {"DTR", "RTS", "BREAK"})
      pins == (m.val \cap mask) \cup (f.pins \ mask)
      changed == (pins \ f.pins) \cup (f.pins \ pins)
      kept == <<Without(m, mask)>>
  IN  IF HasComPort(f) /\ changed # {} THEN SaidBehind([TellPins(f, pins, changed) EXCEPT !.pins = pins], env, kept)
      ELSE Result([f EXCEPT !.pins = pins], env, kept)

TelnetSetBR(f, env, m) ==
  LET g == [f EXCEPT !.br = m.val]
  IN  CASE "BR" \notin f.so -> Pass(f, env, m)
        [] "BR" \in f.so /\ f.br # m.val /\ HasComPort(f) -> SaidBehind(SetBR(g, m.val), env, <<Empty>>)
        [] OTHER -> Result(g, env, <<Empty>>)

TelnetSetLC(f, env, m) ==
  LET mask == m.mask \cup f.lcMask
      lc == UNION {OfPart(IF c \in m.mask THEN m.val ELSE f.lc, c) : c \in LcParts}
      g == [f EXCEPT !.lcMask = mask, !.lc = lc]
  IN  CASE "LC" \notin f.so -> Pass(f, env, m)
        [] "LC" \in f.so /\ g # f /\ HasComPort(f) -> SaidBehind(SetLC(g, mask, lc), env, <<Empty>>)
        [] OTHER -> Result(g, env, <<Empty>>)

TelnetSetLSR(f, env, m) ==
  LET lsr == m.val \cap m.mask \cap f.so \cap LineErrors
      kept == <<Without(m, f.so \cap LineErrors)>>
  IN  IF lsr = {} \/ ~HasComPort(f) THEN Result(f, env, kept)
      ELSE SaidBehind([f EXCEPT !.t = ServerNotifyLSR(@, lsr)], env, kept)

TelnetOut(f, env, m) ==
  CASE m.type = "SET_OUT_OPTS" ->
         Result([f EXCEPT !.so = @ \cup (m.val \cap SoOf(f))], env, <<[m EXCEPT !.val = @ \ SoOf(f)]>>)
    [] m.type = "SET_BR" -> TelnetSetBR(f, env, m)
    [] m.type = "SET_LC" -> TelnetSetLC(f, env, m)
    [] m.type = "SET_PIN_STATE" -> TelnetSetPins(f, env, m)
    [] m.type = "SET_LSR" -> TelnetSetLSR(f, env, m)
    [] m.type = "PURGE_TX" /\ "PURGE_TX" \in f.so ->
         IF HasComPort(f) THEN SaidBehind([f EXCEPT !.t = ClientPurgeTx(@)], env, <<Empty>>)
         ELSE Result(f, env, <<Empty>>)
    [] m.type = "ADD_XOFF_XON" /\ HasComPort(f) -> SaidBehind(AddXoffXon(f, IsOn(m)), env, <<m>>)
    [] m.type = "LINE_DATA" /\ m.data # <<>> ->
         IF f.t.on THEN Result([f EXCEPT !.t.enc = <<>>], env, <<Encode(f, m)>>)
         ELSE Result(f, env, <<Empty>>)
    [] OTHER -> Pass(f, env, m)
=============================================================================
