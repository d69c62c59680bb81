---------------------------- MODULE StatusFilters ----------------------------
(***************************************************************************)
(* The filters of hub4com that carry data and status: echo, escparse,      *)
(* escinsert, pinmap, lsrmap, linectl and purge.                           *)
(***************************************************************************)
EXTENDS HubMsg

EscChar == {"FF"}
RbrBytes == 2 \* a baud rate takes four bytes; here it takes two

\* What SET_PIN_STATE and the status messages set, without the named bits.
Without(m, bits) == [m EXCEPT !.mask = @ \ bits]

-----------------------------------------------------------------------------
\* echo: what is read is also written back.
Echo(p) == [kind |-> "echo", port |-> p]
EchoIn(f, env, m) ==
  [Pass(f, env, m) EXCEPT !.echo = IF m.type = "LINE_DATA" /\ m.data # <<>>
                                   THEN <<LineData(m.data)>> ELSE <<>>]

-----------------------------------------------------------------------------
\* escparse: takes the statuses out of an escaped stream.
Acceptable == {"RBR", "RLC", "BREAK"} \cup ModemPins \cup LineErrors

EscParse(p, request) ==
  [kind |-> "escparse", port |-> p, request |-> request, escMode |-> FALSE, options |-> {},
   state |-> 0, code |-> {}, sub |-> 0, bytes |-> <<>>, line |-> <<>>]

Reset(f) == [f EXCEPT !.state = 0, !.sub = 0]

\* State::Flush: the characters so far become a message of their own.
Flush(a) ==
  IF a.f.line = <<>> THEN a
  ELSE [f |-> [a.f EXCEPT !.line = <<>>], out |-> InsertBuf(a.out, a.f.line)]
Report(a, wanted, m) ==
  IF wanted THEN [Flush(a) EXCEPT !.out = InsertMsg(@, m)] ELSE a

\* A whole line status, with the character that had the error (LSR_DATA only).
Parsed(a) == [a EXCEPT !.f = Reset(@)]
Shown(a, ch, is) == IF is THEN [a EXCEPT !.f.line = Append(@, ch)] ELSE a
LineStatusEnds(a, lsr, ch) ==
  LET lines == a.f.options \cap LineErrors
      brk == Report(a, "BREAK" \in a.f.options, Value("BREAK_STATUS", lsr \cap {"BI"}))
  IN  Parsed(Shown(Report(brk, lsr \cap lines # {}, Masked("LINE_STATUS", lines, lsr)),
                 ch, a.f.sub = 2 /\ ("BI" \notin lsr \/ ch # {})))

\* One character of an escape sequence behind its escape character.  bytes are those that
\* have come of the status, this one included.
Collect(a, ch) == [a EXCEPT !.f.sub = @ + 1, !.f.bytes = IF a.f.sub = 0 THEN <<>> ELSE Append(@, ch)]
StatusBytes(code) == CASE code = {"RBR"} -> RbrBytes [] code = {"RLC"} -> 3 [] code = {"MST"} -> 1 [] OTHER -> 0
StatusEnds(a, bytes) ==
  LET pins == a.f.options \cap ModemPins
      v == UNION ToSet(bytes)
  IN  Parsed(CASE a.f.code = {"RBR"} -> Report(a, "RBR" \in a.f.options, Value("RBR_STATUS", v))
             [] a.f.code = {"RLC"} -> Report(a, "RLC" \in a.f.options, Masked("RLC_STATUS", LcParts, v))
             [] OTHER -> Report(a, pins # {}, Masked("MODEM_STATUS", pins, v)))
EscapedNext(a, ch) ==
  LET f == a.f
  IN  CASE f.code = {"ESCAPE"} -> Parsed([a EXCEPT !.f.line = Append(@, EscChar)])
        [] f.code \in {{"LSR_DATA"}, {"LSR_NODATA"}} ->
             IF f.sub = 0 \/ (f.sub = 1 /\ f.code = {"LSR_DATA"}) THEN Collect(a, ch)
             ELSE LineStatusEnds(a, IF f.sub = 1 THEN ch ELSE f.bytes[1], ch)
        [] f.code \in {{"MST"}, {"RBR"}, {"RLC"}} ->
             IF f.sub < StatusBytes(f.code) THEN Collect(a, ch) ELSE StatusEnds(a, Append(f.bytes, ch))
        [] OTHER -> Parsed(a)
EscapedChar(a, ch) ==
  EscapedNext(IF a.f.state = 1 THEN [a EXCEPT !.f.code = ch, !.f.state = 2, !.f.sub = 0, !.f.bytes = <<>>] ELSE a, ch)

ParseChar(a, ch) ==
  CASE a.f.state # 0 -> EscapedChar(a, ch)
    [] a.f.state = 0 /\ ch = EscChar -> [a EXCEPT !.f.state = 1]
    [] OTHER -> [a EXCEPT !.f.line = Append(@, ch)]

RECURSIVE ParseChars(_, _)
ParseChars(a, s) == IF s = <<>> THEN a ELSE ParseChars(ParseChar(a, Head(s)), Tail(s))

\* State::Convert: the message is emptied and what it held is put behind it.
Convert(f, m) ==
  IF ~f.escMode THEN [f |-> f, out |-> <<m>>]
  ELSE Flush(ParseChars([f |-> f, out |-> <<LineData(<<>>)>>], m.data))

Intercepted(f) == <<"esc", f.port>>

\* Negotiation: GET_IN_OPTS comes twice.  The first time the filters behind this one
\* are asked apart for what it can parse; the second time it accepts what they asked
\* for, and asks its port for the escape mode.
EscParseGetIn(f, env, m) ==
  IF m.set = 0
  THEN LET g == [f EXCEPT !.options = @ \cup (env.acc[Intercepted(f)] \cap Acceptable)]
           asks == f.request /\ g.options # {} /\ "ESCAPE_MODE" \in m.val
       IN  Result([g EXCEPT !.escMode = @ \/ asks \/ ~f.request],
                  IF asks THEN Request(env, m.to, {"ESCAPE_MODE"}) ELSE env,
                  <<[m EXCEPT !.val = @ \ {"ESCAPE_MODE"}]>>)
  ELSE Result(f, env,
              <<[m EXCEPT !.val = @ \ Acceptable],
                OptionsFor("GET_IN_OPTS", m.set, m.val \cap Acceptable, Intercepted(f))>>)

\* The driver refused some of the options in escape mode: they are asked for without.
EscParseFailEsc(f, env, m) ==
  LET fail == m.val \cap f.options
  IN  Result([f EXCEPT !.options = @ \ fail], Request(Warn(env, <<"escparse", f.port>>, fail),
                                                      m.to, fail), <<Empty>>)

EscParseFailIn(f, env, m) ==
  IF m.set # 0 THEN Pass(f, env, m)
  ELSE LET refused == "ESCAPE_MODE" \in m.val /\ f.request
       IN  Result(IF refused THEN [f EXCEPT !.escMode = FALSE, !.options = {}] ELSE f,
                  IF refused THEN Warn(env, <<"escparse", f.port>>, {"ESCAPE_MODE"}) ELSE env,
                  <<[m EXCEPT !.val = @ \ {"ESCAPE_MODE"}]>>)

Become(r, env) == Result(r.f, env, r.out)
EscParseIn(f, env, m) ==
  LET hidden(opt) == IF opt \in f.options THEN Result(f, env, <<Empty>>) ELSE Pass(f, env, m)
  IN  CASE m.type = "COUNT_REPEATS" -> Pass(f, [env EXCEPT !.repeats = @ + 1], m)
        [] m.type = "GET_IN_OPTS" /\ m.set \in {0, 1} -> EscParseGetIn(f, env, m)
        [] m.type = "GET_ESC_OPTS" ->
             Result(f, [env EXCEPT !.acc[m.to] = f.options], <<Empty>>)
        [] m.type = "FAIL_ESC_OPTS" -> EscParseFailEsc(f, env, m)
        [] m.type = "FAIL_IN_OPTS" -> EscParseFailIn(f, env, m)
        [] m.type = "LINE_DATA" /\ m.data # <<>> -> Become(Convert(f, m), env)
        [] m.type = "MODEM_STATUS" -> Result(f, env, <<Without(m, f.options \cap ModemPins)>>)
        [] m.type = "LINE_STATUS" -> Result(f, env, <<Without(m, f.options \cap LineErrors)>>)
        [] m.type = "RBR_STATUS" -> hidden("RBR")
        [] m.type = "RLC_STATUS" -> hidden("RLC")
        [] m.type = "BREAK_STATUS" -> hidden("BREAK")
        [] OTHER -> Pass(f, env, m)

-----------------------------------------------------------------------------
\* escinsert: turns the settings of an output into an escaped stream.
EscInsert(p) ==
  [kind |-> "escinsert", port |-> p, connected |-> FALSE, so |-> {}, pins |-> {},
   br |-> {}, lcMask |-> {}, lc |-> {}]
Insertable == ModemPins \cup {"BREAK", "BR", "LC"} \cup LineErrors

InsertStatus(chain, code, v) == InsertBuf(chain, <<EscChar, {code}, v>>)
InsertRBR(chain, br) == InsertBuf(chain, <<EscChar, {"RBR"}>> \o [i \in 1 .. RbrBytes |-> br])
InsertRLC(chain, lc) ==
  InsertBuf(chain, <<EscChar, {"RLC"}, OfPart(lc, "size"), OfPart(lc, "parity"), OfPart(lc, "stop")>>)

WithBR(chain, f) == IF "BR" \in f.so /\ f.br # {} THEN InsertRBR(chain, f.br) ELSE chain
WithLC(chain, f) == IF "LC" \in f.so /\ f.lcMask = LcParts THEN InsertRLC(chain, f.lc) ELSE chain
WithMST(chain, told, pins) == IF told THEN InsertStatus(chain, "MST", pins \cap ModemPins) ELSE chain
WithLSR(chain, told, pins) ==
  IF told THEN InsertStatus(chain, "LSR_NODATA", IF "BREAK" \in pins THEN {"BI"} ELSE {}) ELSE chain

\* faulty: the pins are left out.
CurrentStateLessPins(f) == WithLSR(WithLC(WithBR(<<>>, f), f), f.so \cap (LineErrors \cup {"BREAK"}) # {}, f.pins)

\* A new connection hears the current settings first.
CurrentState(f) ==
  WithLSR(WithMST(WithLC(WithBR(<<>>, f), f), f.so \cap ModemPins # {}, f.pins),
          f.so \cap (LineErrors \cup {"BREAK"}) # {}, f.pins)

EscInsertIn(f, env, m) ==
  IF m.type # "CONNECT" THEN Pass(f, env, m)
  ELSE [Pass([f EXCEPT !.connected = IsOn(m)], env, m)
          EXCEPT !.echo = IF IsOn(m) THEN CurrentState(f) ELSE <<>>]

SetPins(f, env, m) ==
  LET mask == m.mask \cap f.so \cap (ModemPins \cup {"BREAK"})
      pins == (m.val \cap mask) \cup (f.pins \ mask)
      changed == (pins \ f.pins) \cup (f.pins \ pins)
      kept == <<Without(m, mask)>>
      \* a BREAK that begins is told by the line status, if that is asked for
      brk == "BREAK" \in changed /\ ("BREAK" \notin pins \/ "BI" \notin f.so)
  IN  IF mask = {} THEN Pass(f, env, m)
      ELSE Result([f EXCEPT !.pins = pins], env, IF f.connected THEN WithLSR(WithMST(kept, changed \cap ModemPins # {}, pins), brk, pins) ELSE kept)

SetBaudRate(f, env, m) ==
  IF "BR" \notin f.so THEN Pass(f, env, m)
  ELSE Result([f EXCEPT !.br = m.val], env,
              IF f.connected /\ f.br # m.val THEN InsertRBR(<<Empty>>, m.val) ELSE <<Empty>>)

SetLineControl(f, env, m) ==
  LET mask == m.mask \cup f.lcMask
      lc == UNION {OfPart(IF c \in m.mask THEN m.val ELSE f.lc, c) : c \in LcParts}
      changed == mask # f.lcMask \/ lc # f.lc
  IN  IF "LC" \notin f.so THEN Pass(f, env, m)
      ELSE Result([f EXCEPT !.lcMask = mask, !.lc = lc], env,
                  IF f.connected /\ changed THEN InsertRLC(<<Empty>>, lc) ELSE <<Empty>>)

SetLineStatus(f, env, m) ==
  LET lsr == m.val \cap m.mask \cap f.so \cap LineErrors
      kept == <<Without(m, f.so \cap LineErrors)>>
  IN  Result(f, env, IF lsr # {} /\ f.connected THEN InsertStatus(kept, "LSR_NODATA", lsr) ELSE kept)

Escaped(s) == FlattenSeq([i \in DOMAIN s |-> IF s[i] = EscChar THEN <<EscChar, {"ESCAPE"}>> ELSE <<s[i]>>])

EscInsertOut(f, env, m) ==
  CASE m.type = "SET_OUT_OPTS" ->
         Result([f EXCEPT !.so = @ \cup (m.val \cap Insertable)], env, <<[m EXCEPT !.val = @ \ Insertable]>>)
    [] m.type = "SET_BR" -> SetBaudRate(f, env, m)
    [] m.type = "SET_LC" -> SetLineControl(f, env, m)
    [] m.type = "SET_PIN_STATE" -> SetPins(f, env, m)
    [] m.type = "SET_LSR" -> SetLineStatus(f, env, m)
    [] m.type = "LINE_DATA" -> Result(f, env, <<LineData(Escaped(m.data))>>)
    [] OTHER -> Pass(f, env, m)

-----------------------------------------------------------------------------
\* pinmap: wires[o] is the input that output pin o follows, perhaps inverted.
PinMap(p, wires) ==
  [kind |-> "pinmap", port |-> p, wires |-> wires, in |-> {"on"}, out |-> {}, connections |-> 0]
DefaultWires == [o \in {"RTS", "DTR"} |-> [of |-> IF o = "RTS" THEN "CTS" ELSE "DSR", negative |-> FALSE]]

Wired(f) == {f.wires[o].of : o \in DOMAIN f.wires}
OutPins(f) == DOMAIN f.wires \ {"DATA"}
FromInput(f) == Wired(f) \cap (ModemPins \cup {"BREAK"})

\* InsertPinState: the inputs in changed have the values in, their outputs follow.
InsertPinState(f, env, changed, in, m) ==
  LET outs == {o \in DOMAIN f.wires : f.wires[o].of \in changed}
      high == {o \in outs : (f.wires[o].of \in in) # f.wires[o].negative}
      pins == outs \ {"DATA"}
  IN  Result([f EXCEPT !.out = high \cup (@ \ outs), !.in = in], env,
             IF pins = {} THEN <<m>> ELSE InsertMsg(<<m>>, Masked("SET_PIN_STATE", pins, high \cap pins)))

\* The inputs of mask take their values from v.
Follow(f, env, m, mask, v) ==
  LET in == (v \cap mask) \cup (f.in \ mask)
  IN  InsertPinState(f, env, (in \ f.in) \cup (f.in \ in), in, m)

PinMapOut(f, env, from, m) ==
  CASE m.type = "SET_OUT_OPTS" -> InsertPinState(f, env, Wired(f), f.in, [m EXCEPT !.val = @ \cup OutPins(f)])
    [] m.type = "GET_IN_OPTS" /\ m.set = 1 ->
         Pass(f, Request(env, m.to, FromInput(f) \cap m.val), m)
    [] m.type = "FAIL_IN_OPTS" /\ m.set = 1 ->
         Pass(f, Warn(env, <<"pinmap", f.port, from>>, m.val \cap FromInput(f)), m)
    [] m.type = "SET_PIN_STATE" -> Result(f, env, <<Without(m, OutPins(f))>>)
    [] m.type = "MODEM_STATUS" -> Follow(f, env, m, m.mask \cap Wired(f) \cap ModemPins, m.val)
    [] m.type = "BREAK_STATUS" /\ "BREAK" \in Wired(f) ->
         Follow(f, env, m, {"BREAK"}, IF m.val # {} THEN {"BREAK"} ELSE {})
    [] m.type = "CONNECT" /\ "connect" \in Wired(f) ->
         LET n == IF IsOn(m) THEN f.connections + 1 ELSE f.connections - 1
         IN  Follow([f EXCEPT !.connections = n], env, m, {"connect"}, IF n > 0 THEN {"connect"} ELSE {})
    [] m.type = "LINE_DATA" /\ "DATA" \in DOMAIN f.wires /\ "DATA" \notin f.out ->
         Result(f, env, <<Empty>>)
    [] OTHER -> Pass(f, env, m)

-----------------------------------------------------------------------------
\* lsrmap: the line errors of the input are set in the output.
LsrMap(p) == [kind |-> "lsrmap", port |-> p]

LsrMapOut(f, env, from, m) ==
  LET lsr == m.val \cap m.mask \cap LineErrors
  IN  CASE m.type = "SET_OUT_OPTS" -> Pass(f, env, [m EXCEPT !.val = @ \cup LineErrors])
        [] m.type = "GET_IN_OPTS" /\ m.set = 1 -> Pass(f, Request(env, m.to, LineErrors \cap m.val), m)
        [] m.type = "FAIL_IN_OPTS" /\ m.set = 1 ->
             Pass(f, Warn(env, <<"lsrmap", f.port, from>>, m.val \cap LineErrors), m)
        [] m.type = "LINE_STATUS" /\ lsr # {} ->
             Result(f, env, InsertMsg(<<m>>, Masked("SET_LSR", lsr, lsr)))
        [] OTHER -> Pass(f, env, m)

-----------------------------------------------------------------------------
\* linectl: br and lc say which settings the output follows: the local or remote ones.
LineCtl(p, br, lc) == [kind |-> "linectl", port |-> p, br |-> br, lc |-> lc]

Follows(f) == (IF f.br = {} THEN {} ELSE {"BR"}) \cup (IF f.lc = {} THEN {} ELSE {"LC"})
Asked(f, set) ==
  LET whose == IF set = 0 THEN "local" ELSE "remote"
  IN  {o \in {"LBR", "RBR"} : whose \in f.br /\ (o = "LBR") = (set = 0)}
      \cup {o \in {"LLC", "RLC"} : whose \in f.lc /\ (o = "LLC") = (set = 0)}

LineCtlOut(f, env, from, m) ==
  LET sets(type) == Result(f, env, InsertMsg(<<m>>, [m EXCEPT !.type = type]))
      hidden(opt) == IF opt \in Follows(f) THEN Result(f, env, <<Empty>>) ELSE Pass(f, env, m)
  IN  CASE m.type = "SET_OUT_OPTS" -> Pass(f, env, [m EXCEPT !.val = @ \cup Follows(f)])
        [] m.type = "GET_IN_OPTS" /\ m.set \in {0, 1} ->
             Pass(f, Request(env, m.to, Asked(f, m.set) \cap m.val), m)
        [] m.type = "FAIL_IN_OPTS" /\ m.set \in {0, 1} ->
             Pass(f, Warn(env, <<"linectl", f.port, from>>, m.val \cap Asked(f, m.set)), m)
        [] m.type = "SET_BR" -> hidden("BR")
        [] m.type = "SET_LC" -> hidden("LC")
        [] m.type = "LBR_STATUS" /\ "local" \in f.br -> sets("SET_BR")
        [] m.type = "RBR_STATUS" /\ "remote" \in f.br -> sets("SET_BR")
        [] m.type = "LLC_STATUS" /\ "local" \in f.lc -> sets("SET_LC")
        [] m.type = "RLC_STATUS" /\ "remote" \in f.lc -> sets("SET_LC")
        [] OTHER -> Pass(f, env, m)

-----------------------------------------------------------------------------
\* purge: a purge of the input becomes one of the output.
Purge(p) == [kind |-> "purge", port |-> p]

PurgeOut(f, env, from, m) ==
  CASE m.type = "SET_OUT_OPTS" -> Pass(f, env, [m EXCEPT !.val = @ \cup {"PURGE_TX"}])
    [] m.type = "GET_IN_OPTS" /\ m.set = 1 -> Pass(f, Request(env, m.to, {"PURGE_TX_IN"} \cap m.val), m)
    [] m.type = "FAIL_IN_OPTS" /\ m.set = 1 ->
         Pass(f, Warn(env, <<"purge", f.port, from>>, m.val \cap {"PURGE_TX_IN"}), m)
    [] m.type = "PURGE_TX" -> Result(f, env, <<Empty>>)
    [] m.type = "PURGE_TX_IN" -> Result(f, env, InsertMsg(<<m>>, Message("PURGE_TX")))
    [] OTHER -> Pass(f, env, m)
=============================================================================
