---------------------------- MODULE MCHubFilters ----------------------------
(***************************************************************************)
(* hub4com with filters, as the command files of hub4com/examples set it   *)
(* up: two hubs that join their serial ports over a TCP connection, or one *)
(* whose TCP peer is not a hub.                                            *)
(*                                                                         *)
(*   esc       com2tcp-esc.bat on both sides                               *)
(*   rfc2217   com2tcp-rfc2217.bat, a client and a server, ciphered        *)
(*   pin2con   com2tcp.bat with telnet on both sides; DSR connects; the     *)
(*             server's serial port is shared, and its DSR is watched      *)
(*   mux       multiplexer.bat with a synchronized link and one subport    *)
(*   awak      a serial port that has to be awakened and echoes, a client  *)
(*   answers   com2tcp-rfc2217.bat as the server of some other client      *)
(*   refused   the same, asked for a baud rate that the device does not have *)
(***************************************************************************)
EXTENDS HubWorld, Filters

CONSTANT Setups \* which of them

Rates == {"9600", "4800"}
Lc == {"8bits", "none", "1stop"}
AllCaps == {"MST", "RBR", "RLC", "BREAK", "LSR"}
SerialOf(permanent, caps, pins) ==
  NewSerial([permanent |-> permanent, limit |-> 99, br |-> {"9600"}, lc |-> Lc, inX |-> FALSE],
            Device({"9600"}, Lc, {{r} : r \in Rates}, caps, pins, FALSE))
Serial(caps, pins) == SerialOf(TRUE, caps, pins)
TcpOf(permanent, listener) ==
  NewTcp([permanent |-> permanent, limit |-> 99, reject |-> FALSE, busy |-> FALSE, priority |-> 0,
          listener |-> listener, reconnect |-> "default"])
Client(permanent) == TcpOf(permanent, {})
Server == TcpOf(FALSE, {"l"})

Create(group, f) == [opt |-> "create-filter", group |-> group, f |-> f]
Add(p, group, all) ==
  [opt |-> "add-filters", list |-> <<p>>,
   groups |-> <<[group |-> group, in |-> TRUE, out |-> TRUE, src |-> all]>>]
Ways(opt, from, to) == [opt |-> opt, from |-> <<from>>, to |-> <<to>>]

Wire(of) == [of |-> of, negative |-> FALSE]
FromTheLine == [o \in ModemPins |-> Wire(o)]
ToTheLine == [RTS |-> Wire("CTS"), DTR |-> Wire("DSR")]
ToTheLineAndBreak == ToTheLine @@ [BREAK |-> Wire("BREAK")]
FromTheLineAndBreak == FromTheLine @@ [BREAK |-> Wire("BREAK")]

\* com2tcp-esc.bat: serial port p, TCP port q.
EscOptions(p, q, whose) ==
  <<Create("com", EscParse(p, TRUE)), Create("com", PinMap(p, ToTheLineAndBreak)),
    Create("com", LineCtl(p, {"remote"}, {"remote"})), Add(p, "com", {p, q}),
    Create("tcp", EscParse(q, FALSE)), Create("tcp", EscInsert(q)),
    Create("tcp", PinMap(q, FromTheLineAndBreak)), Create("tcp", LineCtl(q, {whose}, {whose})),
    Add(q, "tcp", {p, q})>>

\* com2tcp-rfc2217.bat.
ClientOptions(p, q) ==
  <<Create("com", EscParse(p, TRUE)), Create("com", PinMap(p, ToTheLine)),
    Create("com", LineCtl(p, {"local"}, {"local"})), Add(p, "com", {p, q}),
    Create("tcp", Telnet(q, "client", FALSE, FALSE, <<>>)), Create("tcp", PinMap(q, ToTheLineAndBreak)),
    Create("tcp", LineCtl(q, {"remote"}, {"remote"})), Add(q, "tcp", {p, q})>>
ServerOptions(p, q) ==
  <<Create("com", EscParse(p, TRUE)), Create("com", Purge(p)), Create("com", PinMap(p, ToTheLineAndBreak)),
    Create("com", LineCtl(p, {"remote"}, {"remote"})), Add(p, "com", {p, q}),
    Create("tcp", Telnet(q, "server", TRUE, FALSE, <<>>)), Create("tcp", LsrMap(q)),
    Create("tcp", PinMap(q, FromTheLine)), Create("tcp", LineCtl(q, {"local"}, {"local"})),
    Add(q, "tcp", {p, q})>>

\* What goes over the connection of port q is ciphered.
Crypted(q, all) == <<Create("crypt", Crypt(q)), Add(q, "crypt", all)>>

\* com2tcp.bat.
PinOptions(p, q) ==
  <<Create("pin2con", Pin2Con(p, "DSR", FALSE, TRUE)), Add(p, "pin2con", {p, q}),
    Create("pinmap", PinMap(p, [DTR |-> Wire("connect")])), Add(p, "pinmap", {p, q}),
    Create("telnet", Telnet(q, "no", FALSE, TRUE, <<>>)), Add(q, "telnet", {p, q})>>
AnswerOptions(p, q) ==
  <<Create("telnet", Telnet(q, "no", FALSE, FALSE, <<{"NUL"}>>)), Add(q, "telnet", {p, q}),
    Create("pinmap", PinMap(q, [DTR |-> Wire("DSR")])), Add(q, "pinmap", {p, q})>>

\* The device says the sequence "ab" to be heard.
AwakOptions(p) == <<Create("com", AwakSeq(p, <<{"a"}, {"b"}>>)), Create("com", Echo(p)), Add(p, "com", {1, 2})>>

\* multiplexer.bat: the ports are the link, muxA, muxB and the subport.
MuxOptions(p, client) ==
  LET all == p .. p + 3
      sub == IF client THEN ClientOptions(p + 3, p + 2) ELSE ServerOptions(p + 3, p + 2)
  IN  <<Create("linkport", TagSync(p, {"sync"}, 2)), Add(p, "linkport", all)>>
      \o <<Create("tag", Tag(p + 1, {"t"})), Add(p + 1, "tag", all),
           Ways("bi-route", p, p + 1), Ways("no-default-fc-route", p + 1, p),
           Ways("bi-route", p + 2, p + 3)>>
      \o [i \in DOMAIN sub |-> IF sub[i].opt = "add-filters" THEN [sub[i] EXCEPT !.groups[1].src = all] ELSE sub[i]]

PortsOf(setup) ==
  CASE setup = "esc" -> <<Serial(AllCaps, {}), Client(TRUE), Server, Serial({}, {"DSR"})>>
    [] setup = "rfc2217" -> <<Serial(AllCaps, {}), Client(TRUE), Server, Serial({"MST", "LSR"}, {})>>
    [] setup = "pin2con" -> <<Serial({}, {}), Client(FALSE), Server, SerialOf(FALSE, {}, {})>>
    [] setup = "mux" ->
         LET a == <<Client(TRUE), NewConnector, NewConnector, Serial({"MST"}, {})>>
             b == <<Server, NewConnector, NewConnector, Serial({}, {"CTS"})>>
         IN  ConnectPorts(ConnectPorts(a \o b, {2}, {3}, TRUE), {6}, {7}, TRUE)
    [] setup = "awak" -> <<Serial({}, {}), Client(FALSE)>>
    [] setup \in {"answers", "refused"} -> <<Serial({}, {}), Server>>
Lists(setup) ==
  CASE setup = "mux" -> <<<<1, 2, 3, 4>>, <<5, 6, 7, 8>>>>
    [] setup \in {"awak", "answers", "refused"} -> <<<<1, 2>>>>
    [] OTHER -> <<<<1, 2>>, <<4, 3>>>>
OptionsOf(setup) ==
  CASE setup = "esc" -> <<EscOptions(1, 2, "remote"), EscOptions(4, 3, "local")>>
    [] setup = "rfc2217" -> <<ClientOptions(1, 2), ServerOptions(4, 3)>>
    [] setup = "pin2con" -> <<Crypted(2, {1, 2}) \o PinOptions(1, 2), Crypted(3, {3, 4}) \o AnswerOptions(4, 3)>>
    [] setup = "mux" -> <<MuxOptions(1, TRUE), MuxOptions(5, FALSE)>>
    [] setup = "awak" -> <<AwakOptions(1)>>
    [] setup \in {"answers", "refused"} -> <<ServerOptions(1, 2)>>
LinksOf(setup) ==
  CASE setup = "mux" -> {<<1, 5>>} [] setup \in {"awak", "answers", "refused"} -> {} [] OTHER -> {<<2, 3>>}

\* What the devices and peers have to say: bytes, and what they mean.
Char(c) == [bytes |-> <<c>>, data |-> <<c>>, of |-> "data", v |-> {}]
Unheard(c) == [Char(c) EXCEPT !.data = <<>>]
CharPadded == [bytes |-> <<CR>>, data |-> <<CR, {"NUL"}>>, of |-> "data", v |-> {}]
CharEscaped == [bytes |-> <<EscChar, {"ESCAPE"}>>, data |-> <<EscChar>>, of |-> "data", v |-> {}]
Pins(v) == [bytes |-> <<EscChar, {"MST"}, v>>, data |-> <<>>, of |-> "pins", v |-> v]
Baud(v) == [bytes |-> <<EscChar, {"RBR"}, v, v>>, data |-> <<>>, of |-> "br", v |-> v]
Doubles == [bytes |-> <<IAC, IAC>>, data |-> <<IAC>>, of |-> "data", v |-> {}]
Asks(command, args) ==
  [bytes |-> <<IAC, {"SB"}, ComPortOption, {command}>> \o args \o <<IAC, {"SE"}>>, data |-> <<>>,
   of |-> "request", v |-> {command}]
SaysOf(setup) ==
  CASE setup = "esc" -> [p \in 1 .. 4 |-> CASE p = 1 -> <<Pins({"CTS"}), CharEscaped, Baud({"4800"})>>
                                            [] p = 4 -> <<Char(EscChar)>>
                                            [] OTHER -> <<>>]
    [] setup = "rfc2217" -> [p \in 1 .. 4 |-> CASE p = 1 -> <<Char(IAC), Pins({"CTS"}), Baud({"4800"})>>
                                                [] p = 4 -> <<Pins({"DSR"})>>
                                                [] OTHER -> <<>>]
    [] setup = "pin2con" -> [p \in 1 .. 4 |-> CASE p = 1 -> <<Char({"a"}), Char(IAC)>>
                                                [] p = 4 -> <<CharPadded>>
                                                [] OTHER -> <<>>]
    [] setup = "mux" -> [p \in 1 .. 8 |-> CASE p = 4 -> <<Char({"t"})>> [] OTHER -> <<>>]
    [] setup = "awak" ->
         [p \in 1 .. 2 |-> IF p = 1 THEN <<Unheard({"b"}), Unheard({"a"}), Unheard({"b"}), Char({"c"}), Char({"a"})>>
                           ELSE <<>>]
    [] setup = "refused" -> [p \in 1 .. 2 |-> IF p = 1 THEN <<>> ELSE <<Asks("BR", <<{"1200"}, {"1200"}>>)>>]
    [] setup = "answers" ->
         [p \in 1 .. 2 |-> IF p = 1 THEN <<>>
                           ELSE <<Asks("BR", <<{"4800"}, {"4800"}>>), Asks("parity", <<{"even"}>>),
                                  Asks("PURGE", <<{"tx"}>>), Doubles, Asks("CONTROL", <<{"BREAK", "on"}>>)>>]
DevicePins(setup) ==
  [p \in DOMAIN PortsOf(setup) |->
     CASE setup = "esc" /\ p = 4 -> {{}, {"DSR"}}
       [] setup = "pin2con" /\ p = 1 -> {{}, {"DSR"}}
       [] OTHER -> {}]

Merged(a, b) == [data |-> a.data \o b.data, fc |-> a.fc \o b.fc, flt |-> a.flt @@ b.flt]
RECURSIVE InitAll(_, _), StartHubs(_, _)
InitAll(lists, options) ==
  IF lists = <<>> THEN [data |-> <<>>, fc |-> <<>>, flt |-> <<>>]
  ELSE Merged(Init(Head(lists), Head(options)), InitAll(Tail(lists), Tail(options)))
StartHubs(world, lists) == IF lists = <<>> THEN world ELSE StartHubs(StartAll(world, Head(lists)), Tail(lists))
Listening(ports) ==
  "l" :> NewListener({p \in DOMAIN ports : ports[p].kind = "tcp" /\ ports[p].listener # {}})
NewHubs(ports, made) == NewWorld(ports, Listening(ports), made)
HubsOf(setup) == StartHubs(NewHubs(PortsOf(setup), InitAll(Lists(setup), OptionsOf(setup))), Lists(setup))
Bytes(items) == FlattenSeq([i \in DOMAIN items |-> items[i].bytes])
MCWorlds ==
  {[hub |-> HubsOf(s), events |-> IF s = "pin2con" THEN 3 ELSE 2,
    outside |-> [name |-> s, links |-> LinksOf(s),
                 awaited |-> IF s \in {"esc", "pin2con"} THEN {} ELSE LinksOf(s), pins |-> DevicePins(s),
                 reads |-> CASE s = "mux" -> {12} [] s = "esc" -> {2, 32} [] OTHER -> {1, 32},
                 feed |-> [p \in DOMAIN PortsOf(s) |-> Bytes(SaysOf(s)[p])]]] : s \in Setups}

-----------------------------------------------------------------------------
\* What has been said wholly, by the device or peer of p.
SoFar(p) ==
  LET says == SaysOf(outside.name)[p]
  IN  SubSeq(says, 1, Cardinality({n \in DOMAIN says : Len(Bytes(SubSeq(says, 1, n))) <= Len(heard[p])}))
Whole(p) == Len(Bytes(SoFar(p))) = Len(heard[p])
OfKind(p, kind) == SelectSeq(SoFar(p), LAMBDA x : x.of = kind)
LastOf(p, kind, default) == IF OfKind(p, kind) = <<>> THEN default ELSE Last(OfKind(p, kind)).v
Meant(p) == FlattenSeq([i \in DOMAIN SoFar(p) |-> SoFar(p)[i].data])

\* The ends of the line.
Pairs ==
  CASE outside.name = "mux" -> {<<4, 8>>, <<8, 4>>}
    [] outside.name = "awak" -> {<<1, 2>>, <<1, 1>>}
    [] outside.name \in {"answers", "refused"} -> {<<2, 1>>}
    [] OTHER -> {<<1, 4>>, <<4, 1>>}
Joined == \A l \in Links : w.port[l[1]].connected /\ w.port[l[2]].connected
AtRest ==
  /\ \A p \in Drivers : Under(p) = 0 /\ Whole(p)
  /\ \A p \in Tcps : ~w.port[p].closeEvent /\ w.port[p].sock \in {"none", "open"}
  /\ \A l \in DOMAIN w.listen : ~w.listen[l].event

FilterOf(p, kind) ==
  LET fs == SelectSeq(w.flt[p], LAMBDA i : i.f.kind = kind)
  IN  IF fs = <<>> THEN {} ELSE {fs[1].f}

\* What one end of the line is given comes out at the other end: every byte as it was and in
\* its order, whichever bytes the escape sequences, telnet, the tags and the cipher use, and
\* however the reads cut the stream.  Nothing is lost but what came while there was no
\* connection.  Of a serial port in share mode the code does not keep the order: see
\* NothingBufferedWhileFree.
Kept(p) == outside.awaited # {} \/ outside.name \in {"answers", "refused"} \/ (outside.name = "esc" /\ p = 1)
InShareMode(p) == p \in Serials /\ ~w.port[p].permanent
Transparent ==
  \A pair \in {x \in Pairs : ~InShareMode(x[2])} :
    LET sent == w.port[pair[2]].sent
        meant == Meant(pair[1])
        next(n, ch) == IF n < Len(sent) /\ sent[n + 1] = ch THEN n + 1 ELSE n
    IN  /\ FoldLeft(next, 0, meant) = Len(sent)
        /\ Kept(pair[1]) /\ AtRest => sent = meant

\* When nothing is under way each device has the outputs and the baud rate that the far
\* device's pins and baud rate ask for: a change that comes before the connection, while it
\* is made or behind other data is not forgotten (SetCurrentState, the initial echo of
\* escinsert, CheckComEvents).
ByEscape(p) == \E f \in FilterOf(p, "escparse") : f.escMode /\ f.options \cap ModemPins # {}
PinsAt(p) == IF ByEscape(p) THEN LastOf(p, "pins", w.port[p].dev.pins) ELSE w.port[p].dev.pins
OutputsFollow ==
  AtRest /\ Joined =>
    IF outside.name = "pin2con" THEN ("DTR" \in w.port[1].dev.outs) = w.port[2].connected
    ELSE \A pair \in {x \in Pairs : x[1] # x[2] /\ {x[1], x[2]} \subseteq Serials} :
           LET outs == w.port[pair[2]].dev.outs
               pins == PinsAt(pair[1])
           IN  /\ ("RTS" \in outs) = ("CTS" \in pins)
               /\ ("DTR" \in outs) = ("DSR" \in pins)
               /\ OfKind(pair[1], "br") # <<>> => w.port[pair[2]].dev.br = LastOf(pair[1], "br", {})

\* Each request of a telnet client to set something is answered once, when what it asks for
\* is done (brSend, lcSend, mcrSend, brkSend of the server).
Answers(p, command) == Len(SelectSeq(w.port[p].sent, LAMBDA ch : {command, "server"} \subseteq ch))
Requests(p, command) == Len(SelectSeq(SoFar(p), LAMBDA x : x.of = "request" /\ x.v = {command}))
EachAnswered ==
  outside.name \in {"answers", "refused"} /\ AtRest /\ w.port[2].connected =>
    \A command \in {"BR", "parity", "CONTROL", "PURGE"} : Answers(2, command) = Requests(2, command)

\* What a filter wants to hear of a port is either provided by one of the port's driver, its
\* escape sequences and its telnet protocol, and by one only, or it was reported that it is
\* not (GET_IN_OPTS, FAIL_ESC_OPTS and FAIL_IN_OPTS).
Wants(f) ==
  CASE f.kind = "pinmap" -> FromInput(f)
    [] f.kind = "linectl" -> Asked(f, 0) \cup Asked(f, 1)
    [] f.kind = "lsrmap" -> LineErrors
    [] f.kind = "purge" -> {"PURGE_TX_IN"}
    [] OTHER -> {}
WantedAt(q) == UNION {Wants(i.f) : i \in ToSet(w.flt[q])}
WantedOf(p) ==
  UNION {WantedAt(q) : q \in {r[2] : r \in {x \in ToSet(w.data) : x[1] = p}}}
  \cup {f.pin : f \in FilterOf(p, "pin2con")}
ByDriver(p) ==
  IF p \in Serials THEN (w.port[p].inOptions[0] \cup w.port[p].inOptions[1]) \ {"ESCAPE_MODE"} ELSE {}
ByEscapes(p) == UNION {IF f.escMode THEN f.options ELSE {} : f \in FilterOf(p, "escparse")}
ByTelnet(p) == UNION {w.env.acc[Collected(f, 0)] \cup w.env.acc[Collected(f, 1)] : f \in FilterOf(p, "telnet")}
Reported(p) == {x[2] : x \in {y \in w.env.warned : y[1][Len(y[1])] = p}}
OptionsSettled ==
  \A p \in Ports :
    /\ WantedOf(p) \subseteq ByDriver(p) \cup ByEscapes(p) \cup ByTelnet(p) \cup Reported(p)
    /\ ByDriver(p) \cap ByEscapes(p) = {}
    /\ \A f \in FilterOf(p, "escparse") :
         p \in Serials /\ f.escMode => w.port[p].escape = f.options

\* A port's connection counter is the number of its sources whose connection their filters
\* and connectors let through: a pin that falls and rises before the delay, or a lost link,
\* leaves no connection behind (pin2con, Connector's Write).
Passed(p) ==
  LET pins == FilterOf(p, "pin2con")
      awaits == FilterOf(p, "awakseq")
  IN  CASE awaits # {} -> \E f \in awaits : f.connectSent
        [] pins # {} -> \E f \in pins : f.connect
        [] w.port[p].kind = "connector" -> \E r \in Ports : w.port[r].kind = "connector" /\ p \in w.port[r].data /\ w.port[r].connections > 0
        [] OTHER -> Up(p)
ConnectionsAgree ==
  \A q \in Drivers : w.port[q].counter = Cardinality({p \in Sources(w.data, q) : Passed(p)})
=============================================================================
